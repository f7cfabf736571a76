------------------------------- MODULE DiskProofs -------------------------------
(***************************************************************************)
(* Proofs about the files fdm keeps for itself.                            *)
(*                                                                         *)
(* The memory files, for any number of mails and rewrites, of deliver      *)
(* children that die, and a SIGTERM wherever it comes.  Nearly all of the  *)
(* invariant is about one mail, its files, its request and what the two    *)
(* processes have of it: a step is about one mail and leaves the others    *)
(* alone.                                                                  *)
(*                                                                         *)
(* The cache file of the news handler, for any number of groups, articles, *)
(* numberings and runs, as long as the fetch loop has one article at a     *)
(* time: it covers what has been committed of what the server has, and     *)
(* nothing else.                                                           *)
(***************************************************************************)
EXTENDS Shm, Nntp, FiniteSetTheorems, SequenceTheorems, TLAPS

-----------------------------------------------------------------------------
(* The memory files: the invariant.                                        *)

\* The names of the files of a mail.
Of(m) == {m} \X (0 .. MaxRewrites)

\* The calls the fetch child can be in the middle of, and the messages.
Short   == {"register", "destroy", "unlink"} \X Mails
Long    == {"receive", "unlink", "reopen"} \X Mails \X File
Request == [mail : Mails, kind : Kind, file : File]
Exit    == [kind : {"exit"}]
Reply   == [mail : Mails, error : BOOLEAN, file : File \cup {None}]

TypeInv ==
  /\ TypeOK
  /\ up \in Seq(Request \cup Exit) /\ down \subseteq Reply
  /\ doing \in {None} \cup Short \cup Long

\* The requests and the answers that belong to a mail; whether the fetch child is
\* in a call about it, and a deliver child or the parent at work on it.
UpOf(m)   == {up[i] : i \in {i \in DOMAIN up : up[i] \in Request /\ up[i].mail = m}}
DownOf(m) == {d \in down : d.mail = m}
About(m)  == doing # None /\ doing[2] = m
Busy(m)   == job[m] \in {"run", "ok", "failed"}

\* What the parent has of the mail is what the fetch child asked for.
Served(m) == Busy(m) \/ (fetch = "run" /\ \E d \in DownOf(m) : ~d.error)

\* No name of another mail goes with it.
NamesOk(m) ==
  /\ {file[m], held[m], new[m]} \subseteq Of(m) \cup {None}
  /\ \A r \in UpOf(m) : r.file \in Of(m)
  /\ \A d \in DownOf(m) : d.file \in Of(m) \cup {None}
  /\ About(m) /\ doing \in Long => doing[3] \in Of(m)

\* A mail that is mapped has a file, and so has one in the queues; what is under
\* way about it in the fetch child.
CallOk(m) ==
  /\ m \in mapped => file[m] # None
  /\ at[m] = "none" => file[m] = None
  /\ fetch = "run" /\ at[m] \notin {"none", "done"} =>
       file[m] # None \/ (About(m) /\ doing[1] = "reopen")
  /\ About(m) =>
       /\ doing[1] = "register" =>
            at[m] \in {"match", "deliver"} /\ file[m] # None /\ m \notin mapped
       /\ doing[1] = "unlink" => m \in mapped
       /\ doing[1] = "reopen" => file[m] = None
       /\ doing \in Long => at[m] = "deliver"
       /\ fetch = "run" /\ doing \in Short /\ doing[1] # "register" => at[m] = "done"

\* A request is in one place: on the way to the parent, with a deliver child, or
\* answered; the mail waits for it, and its file is the one that was sent.
TalkOk(m) ==
  /\ UpOf(m) # {} => ~Busy(m) /\ DownOf(m) = {}
  /\ Busy(m) => DownOf(m) = {}
  /\ DownOf(m) # {} => at[m] \in Kind
  /\ \A d, e \in DownOf(m) : d = e
  /\ \A r \in UpOf(m) : /\ r.kind = at[m] /\ file[m] \in {None, r.file}
                        /\ r.kind = "rewrite" => r.file[2] < MaxRewrites
  /\ Served(m) =>
       /\ kind[m] = at[m] /\ at[m] \in Kind /\ held[m] # None
       /\ file[m] \in {None, held[m]}
       /\ new[m] = IF kind[m] = "rewrite" THEN <<m, held[m][2] + 1>> ELSE None
  /\ fetch = "run" => \A d \in DownOf(m) :
       ~d.error /\ at[m] = "rewrite" => d.file = new[m]

\* What the fetch child has of the mail, or is to get, is there.
FileOk(m) ==
  /\ fetch \in {"run", "freeing"} /\ file[m] # None => file[m] \in files
  /\ fetch = "run" => \A d \in DownOf(m) :
       ~d.error /\ at[m] = "rewrite" => d.file \in files
  /\ fetch = "run" /\ About(m) /\ doing \in Long =>
       doing[3] \in files /\ doing[3] # file[m]

\* What an action is to read has its header lines folded.
FoldOk(m) ==
  /\ \A r \in UpOf(m) : r.kind # "command" => r.file \in folded
  /\ Busy(m) /\ kind[m] # "command" => held[m] \in folded

\* The cleanup lists: of the fetch child, with the file it has mapped, unless it
\* is about to remove it; of the parent, with those of the deliver child.
ListOk(m) ==
  /\ Busy(m) => {held[m], new[m]} \ {None} \subseteq listed["parent"]
  /\ ~setup.full =>
       /\ \A f \in Of(m) : f \in listed["fetch"] <=>
            /\ f = file[m] /\ m \in mapped
            /\ ~(About(m) /\ doing[1] = "unlink")
       /\ file[m] # None => m \in mapped \/ (About(m) /\ doing[1] = "register")
       /\ fetch \in {"waiting", "told", "exited"} => m \notin mapped
       /\ Busy(m) /\ kind[m] = "rewrite" => new[m] \in files

\* Every file is that of its mail, or about to be, or made by a rewrite the fetch
\* child has not heard of.
LeftOk(m) ==
  ~setup.full => \A f \in files \cap Of(m) :
    \/ f = file[m] /\ (fetch = "killed" => About(m))
    \/ /\ at[m] = "rewrite" /\ f = new[m] /\ UpOf(m) = {}
       /\ ~(fetch = "run" /\ \E d \in DownOf(m) : d.error)
    \/ About(m) /\ doing \in Long /\ f = doing[3]

MailOk(m) == /\ NamesOk(m) /\ CallOk(m) /\ TalkOk(m) /\ FileOk(m) /\ FoldOk(m)
             /\ ListOk(m) /\ LeftOk(m)

\* What is not about one mail.
LoopInv ==
  /\ fetch \in {"waiting", "told", "exited"} => doing = None
  /\ fetch = "freeing" => doing = None \/ doing \in {"destroy", "unlink"} \X Mails
  /\ fetch \in {"run", "freeing"} => \A i \in DOMAIN up : up[i] \in Request
  /\ reaped => fetch \in Ended /\ up = <<>> /\ down = {}
  /\ \A i, j \in DOMAIN up :
       up[i] \in Request /\ up[j] \in Request /\ up[i].mail = up[j].mail => i = j
  /\ ~setup.full => fetch # "fatal" /\ ~fatal

IInv == TypeInv /\ LoopInv /\ \A m \in Mails : MailOk(m)

-----------------------------------------------------------------------------
(* Names, calls and messages.                                              *)

LEMMA Names ==
  /\ None \notin File
  /\ \A m \in Mails : Of(m) \subseteq File
  /\ \A m : \A f \in Of(m) : f[1] = m /\ f[2] \in 0 .. MaxRewrites /\ f # None
  /\ \A m, n : m # n => Of(m) \cap Of(n) = {}
  /\ \A f \in File : f[1] \in Mails /\ f \in Of(f[1])
BY DEF None, File, Of

LEMMA Shorts ==
  ASSUME NEW d \in Short
  PROVE  /\ d # None /\ d \notin Long /\ d[2] \in Mails /\ Len(d) = 2
         /\ d[1] \in {"register", "destroy", "unlink"} /\ d = <<d[1], d[2]>>
         /\ [d EXCEPT ![1] = "unlink"] = <<"unlink", d[2]>>
BY DEF None, Short, Long

LEMMA Longs ==
  ASSUME NEW d \in Long
  PROVE  /\ d # None /\ d \notin Short /\ d[2] \in Mails /\ d[3] \in File /\ Len(d) = 3
         /\ d[1] \in {"receive", "unlink", "reopen"} /\ d = <<d[1], d[2], d[3]>>
         /\ [d EXCEPT ![1] = "unlink"] = <<"unlink", d[2], d[3]>>
BY DEF None, Short, Long

\* A request on its way to the parent, and the exit.
LEMMA Sent ==
  ASSUME NEW r \in Request \cup Exit
  PROVE  /\ r \in Request <=> r.kind # "exit"
         /\ r \in Request => r.mail \in Mails /\ r.kind \in Kind /\ r.file \in File
BY DEF Request, Exit, Kind

LEMMA Appended ==
  ASSUME NEW S, NEW s \in Seq(S), NEW e \in S
  PROVE  /\ Append(s, e) \in Seq(S)
         /\ DOMAIN Append(s, e) = DOMAIN s \cup {Len(s) + 1}
         /\ \A i \in DOMAIN s : i # Len(s) + 1 /\ Append(s, e)[i] = s[i]
         /\ Append(s, e)[Len(s) + 1] = e
<1>1. Len(s) \in Nat /\ DOMAIN s = 1 .. Len(s)
  BY LenProperties
<1>2. /\ Append(s, e) \in Seq(S) /\ Len(Append(s, e)) = Len(s) + 1
      /\ \A i \in 1 .. Len(s) : Append(s, e)[i] = s[i]
      /\ Append(s, e)[Len(s) + 1] = e
  BY AppendProperties
<1>3. DOMAIN Append(s, e) = 1 .. Len(s) + 1
  BY <1>2, LenProperties
<1>4. 1 .. Len(s) + 1 = (1 .. Len(s)) \cup {Len(s) + 1}
  BY <1>1
<1> QED
  BY <1>1, <1>2, <1>3, <1>4

LEMMA Taken ==
  ASSUME NEW S, NEW s \in Seq(S), s # <<>>
  PROVE  /\ Tail(s) \in Seq(S) /\ Head(s) \in S /\ 1 \in DOMAIN s /\ Head(s) = s[1]
         /\ \A i \in DOMAIN Tail(s) : /\ i + 1 \in DOMAIN s /\ i + 1 # 1 /\ i \in Nat
                                      /\ Tail(s)[i] = s[i + 1]
         /\ \A i \in DOMAIN s : i # 1 => /\ i - 1 \in DOMAIN Tail(s)
                                         /\ Tail(s)[i - 1] = s[i]
<1>1. Len(s) \in Nat /\ DOMAIN s = 1 .. Len(s) /\ Len(s) # 0
  BY LenProperties, EmptySeq
<1>2. /\ Head(s) \in S /\ Tail(s) \in Seq(S) /\ Len(Tail(s)) = Len(s) - 1
      /\ \A i \in 1 .. Len(Tail(s)) : Tail(s)[i] = s[i + 1]
  BY HeadTailProperties
<1>3. DOMAIN Tail(s) = 1 .. Len(s) - 1
  BY <1>2, LenProperties
<1>4. Head(s) = s[1]
  OBVIOUS
<1> QED
  BY <1>1, <1>2, <1>3, <1>4

\* A message is sent to the parent.
LEMMA UpMore ==
  ASSUME TypeInv, NEW r \in Request \cup Exit, up' = Append(up, r), NEW n \in Mails
  PROVE  UpOf(n)' = UpOf(n) \cup (IF r \in Request /\ r.mail = n THEN {r} ELSE {})
<1>1. /\ DOMAIN up' = DOMAIN up \cup {Len(up) + 1}
      /\ \A i \in DOMAIN up : up'[i] = up[i]
      /\ up'[Len(up) + 1] = r
  BY Appended DEF TypeInv
<1> QED
  BY <1>1 DEF UpOf

\* The parent takes a message.
LEMMA UpLess ==
  ASSUME TypeInv, LoopInv, up # <<>>, up' = Tail(up), NEW n \in Mails
  PROVE  /\ Head(up) \in Request /\ Head(up).mail = n => UpOf(n) = {Head(up)} /\ UpOf(n)' = {}
         /\ ~(Head(up) \in Request /\ Head(up).mail = n) => UpOf(n)' = UpOf(n)
<1>1. /\ 1 \in DOMAIN up /\ Head(up) = up[1]
      /\ \A i \in DOMAIN up' : i + 1 \in DOMAIN up /\ i + 1 # 1 /\ up'[i] = up[i + 1]
      /\ \A i \in DOMAIN up : i # 1 => i - 1 \in DOMAIN up' /\ up'[i - 1] = up[i]
  BY Taken DEF TypeInv
<1>2. ASSUME Head(up) \in Request, Head(up).mail = n
      PROVE  UpOf(n) = {Head(up)} /\ UpOf(n)' = {}
  <2>1. \A i \in DOMAIN up : up[i] \in Request /\ up[i].mail = n => i = 1
    BY <1>1, <1>2 DEF LoopInv
  <2> QED
    BY <1>1, <1>2, <2>1 DEF UpOf
<1>3. ASSUME ~(Head(up) \in Request /\ Head(up).mail = n)
      PROVE  UpOf(n)' = UpOf(n)
  <2>1. ASSUME NEW r \in UpOf(n)' PROVE r \in UpOf(n)
    <3>1. PICK i \in DOMAIN up' : r = up'[i] /\ up'[i] \in Request /\ up'[i].mail = n
      BY DEF UpOf
    <3>2. i + 1 \in DOMAIN up /\ up[i + 1] = r
      BY <1>1, <3>1
    <3> QED
      BY <3>1, <3>2 DEF UpOf
  <2>2. ASSUME NEW r \in UpOf(n) PROVE r \in UpOf(n)'
    <3>1. PICK i \in DOMAIN up : r = up[i] /\ up[i] \in Request /\ up[i].mail = n
      BY DEF UpOf
    <3>2. i # 1
      BY <1>1, <1>3, <3>1
    <3>3. i - 1 \in DOMAIN up' /\ up'[i - 1] = r
      BY <1>1, <3>1, <3>2
    <3> QED
      BY <3>1, <3>3 DEF UpOf
  <2> QED
    BY <2>1, <2>2
<1> QED
  BY <1>2, <1>3

\* A mail in the queues has a file, while the fetch child is not in a call.
LEMMA HasFile ==
  ASSUME IInv, NEW m \in Mails, Running, at[m] \notin {"none", "done"}
  PROVE  file[m] \in Of(m) /\ file[m] \in File /\ file[m] # None /\ ~About(m)
<1>1. fetch = "run" /\ ~About(m)
  BY DEF Running, About
<1>2. file[m] # None /\ file[m] \in Of(m) \cup {None}
  BY <1>1 DEF IInv, MailOk, CallOk, NamesOk
<1> QED
  BY <1>1, <1>2, Names

\* A mail the parent is asked about is there, while the fetch child is at work.
LEMMA InQueue ==
  ASSUME IInv, NEW m \in Mails, NEW r \in UpOf(m), fetch = "run"
  PROVE  r.file \in files
<1>t. MailOk(m)
  BY DEF IInv
<1>1. r.kind = at[m] /\ r.kind \in Kind /\ file[m] \in {None, r.file}
  BY <1>t DEF MailOk, TalkOk, UpOf, Request
<1>2. at[m] \notin {"none", "done", "deliver"}
  BY <1>1 DEF Kind
<1>3. ~(About(m) /\ doing[1] = "reopen")
  <2>1. About(m) => doing \in Short \/ doing \in Long
    BY DEF About, IInv, TypeInv
  <2> QED
    BY <1>t, <1>2, <2>1, Shorts DEF MailOk, CallOk
<1>4. file[m] # None
  BY <1>t, <1>2, <1>3 DEF MailOk, CallOk
<1> QED
  BY <1>t, <1>1, <1>4 DEF MailOk, FileOk

\* What the parent finds in a request.
LEMMA Asks ==
  ASSUME IInv, up # <<>>, Head(up).kind # "exit"
  PROVE  /\ Head(up) \in Request /\ Head(up).mail \in Mails /\ Head(up).kind \in Kind
         /\ Head(up).file \in Of(Head(up).mail) /\ Head(up).file \in File
         /\ Head(up) \in UpOf(Head(up).mail)
         /\ Head(up).kind = "rewrite" =>
              <<Head(up).mail, Head(up).file[2] + 1>> \in Of(Head(up).mail)
<1>1. /\ Head(up) \in Request \cup Exit /\ 1 \in DOMAIN up /\ Head(up) = up[1]
  BY Taken DEF IInv, TypeInv
<1>2. Head(up) \in Request /\ Head(up).mail \in Mails /\ Head(up).kind \in Kind
  BY <1>1, Sent
<1>3. Head(up) \in UpOf(Head(up).mail)
  BY <1>1, <1>2 DEF UpOf
<1>4. /\ Head(up).file \in Of(Head(up).mail)
      /\ Head(up).kind = "rewrite" => Head(up).file[2] < MaxRewrites
  BY <1>2, <1>3 DEF IInv, MailOk, NamesOk, TalkOk
<1>5. Head(up).file[2] \in 0 .. MaxRewrites
  BY <1>4, Names
<1>6. Head(up).kind = "rewrite" =>
        <<Head(up).mail, Head(up).file[2] + 1>> \in Of(Head(up).mail)
  BY <1>4, <1>5, ShmAssumption DEF Of
<1> QED
  BY <1>2, <1>3, <1>4, <1>6, Names

\* What the fetch child is told of a rewrite that has been made.
LEMMA Rewritten ==
  ASSUME IInv, NEW d \in down, Running, ~d.error, at[d.mail] = "rewrite"
  PROVE  /\ d.mail \in Mails /\ d \in DownOf(d.mail) /\ d.file = new[d.mail]
         /\ d.file \in Of(d.mail) /\ d.file \in File /\ d.file \in files
         /\ new[d.mail] = <<d.mail, held[d.mail][2] + 1>>
         /\ held[d.mail] # None /\ file[d.mail] \in {None, held[d.mail]}
<1> DEFINE m == d.mail
<1>1. m \in Mails /\ d \in DownOf(m)
  BY DEF IInv, TypeInv, Reply, DownOf
<1>2. TalkOk(m) /\ FileOk(m) /\ NamesOk(m)
  BY <1>1 DEF IInv, MailOk
<1>3. fetch = "run"
  BY DEF Running
<1>4. d.file = new[m] /\ d.file \in files
  BY <1>1, <1>2, <1>3 DEF TalkOk, FileOk
<1>5. Served(m)
  BY <1>1, <1>3 DEF Served
<1>6. /\ kind[m] = "rewrite" /\ held[m] # None /\ file[m] \in {None, held[m]}
      /\ new[m] = <<m, held[m][2] + 1>>
  BY <1>2, <1>5 DEF TalkOk
<1>7. new[m] # None
  BY <1>6 DEF None
<1> QED
  BY <1>1, <1>2, <1>4, <1>6, <1>7, Names DEF NamesOk

-----------------------------------------------------------------------------
(* Types.                                                                  *)

LEMMA TypeInit == Init => TypeInv
<1> SUFFICES ASSUME Init PROVE TypeInv
  OBVIOUS
<1>1. up \in Seq(Request \cup Exit)
  BY EmptySeq DEF Init
<1>2. doing = None /\ down = {}
  BY DEF Init
<1>3. TypeOK
  BY DEF Init, TypeOK, Kind
<1> QED
  BY <1>1, <1>2, <1>3 DEF TypeInv

LEMMA TypeStep ==
  ASSUME IInv, Next
  PROVE  TypeInv'
<1> USE DEF fetchVars, diskVars, parentVars, msgVars
<1>t. /\ TypeOK /\ up \in Seq(Request \cup Exit) /\ down \subseteq Reply
      /\ doing \in {None} \cup Short \cup Long
  BY DEF IInv, TypeInv
<1>s. setup' \in Setups
  BY <1>t DEF Next, TypeOK
<1>d. down' = down \/ down' \subseteq Reply => 
        \A d \in down' : d.mail \in Mails /\ d.error \in BOOLEAN /\ d.file \in File \cup {None}
  BY <1>t DEF Reply
<1>0. CASE UNCHANGED vars
  BY <1>0, <1>t DEF vars, TypeInv, TypeOK
<1>1. ASSUME NEW m \in Mails, MailOpen(m) PROVE TypeInv'
  <2>1. <<m, 0>> \in File
    BY ShmAssumption DEF File
  <2>2. <<"register", m>> \in Short
    BY DEF Short
  <2> QED
    BY <1>1, <1>t, <1>s, <1>d, <2>1, <2>2 DEF MailOpen, TypeInv, TypeOK
<1>2. CASE Register
  <2>1. doing[2] \in Mails
    BY <1>2, <1>t, Shorts, Longs DEF Register
  <2>2. file[doing[2]] \in File
    BY <1>2, <1>t, <2>1 DEF Register, IInv, MailOk, CallOk, About, TypeOK
  <2> QED
    BY <1>2, <1>t, <1>s, <1>d, <2>1, <2>2 DEF Register, Registered, TypeInv, TypeOK
<1>w. ASSUME NEW m \in Mails, NEW ch, Running, at[m] \notin {"none", "done"}, SetWrapped(m, ch)
      PROVE  folded' \subseteq File
  <2>1. file[m] \in File
    BY <1>w, HasFile
  <2> QED
    BY <1>w, <1>t, <2>1 DEF SetWrapped, TypeOK
<1>a. ASSUME NEW m \in Mails, NEW k \in Kind, Running, at[m] \notin {"none", "done"}, Asked(m, k)
      PROVE  /\ up' \in Seq(Request \cup Exit)
             /\ at' \in [Mails -> {"none", "match", "deliver", "done"} \cup Waiting]
  <2>1. [mail |-> m, kind |-> k, file |-> file[m]] \in Request
    BY <1>a, HasFile DEF Request
  <2>2. up' \in Seq(Request \cup Exit)
    BY <1>a, <1>t, <2>1, Appended DEF Asked
  <2> QED
    BY <1>a, <1>t, <2>2 DEF Asked, TypeOK, Waiting
<1>3. ASSUME NEW m \in Mails, MatchMail(m) PROVE TypeInv'
  <2>1. Running /\ at[m] = "match"
    BY <1>3 DEF MatchMail
  <2>2. folded' \subseteq File
    BY <1>3, <1>w, <2>1 DEF MatchMail
  <2>3. <<"destroy", m>> \in Short
    BY DEF Short
  <2>4. CASE Asked(m, "command") /\ UNCHANGED doing
    <3>1. /\ up' \in Seq(Request \cup Exit)
          /\ at' \in [Mails -> {"none", "match", "deliver", "done"} \cup Waiting]
      BY <1>a, <2>1, <2>4 DEF Kind
    <3> QED
      BY <1>3, <1>t, <1>s, <1>d, <2>2, <2>4, <3>1 DEF MatchMail, TypeInv, TypeOK
  <2>5. CASE /\ up' = up
             /\ \/ at' = [at EXCEPT ![m] = "deliver"] /\ UNCHANGED doing
                \/ at' = [at EXCEPT ![m] = "done"] /\ doing' = <<"destroy", m>>
    <3>1. /\ doing' \in {None} \cup Short \cup Long
          /\ at' \in [Mails -> {"none", "match", "deliver", "done"} \cup Waiting]
      BY <1>t, <2>3, <2>5 DEF TypeOK
    <3> QED
      BY <1>3, <1>t, <1>s, <1>d, <2>2, <2>5, <3>1 DEF MatchMail, TypeInv, TypeOK
  <2> QED
    BY <1>3, <2>4, <2>5 DEF MatchMail
<1>4. ASSUME NEW m \in Mails, MatchBlocked(m) PROVE TypeInv'
  <2>1. folded' \subseteq File
    BY <1>4, <1>w DEF MatchBlocked
  <2> QED
    BY <1>4, <1>t, <1>s, <1>d, <2>1 DEF MatchBlocked, TypeInv, TypeOK
<1>5. ASSUME NEW m \in Mails, DeliverMail(m) PROVE TypeInv'
  <2>1. Running /\ at[m] = "deliver"
    BY <1>5 DEF DeliverMail
  <2>2. folded' \subseteq File
    BY <1>5, <1>w, <2>1 DEF DeliverMail
  <2>3. /\ up' \in Seq(Request \cup Exit)
        /\ at' \in [Mails -> {"none", "match", "deliver", "done"} \cup Waiting]
    <3>1. CASE \E k \in {"action", "rewrite"} : Asked(m, k)
      BY <1>a, <2>1, <3>1 DEF Kind
    <3>2. CASE at' = [at EXCEPT ![m] = "match"] /\ UNCHANGED up
      BY <1>t, <3>2 DEF TypeOK
    <3> QED
      BY <1>5, <3>1, <3>2 DEF DeliverMail
  <2> QED
    BY <1>5, <1>t, <1>s, <1>d, <2>2, <2>3 DEF DeliverMail, TypeInv, TypeOK
<1>6. ASSUME NEW m \in Mails, ResizeFails(m) PROVE TypeInv'
  BY <1>6, <1>t, <1>s, <1>d DEF ResizeFails, TypeInv, TypeOK
<1>7. ASSUME NEW d \in down, TakeAnswer(d) PROVE TypeInv'
  <2>1. d.mail \in Mails /\ Running /\ at[d.mail] \in Kind
    BY <1>7, <1>t DEF TakeAnswer, Reply, Waiting
  <2>2. folded' \subseteq File
    BY <1>7, <1>w, <2>1 DEF TakeAnswer, Kind
  <2>3. doing' \in {None} \cup Short \cup Long /\ fetch' \in {fetch, "freeing"}
    <3>1. ~d.error /\ at[d.mail] = "rewrite" => <<"receive", d.mail, d.file>> \in Long
      BY <2>1, Rewritten DEF Long
    <3> QED
      BY <1>7, <1>t, <3>1 DEF TakeAnswer
  <2>4. at' \in [Mails -> {"none", "match", "deliver", "done"} \cup Waiting]
    BY <1>7, <1>t, <2>1 DEF TakeAnswer, TypeOK
  <2>5. down' \subseteq Reply
    BY <1>7, <1>t DEF TakeAnswer
  <2> QED
    BY <1>7, <1>t, <1>s, <1>d, <2>2, <2>3, <2>4, <2>5 DEF TakeAnswer, TypeInv, TypeOK
<1>p. doing # None => /\ doing[2] \in Mails
                      /\ Part = "receive" => doing \in Long
                      /\ doing \in Long => <<"reopen", doing[2], doing[3]>> \in Long
                      /\ [doing EXCEPT ![1] = "unlink"] \in Short \cup Long
                      /\ Len(doing) # 2 => doing \in Long
  <2>1. CASE doing \in Short
    <3>1. <<"unlink", doing[2]>> \in Short
      BY <2>1, Shorts DEF Short
    <3> QED
      BY <2>1, <3>1, Shorts DEF Part
  <2>2. CASE doing \in Long
    <3>1. <<"unlink", doing[2], doing[3]>> \in Long /\ <<"reopen", doing[2], doing[3]>> \in Long
      BY <2>2, Longs DEF Long
    <3> QED
      BY <2>2, <3>1, Longs DEF Part
  <2> QED
    BY <1>t, <2>1, <2>2
<1>e. Dies => fetch' = "fatal" /\ UNCHANGED <<at, file, mapped, doing, files, folded, listed>>
  BY DEF Dies
<1>8. CASE Deregister
  <2>1. doing # None /\ doing[2] \in Mails
    BY <1>8, <1>p DEF Deregister, Part
  <2>2. doing' \in {None} \cup Short \cup Long
    <3>1. Part # "destroy" => <<"reopen", doing[2], doing[3]>> \in Long
      BY <1>8, <1>p, <2>1 DEF Deregister
    <3>2. [doing EXCEPT ![1] = "unlink"] \in Short \cup Long
      BY <1>p, <2>1
    <3> QED
      BY <1>8, <1>t, <1>e, <3>1, <3>2 DEF Deregister
  <2>3. /\ file' \in [Mails -> File \cup {None}]
        /\ listed' \in [{"fetch", "parent"} -> SUBSET File]
        /\ fetch' \in {fetch, "fatal"}
    BY <1>8, <1>t, <1>e, <2>1 DEF Deregister, Dropped, TypeOK
  <2>4. /\ at' = at /\ mapped' = mapped /\ files' = files /\ folded' = folded
        /\ UNCHANGED <<parentVars, msgVars>>
    BY <1>8, <1>e DEF Deregister
  <2> QED
    BY <1>t, <1>s, <1>d, <2>2, <2>3, <2>4 DEF TypeInv, TypeOK, Ended
<1>9. CASE Unlink
  <2>1. doing # None /\ doing[2] \in Mails
    BY <1>9, <1>p DEF Unlink, Part
  <2>2. doing' \in {None} \cup Short \cup Long
    BY <1>9, <1>t, <1>p, <1>e, <2>1 DEF Unlink
  <2>3. /\ file' \in [Mails -> File \cup {None}] /\ mapped' \subseteq Mails
        /\ files' \subseteq File /\ fetch' \in {fetch, "fatal"}
    BY <1>9, <1>t, <1>e, <2>1 DEF Unlink, TypeOK
  <2>4. at' = at /\ folded' = folded /\ listed' = listed /\ UNCHANGED <<parentVars, msgVars>>
    BY <1>9, <1>e DEF Unlink
  <2> QED
    BY <1>t, <1>s, <1>d, <2>2, <2>3, <2>4 DEF TypeInv, TypeOK, Ended
<1>10. CASE Reopen
  <2>1. doing # None /\ doing[2] \in Mails /\ Part = "reopen"
    BY <1>10, <1>p DEF Reopen, Part
  <2>2. doing \in Long /\ doing[3] \in File
    BY <1>t, <2>1, Shorts, Longs DEF Part
  <2>3. <<"register", doing[2]>> \in Short
    BY <2>1 DEF Short
  <2>4. /\ doing' \in {None} \cup Short \cup Long /\ fetch' \in {fetch, "freeing"}
        /\ file' \in [Mails -> File \cup {None}]
    BY <1>10, <1>t, <2>2, <2>3 DEF Reopen, TypeOK
  <2>5. UNCHANGED <<at, mapped, files, folded, listed, parentVars, msgVars>>
    BY <1>10 DEF Reopen
  <2> QED
    BY <1>t, <1>s, <1>d, <2>4, <2>5 DEF TypeInv, TypeOK
<1>11. CASE FetchEnds
  BY <1>11, <1>t, <1>s, <1>d DEF FetchEnds, TypeInv, TypeOK
<1>12. CASE FetchFree
  <2>1. \A m \in mapped : <<"destroy", m>> \in Short
    BY <1>t DEF Short, TypeOK
  <2>2. [kind |-> "exit"] \in Exit
    BY DEF Exit
  <2>3. Append(up, [kind |-> "exit"]) \in Seq(Request \cup Exit)
    BY <1>t, <2>2, Appended
  <2>4. /\ doing' \in {None} \cup Short \cup Long /\ up' \in Seq(Request \cup Exit)
        /\ fetch' \in {fetch, "waiting"}
    BY <1>12, <1>t, <2>1, <2>3 DEF FetchFree
  <2> QED
    BY <1>12, <1>t, <1>s, <1>d, <2>4 DEF FetchFree, TypeInv, TypeOK
<1>13. CASE ChildExit
  BY <1>13, <1>t, <1>s, <1>d DEF ChildExit, TypeInv, TypeOK, Ended
<1>14. CASE Term
  BY <1>14, <1>t, <1>s, <1>d DEF Term, TypeInv, TypeOK, Ended
<1>r. ASSUME NEW m \in Mails, NEW b \in BOOLEAN, NEW f \in File \cup {None}, Answer(m, b, f)
      PROVE  down' \subseteq Reply
  <2>1. [mail |-> m, error |-> b, file |-> f] \in Reply
    BY DEF Reply
  <2> QED
    BY <1>r, <1>t, <2>1 DEF Answer
<1>15. CASE ParentFetch
  <2> DEFINE r == Head(up)
             m == r.mail
             g == <<m, r.file[2] + 1>>
             made == IF r.kind = "rewrite" THEN {g} ELSE {}
  <2>1. /\ r \in Request /\ m \in Mails /\ r.kind \in Kind /\ r.file \in File
        /\ made \subseteq File
        /\ r.kind = "rewrite" => g \in File
    BY <1>15, Asks, Names DEF ParentFetch
  <2>2. up' \in Seq(Request \cup Exit)
    BY <1>15, <1>t, Taken DEF ParentFetch
  <2>3. UNCHANGED <<fetchVars, reaped, fatal>>
    BY <1>15 DEF ParentFetch
  <2>4. \/ Answer(m, r.kind # "command", None) /\ UNCHANGED <<job, held, new, kind, diskVars>>
        \/ /\ Answer(m, TRUE, None)
           /\ listed' = [listed EXCEPT !["parent"] = @ \cup {r.file}]
           /\ UNCHANGED <<job, held, new, kind, files, folded>>
        \/ /\ job' = [job EXCEPT ![m] = "run"] /\ kind' = [kind EXCEPT ![m] = r.kind]
           /\ held' = [held EXCEPT ![m] = r.file]
           /\ new' = [new EXCEPT ![m] = IF r.kind = "rewrite" THEN g ELSE None]
           /\ listed' = [listed EXCEPT !["parent"] = @ \cup {r.file} \cup made]
           /\ files' = files \cup made /\ folded' = folded \cup made
           /\ UNCHANGED down
    BY <1>15 DEF ParentFetch
  <2>u. /\ UNCHANGED <<job, held, new, kind>>
           \/ /\ job' = [job EXCEPT ![m] = "run"] /\ kind' = [kind EXCEPT ![m] = r.kind]
              /\ held' = [held EXCEPT ![m] = r.file]
              /\ new' = [new EXCEPT ![m] = IF r.kind = "rewrite" THEN g ELSE None]
        /\ \/ files' = files /\ folded' = folded
           \/ files' = files \cup made /\ folded' = folded \cup made
        /\ \/ listed' = listed
           \/ listed' = [listed EXCEPT !["parent"] = @ \cup {r.file}]
           \/ listed' = [listed EXCEPT !["parent"] = @ \cup {r.file} \cup made]
    BY <2>4
  <2> HIDE DEF g, made, m, r
  <2>5. /\ down' \subseteq Reply
        /\ job' \in [Mails -> {"none", "run", "ok", "failed", "over", "dead"}]
        /\ held' \in [Mails -> File \cup {None}] /\ new' \in [Mails -> File \cup {None}]
        /\ kind' \in [Mails -> Kind]
        /\ files' \subseteq File /\ folded' \subseteq File
        /\ listed' \in [{"fetch", "parent"} -> SUBSET File]
    <3>1. ASSUME NEW b \in BOOLEAN, Answer(m, b, None) PROVE down' \subseteq Reply
      BY <1>r, <2>1, <3>1
    <3>2. (r.kind # "command") \in BOOLEAN /\ TRUE \in BOOLEAN
      OBVIOUS
    <3>3. down' \subseteq Reply
      BY <1>t, <2>4, <3>1, <3>2
    <3>4. /\ job' \in [Mails -> {"none", "run", "ok", "failed", "over", "dead"}]
          /\ held' \in [Mails -> File \cup {None}] /\ new' \in [Mails -> File \cup {None}]
          /\ kind' \in [Mails -> Kind]
      <4>1. (IF r.kind = "rewrite" THEN g ELSE None) \in File \cup {None}
        BY <2>1
      <4> QED
        BY <1>t, <2>1, <2>u, <4>1 DEF TypeOK
    <3>5. /\ files' \subseteq File /\ folded' \subseteq File
          /\ listed' \in [{"fetch", "parent"} -> SUBSET File]
      BY <1>t, <2>1, <2>u DEF TypeOK
    <3> QED
      BY <3>3, <3>4, <3>5
  <2> QED
    BY <1>t, <1>s, <1>d, <2>2, <2>3, <2>5 DEF TypeInv, TypeOK
<1>16. CASE ParentExit
  <2>1. up' \in Seq(Request \cup Exit)
    BY <1>16, <1>t, Taken DEF ParentExit
  <2> QED
    BY <1>16, <1>t, <1>s, <1>d, <2>1 DEF ParentExit, TypeInv, TypeOK
<1>17. ASSUME NEW m \in Mails, JobDone(m) PROVE TypeInv'
  BY <1>17, <1>t, <1>s, <1>d DEF JobDone, Results, TypeInv, TypeOK
<1>18. ASSUME NEW m \in Mails, JobDies(m) PROVE TypeInv'
  BY <1>18, <1>t, <1>s, <1>d DEF JobDies, TypeInv, TypeOK
<1>19. ASSUME NEW m \in Mails, ParentDeliver(m) PROVE TypeInv'
  <2>1. /\ down' \subseteq Reply /\ files' \subseteq File /\ fatal' \in BOOLEAN
        /\ listed' \in [{"fetch", "parent"} -> SUBSET File]
    BY <1>19, <1>t, <1>r DEF ParentDeliver, TypeOK
  <2>2. job' \in [Mails -> {"none", "run", "ok", "failed", "over", "dead"}]
    BY <1>19, <1>t DEF ParentDeliver, TypeOK
  <2>3. UNCHANGED <<fetchVars, folded, up, held, new, kind, reaped>>
    BY <1>19 DEF ParentDeliver
  <2> QED
    BY <1>t, <1>s, <1>d, <2>1, <2>2, <2>3 DEF TypeInv, TypeOK
<1>20. CASE WaitChildren
  <2>1. up' \in Seq(Request \cup Exit)
    BY <1>20, EmptySeq DEF WaitChildren
  <2> QED
    BY <1>20, <1>t, <1>s, <1>d, <2>1 DEF WaitChildren, TypeInv, TypeOK
<1> QED
  BY <1>0, <1>1, <1>2, <1>3, <1>4, <1>5, <1>6, <1>7, <1>8, <1>9, <1>10, <1>11, <1>12,
     <1>13, <1>14, <1>15, <1>16, <1>17, <1>18, <1>19, <1>20 DEF Next

-----------------------------------------------------------------------------
(* What is not about one mail.                                             *)

OneEach == \A i, j \in DOMAIN up :
  up[i] \in Request /\ up[j] \in Request /\ up[i].mail = up[j].mail => i = j

AllRequests == \A i \in DOMAIN up : up[i] \in Request

\* A mail that does not wait has no request under way.
LEMMA NotAsked ==
  ASSUME NEW m \in Mails, TalkOk(m), at[m] \notin Kind
  PROVE  UpOf(m) = {} /\ DownOf(m) = {} /\ ~Busy(m)
<1>1. \A r \in UpOf(m) : r.kind \in Kind
  BY DEF UpOf, Request
<1> QED
  BY <1>1 DEF TalkOk, Served

LEMMA AskedOne ==
  ASSUME TypeInv, OneEach, NEW r \in Request, UpOf(r.mail) = {}, up' = Append(up, r)
  PROVE  OneEach' /\ (AllRequests => AllRequests')
<1>1. /\ DOMAIN up' = DOMAIN up \cup {Len(up) + 1}
      /\ \A i \in DOMAIN up : up'[i] = up[i]
      /\ up'[Len(up) + 1] = r
  BY Appended DEF TypeInv
<1>2. \A i \in DOMAIN up : up[i] \in Request => up[i].mail # r.mail
  BY DEF UpOf
<1>3. OneEach'
  BY <1>1, <1>2 DEF OneEach
<1> QED
  BY <1>1, <1>3 DEF AllRequests

LEMMA TakenOne ==
  ASSUME TypeInv, OneEach, up # <<>>, up' = Tail(up)
  PROVE  OneEach' /\ (AllRequests => AllRequests')
<1>1. \A i \in DOMAIN up' : i + 1 \in DOMAIN up /\ i \in Nat /\ up'[i] = up[i + 1]
  BY Taken DEF TypeInv
<1>2. OneEach'
  <2> SUFFICES ASSUME NEW i \in DOMAIN up', NEW j \in DOMAIN up', up'[i] \in Request,
                      up'[j] \in Request, up'[i].mail = up'[j].mail
               PROVE  i = j
    BY DEF OneEach
  <2>1. i + 1 = j + 1
    BY <1>1 DEF OneEach
  <2> QED
    BY <1>1, <2>1
<1> QED
  BY <1>1, <1>2 DEF AllRequests

\* A step of the fetch child that sends nothing but the request of one mail.
LEMMA LoopGoesOn ==
  ASSUME LoopInv, setup' = setup, reaped' = reaped, down' \subseteq down, fatal' = fatal,
         fetch \in {"run", "freeing"}, ~reaped,
         OneEach', AllRequests',
         fetch' \in {"run", "freeing"},
         fetch' = "freeing" => doing' = None \/ doing' \in {"destroy", "unlink"} \X Mails
  PROVE  LoopInv'
BY DEF LoopInv, OneEach, AllRequests

LEMMA LoopInit == Init => LoopInv
BY DEF Init, LoopInv, Ended

LEMMA LoopInvStep ==
  ASSUME IInv, Next
  PROVE  LoopInv'
<1> USE DEF fetchVars, diskVars, parentVars, msgVars
<1>t. TypeInv /\ LoopInv /\ \A m \in Mails : MailOk(m)
  BY DEF IInv
<1>u. setup' = setup
  BY DEF Next
<1>o. OneEach /\ (fetch \in {"run", "freeing"} => AllRequests)
      /\ (fetch \in {"run", "freeing"} => ~reaped)
  BY <1>t DEF LoopInv, OneEach, AllRequests, Ended
<1>s. ASSUME up' = up
      PROVE  OneEach' /\ (fetch \in {"run", "freeing"} => AllRequests')
  BY <1>o, <1>s DEF OneEach, AllRequests
<1>p. /\ doing \in {"destroy", "unlink"} \X Mails => doing \in Short
      /\ doing # None => doing \in Short \cup Long
      /\ doing \in Long => doing \notin {"destroy", "unlink"} \X Mails
  <2>1. doing \in {"destroy", "unlink"} \X Mails => doing \in Short
    BY DEF Short
  <2> QED
    BY <1>t, <2>1, Longs DEF TypeInv
<1>f. fetch = "freeing" => doing = None \/ doing \in {"destroy", "unlink"} \X Mails
  BY <1>t DEF LoopInv
<1>0. CASE UNCHANGED vars
  BY <1>0, <1>t DEF vars, LoopInv
<1>1. ASSUME NEW m \in Mails, MailOpen(m) PROVE LoopInv'
  BY <1>1, <1>t, <1>u, <1>o, <1>s, LoopGoesOn DEF MailOpen, Running
<1>2. CASE Register
  BY <1>2, <1>t, <1>u, <1>o, <1>s, LoopGoesOn DEF Register
<1>a. ASSUME NEW m \in Mails, NEW k \in Kind, Running, at[m] \notin Kind, at[m] \notin {"none", "done"},
             Asked(m, k)
      PROVE  OneEach' /\ AllRequests'
  <2> DEFINE r == [mail |-> m, kind |-> k, file |-> file[m]]
  <2>1. r \in Request /\ r.mail = m
    BY <1>a, HasFile DEF Request
  <2>2. UpOf(m) = {}
    BY <1>a, <1>t, NotAsked DEF MailOk
  <2>3. up' = Append(up, r)
    BY <1>a DEF Asked
  <2> HIDE DEF r
  <2> QED
    BY <1>a, <1>t, <1>o, <2>1, <2>2, <2>3, AskedOne DEF Running
<1>3. ASSUME NEW m \in Mails, MatchMail(m) PROVE LoopInv'
  <2>1. OneEach' /\ AllRequests'
    <3>1. CASE Asked(m, "command")
      BY <1>3, <1>a, <3>1 DEF MatchMail, Kind
    <3>2. CASE up' = up
      BY <1>3, <1>s, <3>2 DEF MatchMail, Running
    <3> QED
      BY <1>3, <3>1, <3>2 DEF MatchMail
  <2> QED
    BY <1>3, <1>t, <1>u, <1>o, <2>1, LoopGoesOn DEF MatchMail, Running
<1>4. ASSUME NEW m \in Mails, MatchBlocked(m) PROVE LoopInv'
  BY <1>4, <1>t, <1>u, <1>o, <1>s, LoopGoesOn DEF MatchBlocked, Running
<1>5. ASSUME NEW m \in Mails, DeliverMail(m) PROVE LoopInv'
  <2>1. OneEach' /\ AllRequests'
    <3>1. ASSUME NEW k \in {"action", "rewrite"}, Asked(m, k) PROVE OneEach' /\ AllRequests'
      BY <1>5, <1>a, <3>1 DEF DeliverMail, Kind
    <3>2. CASE up' = up
      BY <1>5, <1>s, <3>2 DEF DeliverMail, Running
    <3> QED
      BY <1>5, <3>1, <3>2 DEF DeliverMail
  <2> QED
    BY <1>5, <1>t, <1>u, <1>o, <2>1, LoopGoesOn DEF DeliverMail, Running
<1>6. ASSUME NEW m \in Mails, ResizeFails(m) PROVE LoopInv'
  BY <1>6, <1>t, <1>u, <1>o, <1>s, LoopGoesOn DEF ResizeFails, Running
<1>7. ASSUME NEW d \in down, TakeAnswer(d) PROVE LoopInv'
  <2>1. /\ fetch = "run" /\ doing = None /\ up' = up /\ down' \subseteq down
        /\ UNCHANGED parentVars
        /\ \/ fetch' = "freeing" /\ doing' = None
           \/ fetch' = "run"
    BY <1>7 DEF TakeAnswer, Running
  <2> QED
    BY <1>t, <1>u, <1>o, <1>s, <2>1, LoopGoesOn
<1>8. CASE Deregister
  <2>1. /\ UNCHANGED <<parentVars, msgVars>> /\ fetch \in {"run", "freeing"} /\ doing # None
    BY <1>8 DEF Deregister, Part
  <2>2. CASE fetch' = fetch
    <3>1. fetch = "freeing" => doing' = None \/ doing' \in {"destroy", "unlink"} \X Mails
      <4> SUFFICES ASSUME fetch = "freeing" PROVE doing' = None \/ doing' \in {"destroy", "unlink"} \X Mails
        OBVIOUS
      <4>1. doing \in Short /\ doing \in {"destroy", "unlink"} \X Mails
        BY <1>f, <1>p, <2>1
      <4>2. doing[2] \in Mails /\ [doing EXCEPT ![1] = "unlink"] = <<"unlink", doing[2]>>
            /\ doing[1] # "receive"
        BY <4>1, Shorts
      <4>3. Part = "destroy"
        BY <1>8, <2>1, <4>2 DEF Deregister, Part
      <4>4. doing' \in {None, [doing EXCEPT ![1] = "unlink"], doing}
        BY <1>8, <4>3 DEF Deregister, Dies
      <4> QED
        BY <4>1, <4>2, <4>4
    <3> QED
      BY <1>t, <1>u, <1>o, <1>s, <2>1, <2>2, <3>1, LoopGoesOn
  <2>3. CASE fetch' # fetch
    <3>1. fetch' = "fatal" /\ doing[2] \in mapped /\ file[doing[2]] \notin listed["fetch"]
      BY <1>8, <2>3 DEF Deregister, Dies
    <3>2. doing[2] \in Mails
      BY <1>p, <2>1, Shorts, Longs
    <3>3. file[doing[2]] # None /\ file[doing[2]] \in Of(doing[2])
      BY <1>t, <3>1, <3>2 DEF MailOk, CallOk, NamesOk
    <3>4. Part # "unlink"
      BY <1>8 DEF Deregister
    <3>5. setup.full
      BY <1>t, <2>1, <3>1, <3>2, <3>3, <3>4 DEF MailOk, ListOk, Part
    <3> QED
      BY <1>t, <1>u, <1>o, <2>1, <3>1, <3>5 DEF LoopInv, Ended
  <2> QED
    BY <2>2, <2>3
<1>9. CASE Unlink
  <2>1. /\ UNCHANGED <<parentVars, msgVars>> /\ fetch \in {"run", "freeing"} /\ doing # None
        /\ doing[1] = "unlink"
    BY <1>9 DEF Unlink, Part
  <2>2. doing[2] \in Mails
    BY <1>p, <2>1, Shorts, Longs
  <2>3. file[doing[2]] \in files
    <3>1. doing[2] \in mapped
      BY <1>t, <2>1, <2>2 DEF MailOk, CallOk, About
    <3> QED
      BY <1>t, <2>1, <2>2, <3>1 DEF MailOk, CallOk, FileOk
  <2>4. fetch' = fetch /\ (Len(doing) = 2 => doing' = None)
    BY <1>9, <2>3 DEF Unlink
  <2>5. fetch = "freeing" => Len(doing) = 2
    BY <1>f, <1>p, <2>1, Shorts
  <2> QED
    BY <1>t, <1>u, <1>o, <1>s, <2>1, <2>4, <2>5, LoopGoesOn
<1>10. CASE Reopen
  <2>1. /\ UNCHANGED <<parentVars, msgVars>> /\ fetch = "run"
        /\ \/ fetch' = "freeing" /\ doing' = None
           \/ fetch' = "run"
    BY <1>10 DEF Reopen
  <2> QED
    BY <1>t, <1>u, <1>o, <1>s, <2>1, LoopGoesOn
<1>11. CASE FetchEnds
  BY <1>11, <1>t, <1>u, <1>o, <1>s, LoopGoesOn DEF FetchEnds, Running
<1>12. CASE FetchFree
  <2>1. CASE UNCHANGED <<fetch, up>>
    <3>1. doing' \in {"destroy", "unlink"} \X Mails
      BY <1>12, <1>t, <2>1 DEF FetchFree, TypeInv, TypeOK
    <3> QED
      BY <1>12, <1>t, <1>u, <1>o, <1>s, <2>1, <3>1, LoopGoesOn DEF FetchFree
  <2>2. CASE fetch' = "waiting" /\ UNCHANGED doing /\ up' = Append(up, [kind |-> "exit"])
    <3>1. [kind |-> "exit"] \in Exit
      BY DEF Exit
    <3>2. [kind |-> "exit"] \notin Request
      BY <3>1, Sent
    <3>3. /\ DOMAIN up' = DOMAIN up \cup {Len(up) + 1}
          /\ \A i \in DOMAIN up : up'[i] = up[i]
          /\ up'[Len(up) + 1] = [kind |-> "exit"]
      BY <1>t, <2>2, <3>1, Appended DEF TypeInv
    <3>4. OneEach'
      BY <1>o, <3>2, <3>3 DEF OneEach
    <3>5. doing' = None /\ ~reaped' /\ fatal' = fatal
      BY <1>12, <1>o, <2>2 DEF FetchFree
    <3> QED
      BY <1>t, <1>u, <2>2, <3>4, <3>5 DEF LoopInv, OneEach
  <2> QED
    BY <1>12, <2>1, <2>2 DEF FetchFree
<1>13. CASE ChildExit
  <2>1. fetch = "told" /\ fetch' \in {"exited", "fatal"} /\ doing' = doing
        /\ UNCHANGED <<parentVars, msgVars>>
    BY <1>13 DEF ChildExit
  <2>2. ~setup.full => fetch' = "exited"
    <3> SUFFICES ASSUME ~setup.full PROVE listed["fetch"] = {}
      BY <1>13 DEF ChildExit
    <3>1. listed["fetch"] \subseteq File
      BY <1>t DEF TypeInv, TypeOK
    <3>2. \A m \in Mails : \A f \in Of(m) : f \notin listed["fetch"]
      BY <1>t, <2>1 DEF MailOk, ListOk
    <3> QED
      BY <3>1, <3>2, Names
  <2> QED
    BY <1>t, <1>u, <2>1, <2>2 DEF LoopInv, Ended
<1>14. CASE Term
  <2>1. fetch' = "killed" /\ fetch \notin Ended /\ UNCHANGED <<parentVars, msgVars>>
    BY <1>14 DEF Term
  <2> QED
    BY <1>t, <1>u, <2>1 DEF LoopInv, Ended
<1>15. CASE ParentFetch
  <2>1. up # <<>> /\ up' = Tail(up) /\ ~reaped /\ UNCHANGED <<fetchVars, reaped, fatal>>
    BY <1>15 DEF ParentFetch
  <2>2. OneEach' /\ (AllRequests => AllRequests')
    BY <1>t, <1>o, <2>1, TakenOne
  <2> QED
    BY <1>t, <1>u, <1>o, <2>1, <2>2 DEF LoopInv, OneEach, AllRequests
<1>16. CASE ParentExit
  <2>1. /\ up # <<>> /\ up' = Tail(up) /\ ~reaped /\ UNCHANGED <<doing, reaped, fatal>>
        /\ fetch' = IF fetch = "waiting" THEN "told" ELSE fetch
    BY <1>16 DEF ParentExit
  <2>2. OneEach' /\ (AllRequests => AllRequests')
    BY <1>t, <1>o, <2>1, TakenOne
  <2> QED
    BY <1>t, <1>u, <1>o, <2>1, <2>2 DEF LoopInv, OneEach, AllRequests
<1>17. ASSUME NEW m \in Mails, JobDone(m) PROVE LoopInv'
  BY <1>17, <1>t, <1>u DEF JobDone, LoopInv
<1>18. ASSUME NEW m \in Mails, JobDies(m) PROVE LoopInv'
  BY <1>18, <1>t, <1>u DEF JobDies, LoopInv
<1>19. ASSUME NEW m \in Mails, ParentDeliver(m) PROVE LoopInv'
  <2>1. UNCHANGED <<fetch, doing, up, reaped>> /\ (reaped => down' = down \/ fatal')
    BY <1>19 DEF ParentDeliver, Answer
  <2>2. ~setup.full => fatal' = fatal
    <3> SUFFICES ASSUME ~setup.full PROVE fatal' = fatal
      OBVIOUS
    <3>1. ListOk(m) /\ Busy(m)
      BY <1>19, <1>t DEF ParentDeliver, Busy, MailOk
    <3>2. {held[m], new[m]} \ {None} \subseteq listed["parent"]
      BY <3>1 DEF ListOk
    <3>3. Destroys(m) \subseteq files \cup {None}
      BY <3>1 DEF ListOk, Destroys
    <3> QED
      BY <1>19, <3>2, <3>3 DEF ParentDeliver
  <2>3. reaped => down' = {}
    BY <1>19, <1>t DEF ParentDeliver, Answer, LoopInv
  <2> QED
    BY <1>t, <1>u, <2>1, <2>2, <2>3 DEF LoopInv
<1>20. CASE WaitChildren
  <2>1. up' = <<>> /\ down' = {} /\ reaped' /\ fetch \in Ended
        /\ UNCHANGED <<fetch, doing, fatal>>
    BY <1>20 DEF WaitChildren
  <2>2. DOMAIN up' = {}
    <3>1. <<>> \in Seq(Request \cup Exit) /\ Len(<<>>) = 0
      BY EmptySeq
    <3> QED
      BY <2>1, <3>1, LenProperties
  <2> QED
    BY <1>t, <1>u, <2>1, <2>2 DEF LoopInv
<1> QED
  BY <1>0, <1>1, <1>2, <1>3, <1>4, <1>5, <1>6, <1>7, <1>8, <1>9, <1>10, <1>11, <1>12,
     <1>13, <1>14, <1>15, <1>16, <1>17, <1>18, <1>19, <1>20 DEF Next

-----------------------------------------------------------------------------
(* What a step leaves alone.                                               *)

\* A step is not about this mail: nothing of it changes.
Same(m) ==
  /\ at'[m] = at[m] /\ file'[m] = file[m] /\ (m \in mapped' <=> m \in mapped)
  /\ job'[m] = job[m] /\ held'[m] = held[m] /\ new'[m] = new[m] /\ kind'[m] = kind[m]
  /\ UpOf(m)' = UpOf(m) /\ DownOf(m)' = DownOf(m)
  /\ \A f \in Of(m) : /\ f \in files' <=> f \in files
                      /\ f \in folded' <=> f \in folded
                      /\ f \in listed'["fetch"] <=> f \in listed["fetch"]
                      /\ f \in listed'["parent"] <=> f \in listed["parent"]
  /\ About(m)' <=> About(m)
  /\ About(m) => doing' = doing

LEMMA Frame ==
  ASSUME NEW m \in Mails, MailOk(m), Same(m), setup' = setup,
         fetch' = "run" => fetch = "run",
         fetch' = "freeing" => fetch \in {"run", "freeing"},
         fetch' = "killed" => fetch = "killed",
         fetch' \in {"waiting", "told", "exited"} =>
           fetch \in {"waiting", "told", "exited"} \/ m \notin mapped
  PROVE  MailOk(m)'
<1>n. NamesOk(m) /\ CallOk(m) /\ TalkOk(m) /\ FileOk(m) /\ FoldOk(m) /\ ListOk(m) /\ LeftOk(m)
  BY DEF MailOk
<1>0. Of(m)' = Of(m)
  BY DEF Of
<1>1. NamesOk(m)'
  BY <1>n, <1>0 DEF NamesOk, Same
<1>2. CallOk(m)'
  BY <1>n DEF CallOk, Same
<1>3. /\ Busy(m)' <=> Busy(m)
      /\ Served(m)' => Served(m)
  BY DEF Served, Busy, Same
<1>4. TalkOk(m)'
  BY <1>n, <1>3 DEF TalkOk, Same
<1>5. FileOk(m)'
  <2>1. \A d \in DownOf(m) : d.file \in Of(m) \cup {None}
    BY <1>n DEF NamesOk
  <2>2. \A d \in DownOf(m) : fetch = "run" /\ ~d.error /\ at[m] = "rewrite" =>
                               d.file \in Of(m) /\ d.file \in files
    <3> SUFFICES ASSUME NEW d \in DownOf(m), fetch = "run", ~d.error, at[m] = "rewrite"
                 PROVE  d.file \in Of(m) /\ d.file \in files
      OBVIOUS
    <3>1. Served(m)
      BY DEF Served
    <3>2. d.file = <<m, held[m][2] + 1>>
      BY <1>n, <3>1 DEF TalkOk
    <3> QED
      BY <1>n, <2>1, <3>2 DEF FileOk, None
  <2>3. file[m] \in Of(m) \cup {None}
    BY <1>n DEF NamesOk
  <2>4. About(m) /\ doing \in Long => doing[3] \in Of(m)
    BY <1>n DEF NamesOk
  <2> QED
    BY <1>n, <2>2, <2>3, <2>4 DEF FileOk, Same
<1>6. FoldOk(m)'
  <2>1. /\ \A r \in UpOf(m) : r.file \in Of(m)
        /\ Busy(m) => held[m] \in Of(m)
    BY <1>n DEF NamesOk, TalkOk, Served
  <2> QED
    BY <1>n, <1>3, <2>1 DEF FoldOk, Same
<1>7. ListOk(m)'
  <2>1. {held[m], new[m]} \ {None} \subseteq Of(m)
    BY <1>n DEF NamesOk
  <2>2. Busy(m) /\ kind[m] = "rewrite" => new[m] # None
    BY <1>n DEF TalkOk, Served, None
  <2>3. Busy(m)' => {held[m], new[m]}' \ {None} \subseteq listed'["parent"]
    BY <1>n, <1>3, <2>1 DEF ListOk, Same
  <2>4. ~setup.full => (Busy(m)' /\ kind'[m] = "rewrite" => new'[m] \in files')
    BY <1>n, <1>3, <2>1, <2>2 DEF ListOk, Same
  <2>5. ~setup.full =>
          /\ \A f \in Of(m) : f \in listed'["fetch"] <=>
               /\ f = file'[m] /\ m \in mapped'
               /\ ~(About(m)' /\ doing'[1] = "unlink")
          /\ file'[m] # None => m \in mapped' \/ (About(m)' /\ doing'[1] = "register")
          /\ fetch' \in {"waiting", "told", "exited"} => m \notin mapped'
    BY <1>n DEF ListOk, Same
  <2> QED
    BY <1>0, <2>3, <2>4, <2>5 DEF ListOk
<1>8. LeftOk(m)'
  <2>1. \A f : f \in files' \cap Of(m) <=> f \in files \cap Of(m)
    BY DEF Same
  <2>2. ~setup.full => \A f \in files \cap Of(m) :
          \/ f = file'[m] /\ (fetch' = "killed" => About(m)')
          \/ /\ at'[m] = "rewrite" /\ f = new'[m] /\ UpOf(m)' = {}
             /\ ~(fetch' = "run" /\ \E d \in DownOf(m)' : d.error)
          \/ About(m)' /\ doing' \in Long /\ f = doing'[3]
    BY <1>n DEF LeftOk, Same
  <2> QED
    BY <1>0, <2>1, <2>2 DEF LeftOk, Long
<1> QED
  BY <1>1, <1>2, <1>4, <1>5, <1>6, <1>7, <1>8 DEF MailOk

\* A step about one mail, of the fetch child or of the parent.
LEMMA OneMail ==
  ASSUME IInv, NEW m \in Mails, setup' = setup,
         \A n \in Mails \ {m} : Same(n),
         fetch' = fetch \/ fetch' = "fatal" \/ (fetch = "run" /\ fetch' = "freeing"),
         MailOk(m)'
  PROVE  \A n \in Mails : MailOk(n)'
<1> SUFFICES ASSUME NEW n \in Mails \ {m} PROVE MailOk(n)'
  OBVIOUS
<1>1. MailOk(n) /\ Same(n)
  BY DEF IInv
<1> QED
  BY <1>1, Frame

\* A step about no mail at all.
LEMMA NoMail ==
  ASSUME IInv, setup' = setup, UNCHANGED <<at, file, mapped, job, held, new, kind>>,
         UNCHANGED <<diskVars, down, doing>>,
         \A n \in Mails : UpOf(n)' = UpOf(n),
         fetch' = "run" => fetch = "run",
         fetch' = "freeing" => fetch \in {"run", "freeing"},
         fetch' = "killed" => fetch = "killed",
         fetch' \in {"waiting", "told", "exited"} =>
           fetch \in {"waiting", "told", "exited"} \/ \A n \in Mails : n \notin mapped
  PROVE  \A n \in Mails : MailOk(n)'
<1> SUFFICES ASSUME NEW n \in Mails PROVE MailOk(n)'
  OBVIOUS
<1>1. MailOk(n)
  BY DEF IInv
<1>2. Same(n)
  BY DEF Same, diskVars, DownOf, About
<1> QED
  BY <1>1, <1>2, Frame

\* The fetch child works at one mail: what it does not change.
LEMMA OfFetch ==
  ASSUME IInv, NEW m \in Mails, NEW n \in Mails \ {m}, UNCHANGED parentVars,
         at'[n] = at[n], file'[n] = file[n], n \in mapped' <=> n \in mapped,
         UpOf(n)' = UpOf(n), DownOf(n)' = DownOf(n),
         \A f \in Of(n) : /\ f \in files' <=> f \in files
                          /\ f \in folded' <=> f \in folded
                          /\ f \in listed'["fetch"] <=> f \in listed["fetch"]
                          /\ f \in listed'["parent"] <=> f \in listed["parent"],
         doing' = doing \/ (~About(n) /\ ~About(n)')
  PROVE  Same(n)
BY DEF Same, parentVars, About

LEMMA MailInit == Init => \A m \in Mails : MailOk(m)
<1> SUFFICES ASSUME Init, NEW m \in Mails PROVE MailOk(m)
  OBVIOUS
<1>1. UpOf(m) = {} /\ DownOf(m) = {}
  BY LenProperties, EmptySeq DEF Init, UpOf, DownOf
<1>2. /\ ~About(m) /\ ~Busy(m) /\ at[m] = "none" /\ file[m] = None /\ m \notin mapped
      /\ held[m] = None /\ new[m] = None /\ fetch = "run" /\ files = {}
      /\ listed["fetch"] = {}
  BY DEF Init, About, Busy
<1>3. ~Served(m)
  BY <1>1, <1>2 DEF Served
<1>4. NamesOk(m) /\ CallOk(m)
  BY <1>1, <1>2 DEF NamesOk, CallOk
<1>5. TalkOk(m) /\ FileOk(m) /\ FoldOk(m)
  BY <1>1, <1>2, <1>3 DEF TalkOk, FileOk, FoldOk
<1>6. ListOk(m)
  BY <1>2, Names DEF ListOk
<1>7. LeftOk(m)
  BY <1>2 DEF LeftOk
<1> QED
  BY <1>4, <1>5, <1>6, <1>7 DEF MailOk

-----------------------------------------------------------------------------
(* The steps that are about no mail.                                       *)

LEMMA Frees ==
  ASSUME IInv, setup' = setup, FetchEnds \/ ChildExit \/ ParentExit
  PROVE  \A n \in Mails : MailOk(n)'
<1> USE DEF fetchVars, diskVars, parentVars, msgVars
<1>t. TypeInv /\ LoopInv
  BY DEF IInv
<1>1. CASE FetchEnds
  BY <1>1, NoMail DEF FetchEnds, Running, UpOf
<1>2. CASE ChildExit
  BY <1>2, NoMail DEF ChildExit, UpOf
<1>3. CASE ParentExit
  <2>1. \A n \in Mails : UpOf(n)' = UpOf(n)
    <3> SUFFICES ASSUME NEW n \in Mails PROVE UpOf(n)' = UpOf(n)
      OBVIOUS
    <3>1. Head(up) \notin Request
      BY <1>3, <1>t, Taken, Sent DEF ParentExit, TypeInv
    <3> QED
      BY <1>3, <1>t, <3>1, UpLess DEF ParentExit
  <2> QED
    BY <1>3, <2>1, NoMail DEF ParentExit
<1> QED
  BY <1>1, <1>2, <1>3

\* The fetch child has nothing left to free.
LEMMA Freed ==
  ASSUME IInv, setup' = setup, FetchFree, fetch' = "waiting"
  PROVE  \A n \in Mails : MailOk(n)'
<1>1. /\ fetch = "freeing" /\ ~ \E m \in mapped : file[m] # None
      /\ doing' = doing /\ up' = Append(up, [kind |-> "exit"])
  BY DEF FetchFree
<1>2. \A n \in Mails : n \notin mapped
  BY <1>1 DEF IInv, MailOk, CallOk
<1>3. \A n \in Mails : UpOf(n)' = UpOf(n)
  <2>1. [kind |-> "exit"] \in Exit
    BY DEF Exit
  <2>2. [kind |-> "exit"] \notin Request
    BY <2>1, Sent
  <2> QED
    BY <1>1, <2>1, <2>2, UpMore DEF IInv
<1>4. UNCHANGED <<at, file, mapped, diskVars, parentVars, down>>
  BY DEF FetchFree
<1> QED
  BY <1>1, <1>2, <1>3, <1>4, NoMail DEF parentVars

-----------------------------------------------------------------------------
(* The steps of the fetch child.                                           *)

LEMMA Opened ==
  ASSUME IInv, setup' = setup, NEW m \in Mails, MailOpen(m)
  PROVE  \A n \in Mails : MailOk(n)'
<1> DEFINE g == <<m, 0>>
<1>t. TypeOK /\ MailOk(m)
  BY DEF IInv, TypeInv
<1>1. g \in Of(m)
  BY ShmAssumption DEF Of
<1>2. /\ fetch = "run" /\ fetch' = "run" /\ at[m] = "none" /\ at'[m] = "match" /\ file'[m] = g
      /\ doing = None /\ doing' = <<"register", m>> /\ mapped' = mapped /\ up' = up /\ down' = down
      /\ files' = files \cup {g} /\ folded' = folded \cup {g} /\ listed' = listed
      /\ UNCHANGED parentVars
  BY <1>t DEF MailOpen, Running, TypeOK, msgVars
<1>3. \A n \in Mails \ {m} : Same(n)
  <2> SUFFICES ASSUME NEW n \in Mails \ {m} PROVE Same(n)
    OBVIOUS
  <2>1. at'[n] = at[n] /\ file'[n] = file[n]
    BY <1>t DEF MailOpen, TypeOK
  <2>2. UpOf(n)' = UpOf(n) /\ DownOf(n)' = DownOf(n)
    BY <1>2 DEF UpOf, DownOf
  <2>3. g \notin Of(n)
    BY <1>1, Names
  <2>4. ~About(n) /\ ~About(n)'
    BY <1>2 DEF About
  <2> HIDE DEF g
  <2> QED
    BY <1>2, <2>1, <2>2, <2>3, <2>4, OfFetch
<1>4. /\ file[m] = None /\ m \notin mapped /\ UpOf(m) = {} /\ DownOf(m) = {}
      /\ ~Busy(m) /\ ~Served(m)
  BY <1>t, <1>2, NotAsked DEF MailOk, CallOk, TalkOk, Served, Kind
<1>5. /\ UpOf(m)' = {} /\ DownOf(m)' = {} /\ ~Busy(m)' /\ ~Served(m)'
  BY <1>2, <1>4 DEF UpOf, DownOf, Busy, Served, parentVars
<1>6. About(m)' /\ doing' \in Short /\ doing' \notin Long /\ doing'[1] = "register" /\ ~About(m)
  BY <1>2, Shorts DEF About, Short
<1>7. MailOk(m)'
  <2>0. Of(m)' = Of(m)
    BY DEF Of
  <2> HIDE DEF g
  <2>1. NamesOk(m)'
    BY <1>t, <1>1, <1>2, <1>5, <1>6, <2>0 DEF MailOk, NamesOk, parentVars
  <2>2. CallOk(m)'
    BY <1>1, <1>2, <1>4, <1>6, Names DEF CallOk
  <2>3. TalkOk(m)' /\ FileOk(m)' /\ FoldOk(m)'
    BY <1>2, <1>5, <1>6 DEF TalkOk, FileOk, FoldOk
  <2>4. ListOk(m)'
    BY <1>t, <1>2, <1>4, <1>5, <1>6, <2>0 DEF MailOk, ListOk
  <2>5. LeftOk(m)'
    BY <1>t, <1>1, <1>2, <1>4, <1>6, <2>0, Names DEF MailOk, LeftOk
  <2> QED
    BY <2>1, <2>2, <2>3, <2>4, <2>5 DEF MailOk
<1> QED
  BY <1>2, <1>3, <1>7, OneMail

\* The file of the mail is put on the list, and is mapped.
LEMMA Registers ==
  ASSUME IInv, setup' = setup, Register
  PROVE  \A n \in Mails : MailOk(n)'
<1>t. TypeOK /\ TypeInv
  BY DEF IInv, TypeInv
<1>1. doing \in Short /\ doing[2] \in Mails
  BY <1>t, Shorts, Longs DEF Register, TypeInv
<1>m. PICK m \in Mails : m = doing[2]
  BY <1>1
<1>2. MailOk(m)
  BY DEF IInv
<1>3. /\ fetch = "run" /\ fetch' = "run" /\ doing # None /\ doing[1] = "register" /\ doing' = None
      /\ at' = at /\ file' = file /\ files' = files /\ folded' = folded /\ up' = up /\ down' = down
      /\ mapped' = mapped \cup {m} /\ listed' = [listed EXCEPT !["fetch"] = @ \cup {file[m]}]
      /\ UNCHANGED parentVars
  BY <1>m DEF Register, Registered, msgVars
<1>4. About(m) /\ ~About(m)'
  BY <1>3, <1>m DEF About
<1>5. file[m] \in Of(m) /\ file[m] # None /\ at[m] \in {"match", "deliver"} /\ m \notin mapped
  BY <1>2, <1>3, <1>4 DEF MailOk, CallOk, NamesOk
<1>6. \A f : /\ f \in listed'["fetch"] <=> f \in listed["fetch"] \/ f = file[m]
             /\ f \in listed'["parent"] <=> f \in listed["parent"]
  BY <1>t, <1>3 DEF TypeOK
<1>7. \A n \in Mails : UpOf(n)' = UpOf(n) /\ DownOf(n)' = DownOf(n)
  BY <1>3 DEF UpOf, DownOf
<1>8. \A n \in Mails \ {m} : Same(n)
  <2> SUFFICES ASSUME NEW n \in Mails \ {m} PROVE Same(n)
    OBVIOUS
  <2>3. file[m] \notin Of(n)
    BY <1>5, Names
  <2>4. ~About(n) /\ ~About(n)'
    BY <1>3, <1>m DEF About
  <2> QED
    BY <1>1, <1>3, <1>6, <1>7, <2>3, <2>4, OfFetch
<1>9. MailOk(m)'
  <2>0. Of(m)' = Of(m)
    BY <1>3 DEF Of
  <2>1. Busy(m)' = Busy(m) /\ Served(m)' = Served(m)
    BY <1>3, <1>7 DEF Busy, Served, parentVars
  <2>2. /\ NamesOk(m)' /\ CallOk(m)'
    BY <1>1, <1>2, <1>3, <1>4, <1>5, <1>7, <2>0 DEF MailOk, NamesOk, CallOk, parentVars
  <2>3. TalkOk(m)'
    BY <1>2, <1>3, <1>7, <2>1 DEF MailOk, TalkOk, parentVars
  <2>4. FileOk(m)' /\ FoldOk(m)'
    BY <1>2, <1>3, <1>4, <1>7, <2>1 DEF MailOk, FileOk, FoldOk, parentVars
  <2>5. ListOk(m)'
    BY <1>2, <1>3, <1>4, <1>5, <1>6, <2>0, <2>1 DEF MailOk, ListOk, parentVars
  <2>6. LeftOk(m)'
    BY <1>1, <1>2, <1>3, <1>4, <1>7, <2>0, Shorts DEF MailOk, LeftOk, parentVars
  <2> QED
    BY <2>2, <2>3, <2>4, <2>5, <2>6 DEF MailOk
<1> QED
  BY <1>3, <1>8, <1>9, OneMail

\* Header lines of one mail are folded or unfolded.
LEMMA Wraps ==
  ASSUME IInv, NEW m \in Mails, NEW ch \in {"\n", " "}, Running, at[m] \notin {"none", "done"},
         SetWrapped(m, ch)
  PROVE  /\ \A f : f # file[m] => (f \in folded' <=> f \in folded)
         /\ \A n \in Mails \ {m} : \A f \in Of(n) : f \in folded' <=> f \in folded
         /\ ch = "\n" => file[m] \in folded'
<1>1. file[m] \in Of(m)
  BY HasFile
<1>2. \A n \in Mails \ {m} : \A f \in Of(n) : f # file[m]
  BY <1>1, Names
<1> QED
  BY <1>2 DEF SetWrapped

\* A mail is matched or delivered: it asks the parent for something, goes on or is
\* done with.
LEMMA Works ==
  ASSUME IInv, setup' = setup, NEW m \in Mails, NEW ch \in {"\n", " "},
         Running, at[m] \in {"match", "deliver"}, SetWrapped(m, ch),
         UNCHANGED <<fetch, file, mapped, files, listed, parentVars, down>>,
         \/ /\ doing' = doing
            /\ \E k \in Kind : /\ Asked(m, k)
                               /\ k # "command" => ch = "\n"
                               /\ k = "rewrite" => file[m][2] < MaxRewrites
         \/ /\ up' = up /\ doing' = doing
            /\ at' = [at EXCEPT ![m] = "match"] \/ at' = [at EXCEPT ![m] = "deliver"]
         \/ up' = up /\ at' = [at EXCEPT ![m] = "done"] /\ doing' = <<"destroy", m>>
  PROVE  \A n \in Mails : MailOk(n)'
<1>t. TypeOK /\ TypeInv /\ MailOk(m)
  BY DEF IInv, TypeInv
<1>1. /\ fetch = "run" /\ doing = None /\ ~About(m)
      /\ file[m] \in Of(m) /\ file[m] # None /\ file[m] \in File
  BY HasFile DEF Running
<1>2. UpOf(m) = {} /\ DownOf(m) = {} /\ ~Busy(m) /\ ~Served(m)
  BY <1>t, NotAsked DEF MailOk, Kind, Served
<1>3. /\ ~Busy(m)' /\ DownOf(m)' = {} /\ ~Served(m)' /\ Of(m)' = Of(m)
  BY <1>2 DEF Busy, DownOf, Served, parentVars, Of
<1>4. /\ \A n \in Mails \ {m} : UpOf(n)' = UpOf(n) /\ at'[n] = at[n]
      /\ \/ UpOf(m)' = {} /\ at'[m] \in {"match", "deliver"} /\ doing' = doing
         \/ UpOf(m)' = {} /\ at'[m] = "done" /\ doing' = <<"destroy", m>>
         \/ /\ doing' = doing
            /\ \E r \in Request : /\ UpOf(m)' = {r} /\ r.mail = m /\ r.file = file[m]
                                  /\ r.kind = at'[m]
                                  /\ r.kind # "command" => ch = "\n"
                                  /\ r.kind = "rewrite" => r.file[2] < MaxRewrites
  <2>1. up' = up => \A n \in Mails : UpOf(n)' = UpOf(n)
    BY DEF UpOf
  <2>2. ASSUME NEW k \in Kind, Asked(m, k), doing' = doing, k # "command" => ch = "\n",
               k = "rewrite" => file[m][2] < MaxRewrites
        PROVE  <1>4!1 /\ <1>4!2!3
    <3> DEFINE r == [mail |-> m, kind |-> k, file |-> file[m]]
    <3>1. r \in Request /\ r.mail = m /\ r.kind = k /\ r.file = file[m]
      BY <1>1 DEF Request
    <3>2. up' = Append(up, r) /\ at' = [at EXCEPT ![m] = k]
      BY <2>2 DEF Asked
    <3>3. at'[m] = k /\ \A n \in Mails \ {m} : at'[n] = at[n]
      BY <1>t, <3>2 DEF TypeOK
    <3> HIDE DEF r
    <3>4. \A n \in Mails : UpOf(n)' = UpOf(n) \cup (IF r \in Request /\ r.mail = n THEN {r} ELSE {})
      BY <1>t, <3>1, <3>2, UpMore
    <3>5. UpOf(m)' = {r} /\ \A n \in Mails \ {m} : UpOf(n)' = UpOf(n)
      BY <1>2, <3>1, <3>4
    <3> QED
      BY <2>2, <3>1, <3>3, <3>5
  <2> QED
    BY <1>t, <1>2, <2>1, <2>2 DEF TypeOK
<1>5. /\ \A n \in Mails \ {m} : \A f \in Of(n) : f \in folded' <=> f \in folded
      /\ ch = "\n" => file[m] \in folded'
  BY Wraps
<1>6. \A n \in Mails \ {m} : Same(n)
  <2> SUFFICES ASSUME NEW n \in Mails \ {m} PROVE Same(n)
    OBVIOUS
  <2>1. doing' = doing \/ (~About(n) /\ ~About(n)')
    <3>1. doing' \in {doing, <<"destroy", m>>}
      BY <1>4
    <3>2. <<"destroy", m>>[2] = m
      OBVIOUS
    <3> QED
      BY <1>1, <3>1, <3>2 DEF About
  <2>2. DownOf(n)' = DownOf(n)
    BY DEF DownOf
  <2> QED
    BY <1>4, <1>5, <2>1, <2>2, OfFetch
<1>7. /\ About(m)' => doing' \in Short /\ doing' \notin Long /\ doing'[1] = "destroy" /\ at'[m] = "done"
      /\ at'[m] # "none" /\ fetch' = "run"
  <2>1. <<"destroy", m>> \in Short
    BY DEF Short
  <2> QED
    BY <1>1, <1>4, <2>1, Shorts DEF About, Request, Kind
<1>8. MailOk(m)'
  <2>1. NamesOk(m)'
    BY <1>t, <1>1, <1>3, <1>4, <1>7 DEF MailOk, NamesOk, parentVars
  <2>2. CallOk(m)'
    BY <1>t, <1>1, <1>7 DEF MailOk, CallOk
  <2>3. TalkOk(m)'
    BY <1>3, <1>4 DEF TalkOk
  <2>4. FileOk(m)'
    BY <1>t, <1>1, <1>3, <1>7 DEF MailOk, FileOk
  <2>5. FoldOk(m)'
    BY <1>3, <1>4, <1>5 DEF FoldOk
  <2>6. ListOk(m)'
    BY <1>t, <1>1, <1>3, <1>7 DEF MailOk, ListOk
  <2>7. LeftOk(m)'
    BY <1>t, <1>1, <1>3, <1>7 DEF MailOk, LeftOk
  <2> QED
    BY <2>1, <2>2, <2>3, <2>4, <2>5, <2>6, <2>7 DEF MailOk
<1> QED
  BY <1>1, <1>6, <1>8, OneMail

\* mail_match, mail_deliver, and a mail that cannot grow.
LEMMA Matches ==
  ASSUME IInv, setup' = setup, NEW m \in Mails, MatchMail(m) \/ DeliverMail(m)
  PROVE  \A n \in Mails : MailOk(n)'
<1>1. CASE MatchMail(m)
  <2>1. /\ Running /\ at[m] = "match"
        /\ UNCHANGED <<fetch, file, mapped, files, listed, parentVars, down>>
    BY <1>1 DEF MatchMail
  <2>2. CASE SetWrapped(m, "\n") /\ Asked(m, "command") /\ UNCHANGED doing
    BY <2>1, <2>2, Works DEF Kind
  <2>3. CASE /\ SetWrapped(m, " ") /\ UNCHANGED up
             /\ \/ at' = [at EXCEPT ![m] = "deliver"] /\ UNCHANGED doing
                \/ at' = [at EXCEPT ![m] = "done"] /\ doing' = <<"destroy", m>>
    BY <2>1, <2>3, Works
  <2> QED
    BY <1>1, <2>2, <2>3 DEF MatchMail
<1>2. CASE DeliverMail(m)
  <2>1. /\ Running /\ at[m] = "deliver" /\ SetWrapped(m, "\n") /\ doing' = doing
        /\ UNCHANGED <<fetch, file, mapped, files, listed, parentVars, down>>
    BY <1>2 DEF DeliverMail
  <2>2. \/ \E k \in Kind : Asked(m, k) /\ (k = "rewrite" => file[m][2] < MaxRewrites)
        \/ at' = [at EXCEPT ![m] = "match"] /\ UNCHANGED up
    BY <1>2 DEF DeliverMail, Kind
  <2> QED
    BY <2>1, <2>2, Works
<1> QED
  BY <1>1, <1>2

LEMMA Blocked ==
  ASSUME IInv, setup' = setup, NEW m \in Mails, MatchBlocked(m)
  PROVE  \A n \in Mails : MailOk(n)'
<1>t. TypeInv /\ MailOk(m)
  BY DEF IInv
<1>1. /\ Running /\ at[m] = "command" /\ SetWrapped(m, " ")
      /\ UNCHANGED <<fetch, at, file, mapped, doing, files, listed, parentVars, up, down>>
  BY DEF MatchBlocked, fetchVars, msgVars
<1>2. \A n \in Mails \ {m} : \A f \in Of(n) : f \in folded' <=> f \in folded
  BY <1>1, Wraps
<1>3. \A n \in Mails : UpOf(n)' = UpOf(n) /\ DownOf(n)' = DownOf(n)
  BY <1>1 DEF UpOf, DownOf
<1>4. \A n \in Mails \ {m} : Same(n)
  <2> SUFFICES ASSUME NEW n \in Mails \ {m} PROVE Same(n)
    OBVIOUS
  <2> QED
    BY <1>1, <1>2, <1>3, OfFetch
<1>5. /\ Busy(m)' = Busy(m) /\ Served(m)' = Served(m) /\ About(m)' = About(m) /\ Of(m)' = Of(m)
  BY <1>1, <1>3 DEF Busy, Served, About, Of, parentVars
<1>6. MailOk(m)'
  <2>1. NamesOk(m)' /\ CallOk(m)'
    BY <1>t, <1>1, <1>3, <1>5 DEF MailOk, NamesOk, CallOk, parentVars
  <2>2. TalkOk(m)' /\ FileOk(m)'
    BY <1>t, <1>1, <1>3, <1>5 DEF MailOk, TalkOk, FileOk, parentVars
  <2>3. FoldOk(m)'
    <3>1. \A r \in UpOf(m) : r.kind = "command"
      BY <1>t, <1>1 DEF MailOk, TalkOk
    <3>2. Busy(m) => kind[m] = "command"
      BY <1>t, <1>1 DEF MailOk, TalkOk, Served
    <3> QED
      BY <1>1, <1>3, <1>5, <3>1, <3>2 DEF FoldOk, parentVars
  <2>4. ListOk(m)' /\ LeftOk(m)'
    BY <1>t, <1>1, <1>3, <1>5 DEF MailOk, ListOk, LeftOk, parentVars
  <2> QED
    BY <2>1, <2>2, <2>3, <2>4 DEF MailOk
<1> QED
  BY <1>1, <1>4, <1>6, OneMail

LEMMA Resizes ==
  ASSUME IInv, setup' = setup, NEW m \in Mails, ResizeFails(m)
  PROVE  \A n \in Mails : MailOk(n)'
<1>t. TypeInv /\ MailOk(m)
  BY DEF IInv
<1>1. /\ fetch = "run" /\ doing = None /\ setup.full /\ mapped' = mapped \ {m}
      /\ UNCHANGED <<fetch, at, file, doing, files, folded, listed, parentVars, up, down>>
  BY DEF ResizeFails, Running, ExpandFails, diskVars, msgVars
<1>3. \A n \in Mails : UpOf(n)' = UpOf(n) /\ DownOf(n)' = DownOf(n)
  BY <1>1 DEF UpOf, DownOf
<1>4. \A n \in Mails \ {m} : Same(n)
  <2> SUFFICES ASSUME NEW n \in Mails \ {m} PROVE Same(n)
    OBVIOUS
  <2> QED
    BY <1>1, <1>3, OfFetch
<1>5. /\ Busy(m)' = Busy(m) /\ Served(m)' = Served(m) /\ Of(m)' = Of(m) /\ ~About(m) /\ ~About(m)'
  BY <1>1, <1>3 DEF Busy, Served, About, Of, parentVars
<1>6. MailOk(m)'
  <2>1. NamesOk(m)' /\ CallOk(m)'
    BY <1>t, <1>1, <1>3, <1>5 DEF MailOk, NamesOk, CallOk, parentVars
  <2>2. TalkOk(m)' /\ FileOk(m)'
    BY <1>t, <1>1, <1>3, <1>5 DEF MailOk, TalkOk, FileOk, parentVars
  <2>3. FoldOk(m)'
    BY <1>t, <1>1, <1>3, <1>5 DEF MailOk, FoldOk, parentVars
  <2>4. ListOk(m)' /\ LeftOk(m)'
    BY <1>t, <1>1, <1>3, <1>5 DEF MailOk, ListOk, LeftOk, parentVars
  <2> QED
    BY <2>1, <2>2, <2>3, <2>4 DEF MailOk
<1> QED
  BY <1>1, <1>4, <1>6, OneMail

\* The answer to a request: the fetch child no longer waits, and has heard of the
\* file a rewrite has made.
LEMMA Answered ==
  ASSUME IInv, setup' = setup, NEW d \in down, TakeAnswer(d)
  PROVE  \A n \in Mails : MailOk(n)'
<1> DEFINE m == d.mail
<1>m. m \in Mails /\ d \in DownOf(m)
  BY DEF IInv, TypeInv, Reply, DownOf
<1>t. TypeOK /\ TypeInv /\ MailOk(m)
  BY <1>m DEF IInv, TypeInv
<1>1. /\ Running /\ fetch = "run" /\ doing = None /\ at[m] \in Kind /\ down' = down \ {d}
      /\ SetWrapped(m, IF at[m] = "command" THEN " " ELSE "\n")
      /\ at' = [at EXCEPT ![m] = IF @ = "command" THEN "match" ELSE "deliver"]
      /\ UNCHANGED <<file, mapped, files, listed, parentVars, up>>
  BY DEF TakeAnswer, Running, Waiting
<1>2. \/ d.error /\ fetch' = "freeing" /\ doing' = None
      \/ ~d.error /\ fetch' = "run" /\ doing' = None /\ at[m] # "rewrite"
      \/ ~d.error /\ fetch' = "run" /\ at[m] = "rewrite" /\ doing' = <<"receive", m, d.file>>
  BY <1>1 DEF TakeAnswer
<1>3. DownOf(m) = {d} /\ UpOf(m) = {} /\ ~Busy(m)
  BY <1>m, <1>t DEF MailOk, TalkOk
<1>4. file[m] \in Of(m) /\ file[m] # None /\ ~About(m)
  BY <1>1, <1>m, HasFile DEF Kind
<1>5. /\ at'[m] \in {"match", "deliver"} /\ (at[m] = "rewrite" => at'[m] = "deliver")
      /\ \A n \in Mails \ {m} : at'[n] = at[n]
  BY <1>m, <1>t, <1>1 DEF TypeOK
<1>6. /\ DownOf(m)' = {} /\ UpOf(m)' = {} /\ ~Busy(m)' /\ ~Served(m)' /\ Of(m)' = Of(m)
      /\ \A n \in Mails \ {m} : UpOf(n)' = UpOf(n) /\ DownOf(n)' = DownOf(n)
  <2>1. DownOf(m)' = {} /\ \A n \in Mails \ {m} : DownOf(n)' = DownOf(n)
    BY <1>1, <1>3 DEF DownOf
  <2>2. \A n \in Mails : UpOf(n)' = UpOf(n)
    BY <1>1 DEF UpOf
  <2>3. ~Busy(m)' /\ Of(m)' = Of(m)
    BY <1>1, <1>3 DEF Busy, Of, parentVars
  <2> QED
    BY <1>3, <1>m, <2>1, <2>2, <2>3 DEF Served
<1>7. at[m] = "rewrite" /\ ~d.error =>
        d.file \in Of(m) /\ d.file \in File /\ d.file \in files /\ d.file = new[m] /\ d.file # file[m]
  <2> SUFFICES ASSUME at[m] = "rewrite", ~d.error
               PROVE  /\ d.file \in Of(m) /\ d.file \in File /\ d.file \in files /\ d.file = new[m]
                      /\ d.file # file[m]
    OBVIOUS
  <2>1. /\ d.file = new[m] /\ d.file \in Of(m) /\ d.file \in File /\ d.file \in files
        /\ new[m] = <<m, held[m][2] + 1>> /\ file[m] = held[m]
    BY <1>1, <1>4, Rewritten
  <2>2. file[m][2] \in Nat
    BY <1>4, Names, ShmAssumption
  <2> QED
    BY <2>1, <2>2
<1>w. \A n \in Mails \ {m} : \A f \in Of(n) : f \in folded' <=> f \in folded
  <2>1. at[m] \notin {"none", "done"}
    BY <1>1 DEF Kind
  <2> QED
    BY <1>1, <1>m, <2>1, Wraps
<1>a. /\ About(m)' => /\ doing' = <<"receive", m, d.file>> /\ doing' \in Long /\ doing' \notin Short
                      /\ doing'[1] = "receive" /\ doing'[3] = d.file /\ ~d.error /\ at[m] = "rewrite"
                      /\ fetch' = "run"
      /\ ~d.error /\ at[m] = "rewrite" => About(m)'
      /\ \A n \in Mails \ {m} : ~About(n) /\ ~About(n)'
  <2>1. ~d.error /\ at[m] = "rewrite" =>
          <<"receive", m, d.file>> \in Long /\ <<"receive", m, d.file>> # None
    BY <1>m, <1>7 DEF Long, None
  <2> QED
    BY <1>1, <1>2, <2>1, Longs DEF About
<1>8. \A n \in Mails \ {m} : Same(n)
  <2> SUFFICES ASSUME NEW n \in Mails \ {m} PROVE Same(n)
    OBVIOUS
  <2> HIDE DEF m
  <2> QED
    BY <1>m, <1>1, <1>5, <1>6, <1>w, <1>a, OfFetch
<1>9. MailOk(m)'
  <2> HIDE DEF m
  <2>1. NamesOk(m)'
    BY <1>t, <1>1, <1>6, <1>7, <1>a DEF MailOk, NamesOk, parentVars
  <2>2. CallOk(m)'
    BY <1>t, <1>1, <1>4, <1>5, <1>a DEF MailOk, CallOk
  <2>3. TalkOk(m)' /\ FoldOk(m)'
    BY <1>6 DEF TalkOk, FoldOk
  <2>4. FileOk(m)'
    BY <1>t, <1>1, <1>6, <1>7, <1>a DEF MailOk, FileOk
  <2>5. ListOk(m)'
    BY <1>t, <1>1, <1>2, <1>4, <1>6, <1>a DEF MailOk, ListOk
  <2>6. LeftOk(m)'
    <3> SUFFICES ASSUME ~setup.full, NEW f \in files \cap Of(m)
                 PROVE  f = file[m] \/ (About(m)' /\ doing' \in Long /\ f = doing'[3])
      BY <1>1, <1>2, <1>6 DEF LeftOk
    <3>1. f = file[m] \/ (at[m] = "rewrite" /\ f = new[m] /\ ~d.error)
      BY <1>t, <1>1, <1>3, <1>4 DEF MailOk, LeftOk
    <3> QED
      BY <1>7, <1>a, <3>1
  <2> QED
    BY <2>1, <2>2, <2>3, <2>4, <2>5, <2>6 DEF MailOk
<1> QED
  BY <1>m, <1>1, <1>2, <1>8, <1>9, OneMail

\* mail_destroy takes the file off the list, or has nothing to destroy.
LEMMA Deregisters ==
  ASSUME IInv, setup' = setup, Deregister
  PROVE  \A n \in Mails : MailOk(n)'
<1>t. TypeOK /\ TypeInv
  BY DEF IInv, TypeInv
<1>1. /\ fetch \in {"run", "freeing"} /\ doing # None /\ doing[1] \in {"destroy", "receive"}
      /\ UNCHANGED <<parentVars, up, down>>
  BY DEF Deregister, Part, msgVars
<1>2. doing \in Short \cup Long /\ doing[2] \in Mails
  BY <1>t, <1>1, Shorts, Longs DEF TypeInv
<1>m. PICK m \in Mails : m = doing[2]
  BY <1>2
<1>3. MailOk(m) /\ About(m)
  BY <1>1, <1>m DEF IInv, About
<1>4. /\ doing[1] = "destroy" => doing \in Short /\ doing \notin Long
      /\ doing[1] = "receive" => doing \in Long /\ doing \notin Short /\ doing[3] \in File
  BY <1>2, Shorts, Longs
<1>5. \A n \in Mails : UpOf(n)' = UpOf(n) /\ DownOf(n)' = DownOf(n)
  BY <1>1 DEF UpOf, DownOf
<1>6. CASE m \notin mapped
  <2>1. /\ doing' = IF doing[1] = "destroy" THEN None ELSE <<"reopen", m, doing[3]>>
        /\ file' = [file EXCEPT ![m] = None]
        /\ UNCHANGED <<fetch, at, mapped, files, folded, listed>>
    BY <1>1, <1>6, <1>m DEF Deregister, Part, diskVars
  <2>2. file'[m] = None /\ \A n \in Mails \ {m} : file'[n] = file[n]
    BY <1>t, <2>1 DEF TypeOK
  <2>3. /\ doing[1] = "destroy" => doing' = None
        /\ doing[1] = "receive" => /\ doing' # None /\ doing' \in Long /\ doing' \notin Short
                                   /\ doing'[1] = "reopen" /\ doing'[2] = m /\ doing'[3] = doing[3]
    <3>1. doing[1] = "receive" => <<"reopen", m, doing[3]>> \in Long
      BY <1>4 DEF Long
    <3> QED
      BY <2>1, <3>1, Longs
  <2>4. /\ About(m)' <=> doing[1] = "receive"
        /\ \A n \in Mails \ {m} : ~About(n) /\ ~About(n)'
    BY <1>1, <1>m, <2>3 DEF About
  <2>5. \A n \in Mails \ {m} : Same(n)
    BY <1>1, <1>5, <2>1, <2>2, <2>4, OfFetch
  <2>6. MailOk(m)'
    <3>1. Busy(m)' = Busy(m) /\ Served(m)' = Served(m) /\ Of(m)' = Of(m)
      BY <1>1, <1>5, <2>1 DEF Busy, Served, Of, parentVars
    <3>2. NamesOk(m)'
      BY <1>1, <1>3, <1>4, <1>5, <2>2, <2>3, <2>4, <3>1 DEF MailOk, NamesOk, parentVars
    <3>3. CallOk(m)'
      BY <1>1, <1>3, <1>4, <1>6, <2>1, <2>2, <2>3, <2>4 DEF MailOk, CallOk
    <3>4. TalkOk(m)'
      BY <1>1, <1>3, <1>5, <2>1, <2>2, <3>1 DEF MailOk, TalkOk, parentVars
    <3>5. FileOk(m)' /\ FoldOk(m)'
      <4>1. doing \in Long => doing[3] # None
        BY <1>3, Names DEF MailOk, NamesOk
      <4> QED
        BY <1>1, <1>3, <1>4, <1>5, <2>1, <2>2, <2>3, <2>4, <3>1, <4>1
           DEF MailOk, FileOk, FoldOk, parentVars
    <3>6. ListOk(m)'
      BY <1>1, <1>3, <1>6, <2>1, <2>2, <2>3, <2>4, <3>1 DEF MailOk, ListOk, parentVars
    <3>7. LeftOk(m)'
      <4>1. ~setup.full => file[m] = None
        BY <1>1, <1>3, <1>6 DEF MailOk, ListOk
      <4> QED
        BY <1>1, <1>3, <1>4, <1>5, <2>1, <2>2, <2>3, <2>4, <3>1, <4>1, Names
           DEF MailOk, LeftOk, parentVars
    <3> QED
      BY <3>2, <3>3, <3>4, <3>5, <3>6, <3>7 DEF MailOk
  <2> QED
    BY <2>1, <2>5, <2>6, OneMail
<1>7. CASE m \in mapped /\ file[m] \notin listed["fetch"]
  <2>1. fetch' = "fatal" /\ UNCHANGED <<at, file, mapped, doing, diskVars>>
    BY <1>7, <1>m DEF Deregister, Dies
  <2> QED
    BY <1>1, <1>5, <2>1, NoMail DEF parentVars
<1>8. CASE m \in mapped /\ file[m] \in listed["fetch"]
  <2>1. /\ listed' = [listed EXCEPT !["fetch"] = @ \ {file[m]}]
        /\ doing' = [doing EXCEPT ![1] = "unlink"]
        /\ UNCHANGED <<fetch, at, file, mapped, files, folded>>
    BY <1>8, <1>m DEF Deregister, Dropped
  <2>2. \A f : /\ f \in listed'["fetch"] <=> f \in listed["fetch"] /\ f # file[m]
               /\ f \in listed'["parent"] <=> f \in listed["parent"]
    BY <1>t, <2>1 DEF TypeOK
  <2>3. /\ doing' # None /\ doing'[1] = "unlink" /\ doing'[2] = m
        /\ doing[1] = "destroy" => doing' \in Short /\ doing' \notin Long
        /\ doing[1] = "receive" => doing' \in Long /\ doing' \notin Short /\ doing'[3] = doing[3]
    <3>1. CASE doing[1] = "destroy"
      <4>1. doing' = <<"unlink", m>>
        BY <1>4, <1>m, <2>1, <3>1, Shorts
      <4>2. <<"unlink", m>> \in Short
        BY DEF Short
      <4> QED
        BY <3>1, <4>1, <4>2, Shorts
    <3>2. CASE doing[1] = "receive"
      <4>1. doing' = <<"unlink", m, doing[3]>>
        BY <1>4, <1>m, <2>1, <3>2, Longs
      <4>2. <<"unlink", m, doing[3]>> \in Long
        BY <1>4, <3>2 DEF Long
      <4> QED
        BY <3>2, <4>1, <4>2, Longs
    <3> QED
      BY <1>1, <3>1, <3>2
  <2>4. /\ About(m)'
        /\ \A n \in Mails \ {m} : ~About(n) /\ ~About(n)'
    BY <1>1, <1>m, <2>3 DEF About
  <2>5. file[m] \in Of(m)
    BY <1>3, <1>8 DEF MailOk, NamesOk, CallOk
  <2>6. \A n \in Mails \ {m} : Same(n)
    <3> SUFFICES ASSUME NEW n \in Mails \ {m} PROVE Same(n)
      OBVIOUS
    <3>1. file[m] \notin Of(n)
      BY <2>5, Names
    <3> QED
      BY <1>1, <1>5, <2>1, <2>2, <2>4, <3>1, OfFetch
  <2>7. MailOk(m)'
    <3>1. Busy(m)' = Busy(m) /\ Served(m)' = Served(m) /\ Of(m)' = Of(m)
      BY <1>1, <1>5, <2>1 DEF Busy, Served, Of, parentVars
    <3>2. NamesOk(m)'
      BY <1>1, <1>3, <1>4, <1>5, <2>1, <2>3, <2>4, <3>1 DEF MailOk, NamesOk, parentVars
    <3>3. CallOk(m)'
      BY <1>1, <1>3, <1>4, <1>8, <2>1, <2>3, <2>4 DEF MailOk, CallOk
    <3>4. TalkOk(m)'
      BY <1>1, <1>3, <1>5, <2>1, <3>1 DEF MailOk, TalkOk, parentVars
    <3>5. FileOk(m)' /\ FoldOk(m)'
      BY <1>1, <1>3, <1>4, <1>5, <2>1, <2>3, <2>4, <3>1 DEF MailOk, FileOk, FoldOk, parentVars
    <3>6. ListOk(m)'
      BY <1>1, <1>3, <1>8, <2>1, <2>2, <2>3, <2>4, <3>1 DEF MailOk, ListOk, parentVars
    <3>7. LeftOk(m)'
      BY <1>1, <1>3, <1>4, <1>5, <2>1, <2>3, <2>4, <3>1 DEF MailOk, LeftOk, parentVars
    <3> QED
      BY <3>2, <3>3, <3>4, <3>5, <3>6, <3>7 DEF MailOk
  <2> QED
    BY <2>1, <2>6, <2>7, OneMail
<1> QED
  BY <1>6, <1>7, <1>8

\* shm_destroy
LEMMA Unlinks ==
  ASSUME IInv, setup' = setup, Unlink
  PROVE  \A n \in Mails : MailOk(n)'
<1>t. TypeOK /\ TypeInv
  BY DEF IInv, TypeInv
<1>1. /\ fetch \in {"run", "freeing"} /\ doing # None /\ doing[1] = "unlink"
      /\ UNCHANGED <<parentVars, up, down>>
  BY DEF Unlink, Part, msgVars
<1>2. doing \in Short \cup Long /\ doing[2] \in Mails
  BY <1>t, <1>1, Shorts, Longs DEF TypeInv
<1>m. PICK m \in Mails : m = doing[2]
  BY <1>2
<1>3. MailOk(m) /\ About(m)
  BY <1>1, <1>m DEF IInv, About
<1>4. m \in mapped /\ file[m] \in Of(m) /\ file[m] # None /\ file[m] \in files
  BY <1>1, <1>3 DEF MailOk, CallOk, NamesOk, FileOk
<1>5. \A n \in Mails : UpOf(n)' = UpOf(n) /\ DownOf(n)' = DownOf(n)
  BY <1>1 DEF UpOf, DownOf
<1>6. /\ files' = files \ {file[m]} /\ mapped' = mapped \ {m} /\ file' = [file EXCEPT ![m] = None]
      /\ doing' = IF Len(doing) = 2 THEN None ELSE <<"reopen", m, doing[3]>>
      /\ UNCHANGED <<fetch, at, folded, listed>>
  BY <1>4, <1>m DEF Unlink
<1>7. file'[m] = None /\ \A n \in Mails \ {m} : file'[n] = file[n]
  BY <1>t, <1>6 DEF TypeOK
<1>8. /\ doing \in Short => doing \notin Long /\ doing' = None
      /\ doing \in Long => /\ doing' # None /\ doing' \in Long /\ doing' \notin Short
                           /\ doing'[1] = "reopen" /\ doing'[2] = m /\ doing'[3] = doing[3]
  <2>1. CASE doing \in Short
    BY <1>6, <2>1, Shorts
  <2>2. CASE doing \in Long
    <3>0. Len(doing) = 3 /\ doing[3] \in File /\ doing \notin Short
      BY <2>2, Longs
    <3>1. doing' = <<"reopen", m, doing[3]>> /\ doing[3] \in File /\ doing \notin Short
      BY <1>6, <3>0
    <3>2. <<"reopen", m, doing[3]>> \in Long
      BY <3>1 DEF Long
    <3> QED
      BY <3>1, <3>2, Longs
  <2> QED
    BY <1>2, <2>1, <2>2
<1>9. /\ About(m)' <=> doing \in Long
      /\ \A n \in Mails \ {m} : ~About(n) /\ ~About(n)'
  BY <1>1, <1>2, <1>m, <1>8 DEF About
<1>10. \A n \in Mails \ {m} : Same(n)
  <2> SUFFICES ASSUME NEW n \in Mails \ {m} PROVE Same(n)
    OBVIOUS
  <2>1. file[m] \notin Of(n)
    BY <1>4, Names
  <2> QED
    BY <1>1, <1>5, <1>6, <1>7, <1>9, <2>1, OfFetch
<1>11. MailOk(m)'
  <2>1. Busy(m)' = Busy(m) /\ Served(m)' = Served(m) /\ Of(m)' = Of(m)
    BY <1>1, <1>5, <1>6 DEF Busy, Served, Of, parentVars
  <2>2. NamesOk(m)'
    BY <1>1, <1>2, <1>3, <1>5, <1>7, <1>8, <1>9, <2>1 DEF MailOk, NamesOk, parentVars
  <2>3. CallOk(m)'
    BY <1>1, <1>2, <1>3, <1>6, <1>7, <1>8, <1>9 DEF MailOk, CallOk
  <2>4. TalkOk(m)'
    BY <1>1, <1>3, <1>5, <1>6, <1>7, <2>1 DEF MailOk, TalkOk, parentVars
  <2>5. fetch = "run" => at[m] \in {"done", "deliver"}
    BY <1>1, <1>2, <1>3 DEF MailOk, CallOk
  <2>6. FileOk(m)' /\ FoldOk(m)'
    <3>1. doing \in Long => doing[3] # None
      BY <1>3, Names DEF MailOk, NamesOk
    <3> QED
      BY <1>1, <1>3, <1>5, <1>6, <1>7, <1>8, <1>9, <2>1, <2>5, <3>1
         DEF MailOk, FileOk, FoldOk, parentVars
  <2>7. Busy(m) /\ kind[m] = "rewrite" => new[m] # file[m]
    <3>1. Busy(m) => /\ held[m] \in Of(m) /\ file[m] = held[m]
                     /\ new[m] = IF kind[m] = "rewrite" THEN <<m, held[m][2] + 1>> ELSE None
      BY <1>3, <1>4 DEF MailOk, TalkOk, NamesOk, Served
    <3>2. Busy(m) => held[m][2] \in Nat
      BY <3>1, Names, ShmAssumption
    <3> QED
      BY <3>1, <3>2
  <2>8. ListOk(m)'
    BY <1>1, <1>3, <1>4, <1>6, <1>7, <1>8, <1>9, <2>1, <2>7 DEF MailOk, ListOk, parentVars
  <2>9. LeftOk(m)'
    BY <1>1, <1>3, <1>5, <1>6, <1>7, <1>8, <1>9, <2>1 DEF MailOk, LeftOk, parentVars
  <2> QED
    BY <2>2, <2>3, <2>4, <2>6, <2>8, <2>9 DEF MailOk
<1> QED
  BY <1>6, <1>10, <1>11, OneMail

\* The new file of a rewritten mail is there when the fetch child opens it.
LEMMA Reopens ==
  ASSUME IInv, setup' = setup, Reopen
  PROVE  \A n \in Mails : MailOk(n)'
<1>t. TypeOK /\ TypeInv
  BY DEF IInv, TypeInv
<1>1. /\ fetch = "run" /\ doing # None /\ doing[1] = "reopen"
      /\ UNCHANGED <<at, mapped, files, folded, listed, parentVars, up, down>>
  BY DEF Reopen, Part, diskVars, msgVars
<1>2. doing \in Long /\ doing[2] \in Mails
  BY <1>t, <1>1, Shorts, Longs DEF TypeInv
<1>m. PICK m \in Mails : m = doing[2]
  BY <1>2
<1>3. MailOk(m) /\ About(m)
  BY <1>1, <1>m DEF IInv, About
<1>4. /\ doing[3] \in files /\ doing[3] \in Of(m) /\ doing[3] # None
      /\ file[m] = None /\ m \notin mapped /\ at[m] = "deliver"
  BY <1>1, <1>2, <1>3, Names DEF MailOk, CallOk, NamesOk, FileOk
<1>5. \A n \in Mails : UpOf(n)' = UpOf(n) /\ DownOf(n)' = DownOf(n)
  BY <1>1 DEF UpOf, DownOf
<1>6. /\ file' = [file EXCEPT ![m] = doing[3]] /\ doing' = <<"register", m>> /\ fetch' = "run"
  BY <1>1, <1>4, <1>m DEF Reopen
<1>7. file'[m] = doing[3] /\ \A n \in Mails \ {m} : file'[n] = file[n]
  BY <1>t, <1>6 DEF TypeOK
<1>8. doing' \in Short /\ doing' \notin Long /\ doing' # None /\ doing'[1] = "register" /\ doing'[2] = m
  <2>1. <<"register", m>> \in Short
    BY DEF Short
  <2> QED
    BY <1>6, <2>1, Shorts
<1>9. About(m)' /\ \A n \in Mails \ {m} : ~About(n) /\ ~About(n)'
  BY <1>1, <1>m, <1>8 DEF About
<1>10. \A n \in Mails \ {m} : Same(n)
  BY <1>1, <1>5, <1>7, <1>9, OfFetch
<1>11. UpOf(m) = {} /\ DownOf(m) = {} /\ ~Busy(m) /\ ~Served(m)
  BY <1>3, <1>4, NotAsked DEF MailOk, Kind, Served
<1>12. MailOk(m)'
  <2>1. UpOf(m)' = {} /\ DownOf(m)' = {} /\ ~Busy(m)' /\ ~Served(m)' /\ Of(m)' = Of(m)
    BY <1>1, <1>5, <1>11 DEF Busy, Served, Of, parentVars
  <2>2. NamesOk(m)'
    BY <1>1, <1>3, <1>4, <1>7, <1>8, <2>1 DEF MailOk, NamesOk, parentVars
  <2>3. CallOk(m)'
    BY <1>1, <1>4, <1>7, <1>8 DEF CallOk
  <2>4. TalkOk(m)' /\ FoldOk(m)'
    BY <2>1 DEF TalkOk, FoldOk
  <2>5. FileOk(m)'
    BY <1>1, <1>4, <1>7, <1>8, <2>1 DEF FileOk
  <2>6. ListOk(m)'
    BY <1>1, <1>3, <1>4, <1>6, <1>8, <1>9, <2>1 DEF MailOk, ListOk
  <2>7. LeftOk(m)'
    BY <1>1, <1>3, <1>4, <1>6, <1>7, <2>1, Names DEF MailOk, LeftOk
  <2> QED
    BY <2>2, <2>3, <2>4, <2>5, <2>6, <2>7 DEF MailOk
<1> QED
  BY <1>1, <1>6, <1>10, <1>12, OneMail

\* fetch_free
LEMMA Destroyed ==
  ASSUME IInv, setup' = setup, FetchFree, fetch' # "waiting"
  PROVE  \A n \in Mails : MailOk(n)'
<1>t. TypeOK
  BY DEF IInv, TypeInv
<1>1. /\ fetch = "freeing" /\ fetch' = "freeing" /\ doing = None
      /\ UNCHANGED <<at, file, mapped, files, folded, listed, parentVars, up, down>>
  BY DEF FetchFree, diskVars
<1>m. PICK m \in Mails : m \in mapped /\ file[m] # None /\ doing' = <<"destroy", m>>
  BY <1>t DEF FetchFree, TypeOK
<1>2. MailOk(m)
  BY DEF IInv
<1>3. \A n \in Mails : UpOf(n)' = UpOf(n) /\ DownOf(n)' = DownOf(n)
  BY <1>1 DEF UpOf, DownOf
<1>4. doing' \in Short /\ doing' \notin Long /\ doing' # None /\ doing'[1] = "destroy" /\ doing'[2] = m
  <2>1. <<"destroy", m>> \in Short
    BY DEF Short
  <2> QED
    BY <1>m, <2>1, Shorts
<1>5. About(m)' /\ ~About(m) /\ \A n \in Mails \ {m} : ~About(n) /\ ~About(n)'
  BY <1>1, <1>4 DEF About
<1>6. \A n \in Mails \ {m} : Same(n)
  BY <1>1, <1>3, <1>5, OfFetch
<1>7. MailOk(m)'
  <2>1. Busy(m)' = Busy(m) /\ Served(m)' = Served(m) /\ Of(m)' = Of(m)
    BY <1>1, <1>3 DEF Busy, Served, Of, parentVars
  <2>2. NamesOk(m)' /\ CallOk(m)'
    BY <1>1, <1>2, <1>3, <1>4, <2>1 DEF MailOk, NamesOk, CallOk, parentVars
  <2>3. TalkOk(m)'
    BY <1>1, <1>2, <1>3, <2>1 DEF MailOk, TalkOk, parentVars
  <2>4. FileOk(m)' /\ FoldOk(m)'
    BY <1>1, <1>2, <1>3, <2>1 DEF MailOk, FileOk, FoldOk, parentVars
  <2>5. ListOk(m)'
    BY <1>1, <1>2, <1>m, <1>4, <1>5, <2>1 DEF MailOk, ListOk, parentVars
  <2>6. LeftOk(m)'
    BY <1>1, <1>2, <1>3, <1>5, <2>1 DEF MailOk, LeftOk, parentVars
  <2> QED
    BY <2>2, <2>3, <2>4, <2>5, <2>6 DEF MailOk
<1> QED
  BY <1>1, <1>6, <1>7, OneMail

\* A SIGTERM: what is on the list goes, and all of it while the disk has room.
LEMMA Terms ==
  ASSUME IInv, setup' = setup, Term
  PROVE  \A n \in Mails : MailOk(n)'
<1>t. TypeOK
  BY DEF IInv, TypeInv
<1>1. /\ fetch' = "killed" /\ fetch \in {"run", "freeing", "waiting", "told"}
      /\ UNCHANGED <<at, file, mapped, doing, folded, listed, parentVars, up, down>>
  BY <1>t DEF Term, TypeOK, msgVars
<1>2. PICK gone \in SUBSET (listed["fetch"] \cap files) :
        /\ listed["fetch"] \subseteq files => gone = listed["fetch"]
        /\ files' = files \ gone
  BY DEF Term
<1>3. ~setup.full => listed["fetch"] \subseteq files
  <2> SUFFICES ASSUME ~setup.full, NEW f \in listed["fetch"] PROVE f \in files
    OBVIOUS
  <2>1. f \in File
    BY <1>t DEF TypeOK
  <2>2. f[1] \in Mails /\ f \in Of(f[1]) /\ f # None
    BY <2>1, Names
  <2>3. MailOk(f[1])
    BY <2>2 DEF IInv
  <2>4. f = file[f[1]] /\ f[1] \in mapped
    BY <2>2, <2>3 DEF MailOk, ListOk
  <2>5. fetch \in {"run", "freeing"}
    BY <1>1, <2>3, <2>4 DEF MailOk, ListOk
  <2> QED
    BY <2>2, <2>3, <2>4, <2>5 DEF MailOk, FileOk
<1>4. ~setup.full => files' = files \ listed["fetch"]
  BY <1>2, <1>3
<1> SUFFICES ASSUME NEW m \in Mails PROVE MailOk(m)'
  OBVIOUS
<1>5. MailOk(m)
  BY DEF IInv
<1>6. UpOf(m)' = UpOf(m) /\ DownOf(m)' = DownOf(m)
  BY <1>1 DEF UpOf, DownOf
<1>7. /\ Busy(m)' = Busy(m) /\ Of(m)' = Of(m) /\ About(m)' = About(m)
      /\ Served(m)' => Served(m)
  BY <1>1, <1>6 DEF Busy, Served, Of, About, parentVars
<1>8. NamesOk(m)' /\ CallOk(m)'
  BY <1>1, <1>5, <1>6, <1>7 DEF MailOk, NamesOk, CallOk, parentVars
<1>9. TalkOk(m)'
  BY <1>1, <1>5, <1>6, <1>7 DEF MailOk, TalkOk, parentVars
<1>10. FileOk(m)' /\ FoldOk(m)'
  BY <1>1, <1>5, <1>6, <1>7 DEF MailOk, FileOk, FoldOk, parentVars
<1>11. ListOk(m)'
  <2>1. Busy(m) /\ kind[m] = "rewrite" => new[m] \in Of(m) /\ new[m] # file[m]
    <3>1. Busy(m) /\ kind[m] = "rewrite" =>
            /\ held[m] \in Of(m) /\ file[m] \in {None, held[m]}
            /\ new[m] = <<m, held[m][2] + 1>>
      BY <1>5 DEF MailOk, TalkOk, NamesOk, Served
    <3>2. Busy(m) /\ kind[m] = "rewrite" => held[m][2] \in Nat /\ new[m] # None
      BY <3>1, Names, ShmAssumption DEF None
    <3> QED
      BY <1>5, <3>1, <3>2 DEF MailOk, NamesOk
  <2>2. ~setup.full /\ Busy(m) /\ kind[m] = "rewrite" => new[m] \in files'
    BY <1>4, <1>5, <2>1 DEF MailOk, ListOk
  <2> QED
    BY <1>1, <1>5, <1>7, <2>2 DEF MailOk, ListOk, parentVars
<1>12. LeftOk(m)'
  <2>1. ASSUME ~setup.full, NEW f \in Of(m), f \in files', f = file[m] PROVE About(m)
    <3>1. f # None
      BY Names
    <3>2. f \notin listed["fetch"]
      BY <1>4, <2>1
    <3> QED
      BY <1>5, <2>1, <3>1, <3>2 DEF MailOk, ListOk
  <2>2. \A f \in files' : f \in files
    BY <1>2
  <2> QED
    BY <1>1, <1>5, <1>6, <1>7, <2>1, <2>2 DEF MailOk, LeftOk, parentVars
<1> QED
  BY <1>8, <1>9, <1>10, <1>11, <1>12 DEF MailOk

-----------------------------------------------------------------------------
(* The steps of the parent and of the deliver children.                    *)

\* What such a step changes of one mail.
LEMMA OfParent ==
  ASSUME NEW m \in Mails, NEW n \in Mails \ {m}, UNCHANGED <<at, file, mapped, doing>>,
         job'[n] = job[n], held'[n] = held[n], new'[n] = new[n], kind'[n] = kind[n],
         UpOf(n)' = UpOf(n), DownOf(n)' = DownOf(n),
         \A f \in Of(n) : /\ f \in files' <=> f \in files
                          /\ f \in folded' <=> f \in folded
                          /\ f \in listed'["fetch"] <=> f \in listed["fetch"]
                          /\ f \in listed'["parent"] <=> f \in listed["parent"]
  PROVE  Same(n)
BY DEF Same, About

\* A deliver child ends or dies.
LEMMA Jobs ==
  ASSUME IInv, setup' = setup, NEW m \in Mails, JobDone(m) \/ JobDies(m)
  PROVE  \A n \in Mails : MailOk(n)'
<1>t. TypeOK /\ MailOk(m)
  BY DEF IInv, TypeInv
<1>1. /\ job[m] = "run"
      /\ UNCHANGED <<fetch, at, file, mapped, doing, files, folded, listed, up, down, held, new, kind>>
  BY DEF JobDone, JobDies, fetchVars, diskVars, msgVars
<1>2. job'[m] \in {"ok", "failed", "dead"} /\ \A n \in Mails \ {m} : job'[n] = job[n]
  BY <1>t DEF JobDone, JobDies, Results, TypeOK
<1>3. \A n \in Mails : UpOf(n)' = UpOf(n) /\ DownOf(n)' = DownOf(n)
  BY <1>1 DEF UpOf, DownOf
<1>4. \A n \in Mails \ {m} : Same(n)
  BY <1>1, <1>2, <1>3, OfParent
<1>5. Busy(m) /\ DownOf(m) = {} /\ Served(m)
  BY <1>t, <1>1 DEF Busy, Served, MailOk, TalkOk
<1>6. Of(m)' = Of(m) /\ About(m)' = About(m)
  BY <1>1 DEF Of, About
<1>7. MailOk(m)'
  <2>1. NamesOk(m)' /\ CallOk(m)'
    BY <1>t, <1>1, <1>3, <1>6 DEF MailOk, NamesOk, CallOk
  <2>2. TalkOk(m)'
    BY <1>t, <1>1, <1>3, <1>5 DEF MailOk, TalkOk
  <2>3. FileOk(m)' /\ FoldOk(m)'
    BY <1>t, <1>1, <1>3, <1>5, <1>6 DEF MailOk, FileOk, FoldOk
  <2>4. ListOk(m)'
    BY <1>t, <1>1, <1>5, <1>6 DEF MailOk, ListOk
  <2>5. LeftOk(m)'
    BY <1>t, <1>1, <1>3, <1>6 DEF MailOk, LeftOk
  <2> QED
    BY <2>1, <2>2, <2>3, <2>4, <2>5 DEF MailOk
<1> QED
  BY <1>1, <1>4, <1>7, OneMail

\* parent_fetch answers at once: the file is not there or there is no room for a
\* new one.
LEMMA Refused ==
  ASSUME IInv, setup' = setup, NEW m \in Mails, NEW r \in Request, r.mail = m,
         UpOf(m) = {r}, UpOf(m)' = {}, \A n \in Mails \ {m} : UpOf(n)' = UpOf(n),
         NEW err \in BOOLEAN, err \/ r.file \notin files, ~reaped, Answer(m, err, None),
         listed'["fetch"] = listed["fetch"],
         \A f : f \notin Of(m) => (f \in listed'["parent"] <=> f \in listed["parent"]),
         UNCHANGED <<fetch, at, file, mapped, doing, files, folded, job, held, new, kind>>
  PROVE  \A n \in Mails : MailOk(n)'
<1>t. MailOk(m)
  BY DEF IInv
<1> DEFINE d == [mail |-> m, error |-> err, file |-> None]
<1>1. d.mail = m /\ d.error = err /\ d.file = None
  OBVIOUS
<1>2. down' = down \cup {d}
  BY DEF Answer
<1> HIDE DEF d
<1>3. DownOf(m) = {} /\ ~Busy(m) /\ r.kind = at[m] /\ r.kind \in Kind
  BY <1>t DEF MailOk, TalkOk, Request
<1>4. DownOf(m)' = {d} /\ \A n \in Mails \ {m} : DownOf(n)' = DownOf(n)
  BY <1>1, <1>2, <1>3 DEF DownOf
<1>5. fetch = "run" => err
  BY InQueue
<1>6. ~Busy(m)' /\ ~Served(m)' /\ Of(m)' = Of(m) /\ About(m)' = About(m)
  BY <1>1, <1>3, <1>4, <1>5 DEF Busy, Served, Of, About
<1>7. \A n \in Mails \ {m} : Same(n)
  <2> SUFFICES ASSUME NEW n \in Mails \ {m} PROVE Same(n)
    OBVIOUS
  <2>1. Of(m) \cap Of(n) = {}
    BY Names
  <2> QED
    BY <1>4, <2>1, OfParent
<1>8. MailOk(m)'
  <2>1. NamesOk(m)' /\ CallOk(m)'
    BY <1>t, <1>1, <1>4, <1>6 DEF MailOk, NamesOk, CallOk
  <2>2. TalkOk(m)'
    BY <1>1, <1>3, <1>4, <1>5, <1>6 DEF TalkOk
  <2>3. FileOk(m)' /\ FoldOk(m)'
    BY <1>t, <1>1, <1>4, <1>5, <1>6 DEF MailOk, FileOk, FoldOk
  <2>4. ListOk(m)'
    BY <1>t, <1>6 DEF MailOk, ListOk
  <2>5. LeftOk(m)'
    BY <1>t, <1>6 DEF MailOk, LeftOk
  <2> QED
    BY <2>1, <2>2, <2>3, <2>4, <2>5 DEF MailOk
<1> QED
  BY <1>7, <1>8, OneMail

\* A deliver child is started, with a new file for a rewrite.
LEMMA Started ==
  ASSUME IInv, setup' = setup, NEW m \in Mails, NEW r \in Request, r.mail = m,
         UpOf(m) = {r}, UpOf(m)' = {}, \A n \in Mails \ {m} : UpOf(n)' = UpOf(n),
         r.file \in Of(m), r.file \in files,
         NEW made \in SUBSET Of(m),
         new' = [new EXCEPT ![m] = IF r.kind = "rewrite" THEN <<m, r.file[2] + 1>> ELSE None],
         r.kind = "rewrite" => made = {<<m, r.file[2] + 1>>},
         r.kind # "rewrite" => made = {},
         job' = [job EXCEPT ![m] = "run"], kind' = [kind EXCEPT ![m] = r.kind],
         held' = [held EXCEPT ![m] = r.file],
         listed' = [listed EXCEPT !["parent"] = @ \cup {r.file} \cup made],
         files' = files \cup made, folded' = folded \cup made,
         UNCHANGED <<fetch, at, file, mapped, doing, down>>
  PROVE  \A n \in Mails : MailOk(n)'
<1>t. MailOk(m) /\ TypeOK
  BY DEF IInv, TypeInv
<1>1. DownOf(m) = {} /\ ~Busy(m) /\ r.kind = at[m] /\ r.kind \in Kind /\ file[m] \in {None, r.file}
  BY <1>t DEF MailOk, TalkOk, Request
<1>2. \A n \in Mails : DownOf(n)' = DownOf(n)
  BY DEF DownOf
<1>3. /\ job'[m] = "run" /\ kind'[m] = r.kind /\ held'[m] = r.file
      /\ new'[m] = IF r.kind = "rewrite" THEN <<m, r.file[2] + 1>> ELSE None
      /\ \A n \in Mails \ {m} : /\ job'[n] = job[n] /\ kind'[n] = kind[n]
                                /\ held'[n] = held[n] /\ new'[n] = new[n]
  BY <1>t DEF TypeOK
<1>4. \A f : /\ f \in listed'["fetch"] <=> f \in listed["fetch"]
             /\ f \in listed'["parent"] <=> f \in listed["parent"] \/ f = r.file \/ f \in made
  BY <1>t DEF TypeOK
<1>5. r.file # None /\ {new'[m]} \ {None} \subseteq made /\ (r.kind = "rewrite" => new'[m] \in made)
  BY <1>3, Names
<1>6. Busy(m)' /\ Served(m)' /\ Of(m)' = Of(m) /\ About(m)' = About(m)
  BY <1>3 DEF Busy, Served, Of, About
<1>7. \A n \in Mails \ {m} : Same(n)
  <2> SUFFICES ASSUME NEW n \in Mails \ {m} PROVE Same(n)
    OBVIOUS
  <2>1. Of(m) \cap Of(n) = {}
    BY Names
  <2>2. \A f \in Of(n) : f \notin made /\ f # r.file
    BY <2>1
  <2> QED
    BY <1>2, <1>3, <1>4, <2>2, OfParent
<1>8. MailOk(m)'
  <2>1. NamesOk(m)' /\ CallOk(m)'
    BY <1>t, <1>2, <1>3, <1>5, <1>6 DEF MailOk, NamesOk, CallOk
  <2>2. TalkOk(m)'
    BY <1>1, <1>2, <1>3, <1>5, <1>6 DEF TalkOk
  <2>3. FileOk(m)' 
    BY <1>t, <1>1, <1>2, <1>6 DEF MailOk, FileOk
  <2>4. FoldOk(m)'
    BY <1>t, <1>3 DEF MailOk, FoldOk
  <2>5. ListOk(m)'
    BY <1>t, <1>3, <1>4, <1>5, <1>6 DEF MailOk, ListOk
  <2>6. LeftOk(m)'
    <3>1. \A f \in made : at[m] = "rewrite" /\ f = new'[m]
      BY <1>1, <1>3
    <3> QED
      BY <1>t, <1>1, <1>2, <1>6, <3>1 DEF MailOk, LeftOk
  <2> QED
    BY <2>1, <2>2, <2>3, <2>4, <2>5, <2>6 DEF MailOk
<1> QED
  BY <1>7, <1>8, OneMail

\* parent_fetch
LEMMA Fetches ==
  ASSUME IInv, setup' = setup, ParentFetch
  PROVE  \A n \in Mails : MailOk(n)'
<1>t. TypeInv /\ TypeOK /\ LoopInv
  BY DEF IInv, TypeInv
<1>1. /\ up # <<>> /\ up' = Tail(up) /\ Head(up).kind # "exit" /\ ~reaped
      /\ UNCHANGED <<fetch, at, file, mapped, doing>>
  BY DEF ParentFetch, fetchVars
<1>r. PICK r \in Request : r = Head(up)
  BY <1>1, Asks
<1>m. PICK m \in Mails : m = r.mail
  BY <1>1, <1>r, Asks
<1>2. /\ r.kind \in Kind /\ r.file \in Of(m)
      /\ r.kind = "rewrite" => <<m, r.file[2] + 1>> \in Of(m)
  BY <1>1, <1>r, <1>m, Asks
<1>3. UpOf(m) = {r} /\ UpOf(m)' = {} /\ \A n \in Mails \ {m} : UpOf(n)' = UpOf(n)
  BY <1>t, <1>1, <1>r, <1>m, UpLess
<1>4. CASE r.file \notin files
  <2>1. /\ Answer(m, r.kind # "command", None)
        /\ UNCHANGED <<job, held, new, kind, files, folded, listed>>
    BY <1>4, <1>r, <1>m DEF ParentFetch, diskVars
  <2>2. (r.kind # "command") \in BOOLEAN
    OBVIOUS
  <2> QED
    BY <1>1, <1>m, <1>3, <1>4, <2>1, <2>2, Refused
<1>5. CASE /\ Answer(m, TRUE, None)
           /\ listed' = [listed EXCEPT !["parent"] = @ \cup {r.file}]
           /\ UNCHANGED <<job, held, new, kind, files, folded>>
  <2>1. /\ listed'["fetch"] = listed["fetch"]
        /\ \A f : f \notin Of(m) => (f \in listed'["parent"] <=> f \in listed["parent"])
    BY <1>t, <1>2, <1>5 DEF TypeOK
  <2>2. TRUE \in BOOLEAN
    OBVIOUS
  <2> QED
    BY <1>1, <1>m, <1>3, <1>5, <2>1, <2>2, Refused
<1>6. CASE /\ r.file \in files
           /\ job' = [job EXCEPT ![m] = "run"] /\ kind' = [kind EXCEPT ![m] = r.kind]
           /\ held' = [held EXCEPT ![m] = r.file]
           /\ new' = [new EXCEPT ![m] = IF r.kind = "rewrite" THEN <<m, r.file[2] + 1>> ELSE None]
           /\ LET made == IF r.kind = "rewrite" THEN {<<m, r.file[2] + 1>>} ELSE {} IN
              /\ listed' = [listed EXCEPT !["parent"] = @ \cup {r.file} \cup made]
              /\ files' = files \cup made /\ folded' = folded \cup made
           /\ UNCHANGED down
  <2> DEFINE made == IF r.kind = "rewrite" THEN {<<m, r.file[2] + 1>>} ELSE {}
  <2>1. /\ made \in SUBSET Of(m)
        /\ r.kind = "rewrite" => made = {<<m, r.file[2] + 1>>}
        /\ r.kind # "rewrite" => made = {}
    BY <1>2
  <2>2. /\ listed' = [listed EXCEPT !["parent"] = @ \cup {r.file} \cup made]
        /\ files' = files \cup made /\ folded' = folded \cup made
    BY <1>6
  <2> HIDE DEF made
  <2> QED
    BY <1>1, <1>m, <1>2, <1>3, <1>6, <2>1, <2>2, Started
<1> QED
  BY <1>4, <1>5, <1>6, <1>r, <1>m DEF ParentFetch

\* parent_deliver
LEMMA Delivers ==
  ASSUME IInv, setup' = setup, NEW m \in Mails, ParentDeliver(m)
  PROVE  \A n \in Mails : MailOk(n)'
<1> DEFINE failed == job[m] = "failed" \/ (kind[m] = "rewrite" /\ new[m] \notin files)
           d == [mail |-> m, error |-> failed,
                 file |-> IF kind[m] = "rewrite" /\ ~failed THEN new[m] ELSE held[m]]
<1>t. MailOk(m) /\ TypeOK
  BY DEF IInv, TypeInv
<1>1. /\ job[m] \in {"ok", "failed"} /\ job' = [job EXCEPT ![m] = "over"]
      /\ UNCHANGED <<fetch, at, file, mapped, doing, folded, up, held, new, kind, reaped>>
  BY DEF ParentDeliver, fetchVars
<1>2. Busy(m) /\ Served(m)
  BY <1>1 DEF Busy, Served
<1>3. /\ DownOf(m) = {} /\ UpOf(m) = {} /\ kind[m] = at[m] /\ at[m] \in Kind
      /\ held[m] \in Of(m) /\ held[m] # None /\ file[m] \in {None, held[m]}
      /\ new[m] = IF kind[m] = "rewrite" THEN <<m, held[m][2] + 1>> ELSE None
      /\ new[m] \in Of(m) \cup {None}
  BY <1>t, <1>2 DEF MailOk, TalkOk, NamesOk
<1>4. kind[m] = "rewrite" => new[m] # None /\ new[m] \in Of(m) /\ new[m] # file[m]
  <2>1. held[m][2] \in Nat
    BY <1>3, Names, ShmAssumption
  <2>2. <<m, held[m][2] + 1>> # None /\ <<m, held[m][2] + 1>> # held[m]
    BY <2>1 DEF None
  <2> QED
    BY <1>3, <2>2
<1>5. job'[m] = "over" /\ \A n \in Mails \ {m} : job'[n] = job[n]
  BY <1>t, <1>1 DEF TypeOK
<1>6. /\ ~Busy(m)' /\ Of(m)' = Of(m) /\ About(m)' = About(m) /\ \A n \in Mails : UpOf(n)' = UpOf(n)
  BY <1>1, <1>5 DEF Busy, Of, About, UpOf
<1>7. CASE UNCHANGED <<listed, files, down>>
  <2>1. \A n \in Mails : DownOf(n)' = DownOf(n)
    BY <1>7 DEF DownOf
  <2>2. \A n \in Mails \ {m} : Same(n)
    BY <1>1, <1>5, <1>6, <1>7, <2>1, OfParent
  <2>3. ~Served(m)'
    BY <1>3, <1>6, <2>1 DEF Served
  <2>4. MailOk(m)'
    <3>1. NamesOk(m)' /\ CallOk(m)'
      BY <1>t, <1>1, <1>6, <1>7, <2>1 DEF MailOk, NamesOk, CallOk
    <3>2. TalkOk(m)' /\ FoldOk(m)'
      BY <1>3, <1>6, <2>1, <2>3 DEF TalkOk, FoldOk
    <3>3. FileOk(m)'
      BY <1>t, <1>1, <1>6, <1>7, <2>1 DEF MailOk, FileOk
    <3>4. ListOk(m)'
      BY <1>t, <1>1, <1>6, <1>7 DEF MailOk, ListOk
    <3>5. LeftOk(m)'
      BY <1>t, <1>1, <1>6, <1>7, <2>1 DEF MailOk, LeftOk
    <3> QED
      BY <3>1, <3>2, <3>3, <3>4, <3>5 DEF MailOk
  <2> QED
    BY <1>1, <2>2, <2>4, OneMail
<1>8. CASE /\ listed' = [listed EXCEPT !["parent"] = @ \ {held[m], new[m]}]
           /\ files' = files \ Destroys(m)
           /\ Answer(m, failed, IF kind[m] = "rewrite" /\ ~failed THEN new[m] ELSE held[m])
  <2>1. /\ d.mail = m /\ d.error = failed /\ down' = IF reaped THEN down ELSE down \cup {d}
        /\ ~failed /\ kind[m] = "rewrite" => d.file = new[m]
        /\ d.file \in Of(m)
    BY <1>3, <1>4, <1>8 DEF Answer
  <2>2. failed <=> (job[m] = "failed" \/ (kind[m] = "rewrite" /\ new[m] \notin files))
    OBVIOUS
  <2> HIDE DEF d, failed
  <2>3. /\ DownOf(m)' \subseteq {d} /\ \A n \in Mails \ {m} : DownOf(n)' = DownOf(n)
    BY <1>3, <2>1 DEF DownOf
  <2>4. \A f : /\ f \in listed'["fetch"] <=> f \in listed["fetch"]
               /\ f \in listed'["parent"] <=> f \in listed["parent"] /\ f \notin {held[m], new[m]}
    BY <1>t, <1>8 DEF TypeOK
  <2>5. /\ Destroys(m) \subseteq {new[m]} /\ Destroys(m) \subseteq Of(m)
        /\ Destroys(m) # {} => new[m] \notin files'
        /\ kind[m] = "rewrite" /\ failed => new[m] \notin files'
        /\ ~failed => files' = files /\ (kind[m] = "rewrite" => new[m] \in files')
        /\ \A f \in files : f # new[m] \/ kind[m] # "rewrite" => f \in files'
        /\ files' \subseteq files
    BY <1>4, <1>8, <2>2 DEF Destroys
  <2>6. \A n \in Mails \ {m} : Same(n)
    <3> SUFFICES ASSUME NEW n \in Mails \ {m} PROVE Same(n)
      OBVIOUS
    <3>1. Of(m) \cap Of(n) = {}
      BY Names
    <3>2. \A f \in Of(n) : f \notin Destroys(m) /\ f \notin {held[m], new[m]}
      BY <1>3, <2>5, <3>1, Names
    <3> QED
      BY <1>1, <1>5, <1>6, <1>8, <2>3, <2>4, <3>2, OfParent
  <2>7. MailOk(m)'
    <3>1. NamesOk(m)'
      BY <1>t, <1>1, <1>6, <2>1, <2>3 DEF MailOk, NamesOk
    <3>2. CallOk(m)'
      BY <1>t, <1>1, <1>6 DEF MailOk, CallOk
    <3>3. TalkOk(m)'
      BY <1>1, <1>3, <1>6, <2>1, <2>3 DEF TalkOk
    <3>4. FoldOk(m)'
      BY <1>3, <1>6 DEF FoldOk
    <3>5. FileOk(m)'
      <4>1. fetch = "run" /\ About(m) => doing \notin Long
        BY <1>t, <1>3 DEF MailOk, CallOk, Kind
      <4>2. file[m] # None /\ file[m] \in files => file[m] \in files'
        BY <1>4, <2>5
      <4>3. \A e \in DownOf(m)' : ~e.error /\ at[m] = "rewrite" => e.file \in files'
        BY <1>3, <2>1, <2>3, <2>5
      <4> QED
        BY <1>t, <1>1, <1>6, <4>1, <4>2, <4>3 DEF MailOk, FileOk
    <3>6. ListOk(m)'
      BY <1>t, <1>1, <1>6, <2>4 DEF MailOk, ListOk
    <3>7. LeftOk(m)'
      <4> SUFFICES ASSUME ~setup.full, NEW f \in files' \cap Of(m)
                   PROVE  \/ f = file[m] /\ (fetch = "killed" => About(m))
                          \/ at[m] = "rewrite" /\ f = new[m] /\ ~failed
                          \/ About(m) /\ doing \in Long /\ f = doing[3]
        BY <1>1, <1>3, <1>6, <2>1, <2>3 DEF LeftOk
      <4>1. f \in files \cap Of(m)
        BY <2>5
      <4>2. f = new[m] /\ at[m] = "rewrite" => ~failed
        BY <1>3, <2>5
      <4> QED
        BY <1>t, <4>1, <4>2 DEF MailOk, LeftOk
    <3> QED
      BY <3>1, <3>2, <3>3, <3>4, <3>5, <3>6, <3>7 DEF MailOk
  <2> QED
    BY <1>1, <2>6, <2>7, OneMail
<1> QED
  BY <1>7, <1>8 DEF ParentDeliver

\* wait_children: nothing is under way to or from a fetch child that has gone.
LEMMA Waits ==
  ASSUME IInv, setup' = setup, WaitChildren
  PROVE  \A n \in Mails : MailOk(n)'
<1>1. /\ fetch \in Ended /\ up' = <<>> /\ down' = {}
      /\ UNCHANGED <<fetch, at, file, mapped, doing, files, folded, listed, job, held, new, kind>>
  BY DEF WaitChildren, fetchVars, diskVars
<1> SUFFICES ASSUME NEW m \in Mails PROVE MailOk(m)'
  OBVIOUS
<1>t. MailOk(m)
  BY DEF IInv
<1>2. UpOf(m)' = {} /\ DownOf(m)' = {}
  <2>1. <<>> \in Seq(Request) /\ Len(<<>>) = 0
    BY EmptySeq
  <2>2. DOMAIN up' = {}
    BY <1>1, <2>1, LenProperties
  <2> QED
    BY <1>1, <2>2 DEF UpOf, DownOf
<1>3. /\ Busy(m)' = Busy(m) /\ Of(m)' = Of(m) /\ About(m)' = About(m)
      /\ Served(m)' => Served(m)
  BY <1>1, <1>2 DEF Busy, Served, Of, About
<1>4. fetch \notin {"run", "freeing"}
  BY <1>1 DEF Ended
<1>5. NamesOk(m)' /\ CallOk(m)'
  BY <1>t, <1>1, <1>2, <1>3 DEF MailOk, NamesOk, CallOk
<1>6. TalkOk(m)' /\ FileOk(m)' /\ FoldOk(m)'
  BY <1>t, <1>1, <1>2, <1>3, <1>4 DEF MailOk, TalkOk, FileOk, FoldOk
<1>7. ListOk(m)'
  BY <1>t, <1>1, <1>3 DEF MailOk, ListOk
<1>8. LeftOk(m)'
  BY <1>t, <1>1, <1>2, <1>3, <1>4 DEF MailOk, LeftOk
<1> QED
  BY <1>5, <1>6, <1>7, <1>8 DEF MailOk

LEMMA MailStep ==
  ASSUME IInv, Next
  PROVE  \A n \in Mails : MailOk(n)'
<1>1. setup' = setup
  BY DEF Next
<1>2. ASSUME NEW m \in Mails,
             \/ MailOpen(m) \/ MatchMail(m) \/ MatchBlocked(m) \/ DeliverMail(m)
             \/ ResizeFails(m) \/ JobDone(m) \/ JobDies(m) \/ ParentDeliver(m)
      PROVE  \A n \in Mails : MailOk(n)'
  BY <1>1, <1>2, Opened, Matches, Blocked, Resizes, Jobs, Delivers
<1>3. ASSUME NEW d \in down, TakeAnswer(d) PROVE \A n \in Mails : MailOk(n)'
  BY <1>1, <1>3, Answered
<1>4. CASE Register \/ Deregister \/ Unlink \/ Reopen
  BY <1>1, <1>4, Registers, Deregisters, Unlinks, Reopens
<1>5. CASE FetchEnds \/ FetchFree \/ ChildExit \/ Term
  BY <1>1, <1>5, Frees, Freed, Destroyed, Terms
<1>6. CASE ParentFetch \/ ParentExit \/ WaitChildren
  BY <1>1, <1>6, Fetches, Frees, Waits
<1>7. CASE UNCHANGED vars
  <2>1. \A n \in Mails : UpOf(n)' = UpOf(n)
    BY <1>7 DEF vars, msgVars, UpOf
  <2> QED
    BY <1>1, <1>7, <2>1, NoMail DEF vars, fetchVars, diskVars, parentVars, msgVars
<1> QED
  BY <1>2, <1>3, <1>4, <1>5, <1>6, <1>7 DEF Next

-----------------------------------------------------------------------------
(* The theorems.                                                           *)

LEMMA Stutters ==
  ASSUME IInv, UNCHANGED vars
  PROVE  IInv'
<1> USE DEF vars, fetchVars, diskVars, parentVars, msgVars
<1>1. TypeInv' /\ LoopInv'
  BY DEF IInv, TypeInv, TypeOK, LoopInv
<1>2. \A n \in Mails : UpOf(n)' = UpOf(n)
  BY DEF UpOf
<1>3. \A n \in Mails : MailOk(n)'
  BY <1>2, NoMail
<1> QED
  BY <1>1, <1>3 DEF IInv

\* The invariant holds in every state the model reaches.
LEMMA Invariant == Spec => []IInv
<1>1. Init => IInv
  BY TypeInit, LoopInit, MailInit DEF IInv
<1>2. IInv /\ [Next]_vars => IInv'
  <2> SUFFICES ASSUME IInv, [Next]_vars PROVE IInv'
    OBVIOUS
  <2>1. CASE Next
    BY <2>1, TypeStep, LoopInvStep, MailStep DEF IInv
  <2>2. CASE UNCHANGED vars
    BY <2>2, Stutters
  <2> QED
    BY <2>1, <2>2
<1> QED
  BY <1>1, <1>2, PTL DEF Spec

\* Every variable keeps its type.
THEOREM TypeCorrect == Spec => []TypeOK
<1>1. IInv => TypeOK
  BY DEF IInv, TypeInv
<1> QED
  BY <1>1, Invariant, PTL

\* shm_destroy and the cleanup lists find what they remove, so that neither the
\* parent nor a fetch child dies of it while the disk has room (shm-mmap.c:151,
\* cleanup.c:139 and 42).
THEOREM RemovesFound == Spec => []RemovesWhatIsThere
<1>1. IInv => RemovesWhatIsThere
  BY DEF IInv, LoopInv, RemovesWhatIsThere
<1> QED
  BY <1>1, Invariant, PTL

\* mail_receive finds the file whose name it was sent, in the parent and in the
\* fetch child, as long as the fetch child is at work (mail.c:91, parent-fetch.c:52
\* and 69, mail-state.c:545).
THEOREM MailFound == Spec => []MailArrives
<1>1. IInv => MailArrives
  <2> SUFFICES ASSUME IInv, fetch = "run"
               PROVE  /\ \A i \in 1 .. Len(up) : up[i].file \in files
                      /\ \A d \in down : ~d.error /\ kind[d.mail] = "rewrite" => d.file \in files
                      /\ Part = "reopen" => doing[3] \in files
    BY DEF MailArrives
  <2>t. TypeInv /\ LoopInv
    BY DEF IInv
  <2>1. ASSUME NEW i \in 1 .. Len(up) PROVE up[i].file \in files
    <3>1. i \in DOMAIN up
      BY <2>t, LenProperties DEF TypeInv
    <3>2. up[i] \in Request
      BY <2>t, <3>1 DEF LoopInv
    <3>3. up[i].mail \in Mails /\ up[i] \in UpOf(up[i].mail)
      BY <3>1, <3>2, Sent DEF UpOf
    <3> QED
      BY <3>3, InQueue
  <2>2. ASSUME NEW d \in down, ~d.error, kind[d.mail] = "rewrite" PROVE d.file \in files
    <3>1. d.mail \in Mails /\ d \in DownOf(d.mail)
      BY <2>t DEF TypeInv, Reply, DownOf
    <3>2. MailOk(d.mail) /\ Served(d.mail)
      BY <2>2, <3>1 DEF IInv, Served
    <3> QED
      BY <2>2, <3>1, <3>2 DEF MailOk, TalkOk, FileOk
  <2>3. ASSUME Part = "reopen" PROVE doing[3] \in files
    <3>1. doing # None /\ doing[1] = "reopen"
      BY <2>3 DEF Part
    <3>2. doing \in Long /\ doing[2] \in Mails
      BY <2>t, <3>1, Shorts, Longs DEF TypeInv
    <3> QED
      BY <3>1, <3>2 DEF IInv, MailOk, FileOk, About
  <2> QED
    BY <2>1, <2>2, <2>3
<1> QED
  BY <1>1, Invariant, PTL

\* What is left behind when fdm has ended is the file of a rewrite nobody waited
\* for, or that of the mail a SIGTERM has caught the fetch child at (mail_destroy,
\* cleanup_purge, parent-deliver.c:60).
THEOREM NoneLeft == Spec => []NothingLeft
<1>1. IInv => NothingLeft
  <2> SUFFICES ASSUME IInv, Over, ~setup.full, NEW f \in files
               PROVE  \/ at[f[1]] = "rewrite" /\ f = new[f[1]]
                      \/ fetch = "killed" /\ doing # None /\ doing[2] = f[1]
    BY DEF NothingLeft
  <2>1. f[1] \in Mails /\ f \in Of(f[1]) /\ f # None
    BY Names DEF IInv, TypeInv, TypeOK
  <2>2. PICK m \in Mails : m = f[1]
    BY <2>1
  <2>3. MailOk(m)
    BY DEF IInv
  <2>4. fetch \in {"exited", "killed"}
    BY DEF IInv, LoopInv, Over, Ended
  <2>5. CASE fetch = "killed"
    BY <2>1, <2>2, <2>3, <2>5 DEF MailOk, LeftOk, About
  <2>6. CASE fetch = "exited"
    <3>1. doing = None /\ ~About(m)
      BY <2>6 DEF IInv, LoopInv, About
    <3>2. file[m] = None
      BY <2>3, <2>6, <3>1 DEF MailOk, ListOk
    <3> QED
      BY <2>1, <2>2, <2>3, <3>1, <3>2 DEF MailOk, LeftOk
  <2> QED
    BY <2>4, <2>5, <2>6
<1> QED
  BY <1>1, Invariant, PTL

\* No mail is unfolded while the deliver child of an action reads it, in the memory
\* the two share (mail-state.c:65, mail.c set_wrapped).
THEOREM FoldedRead == Spec => []ReadsFolded
<1>1. IInv => ReadsFolded
  BY DEF IInv, MailOk, FoldOk, Busy, ReadsFolded
<1> QED
  BY <1>1, Invariant, PTL

-----------------------------------------------------------------------------
(* The news handler: the invariant.                                        *)

\* What the handler or the cache file has of a group covers an article the server
\* has now; that article, with the numbering it belongs to.
HasSeen(e, g, n) == e.id = epoch[g] /\ n <= e.last
At(g, n) == [group |-> g, epoch |-> epoch[g], no |-> n]

\* Where the handler has the groups it has read from the cache file.
Working == {"group", "wait", "next", "article", "quit"}

\* A run begins with a group; the article that is about to be asked for is the one
\* noted as the last.
NotedInv ==
  /\ st = "connect" => group \in Group
  /\ st = "article" => groups[group] = [last |-> ptr, id |-> epoch[group]] /\ ptr >= 1

NewsTypeInv == NewsTypeOK /\ NotedInv

\* What is known of a group is of this numbering or of one before it, and not of an
\* article that is still to be posted.
KnownOk(f) ==
  \A g \in Group :
    /\ f[g].id <= epoch[g]
    /\ f[g].id = epoch[g] => f[g].last <= high[g]

\* A group has the articles from some number to the highest.
ServerInv ==
  \A g \in Group : \A n \in art[g] :
    n <= high[g] /\ (\A k \in n .. high[g] : k \in art[g])

\* Nothing has been committed or begun with before it was posted.
LogInv ==
  \A a \in committed \cup begun :
    /\ a.epoch <= epoch[a.group]
    /\ a.epoch = epoch[a.group] => a.no <= high[a.group]

\* The cache file covers what has been committed, of what the server has, but for
\* what was committed by when a file without groups was saved.
CacheInv ==
  \A g \in Group : \A n \in art[g] :
    At(g, n) \in committed \ forgotten => HasSeen(disk[g], g, n)

\* The handler's groups cover that, and what is in the loop.
GroupsInv ==
  st \in Working =>
    \A g \in Group : \A n \in art[g] :
      HasSeen(disk[g], g, n) \/ At(g, n) \in flight => HasSeen(groups[g], g, n)

\* What the handler has reached in its group, the server's current article is not
\* before; the article it is to ask for is a new one.
PlaceInv ==
  /\ st = "next" =>
       \A n \in art[group] : HasSeen(groups[group], group, n) => n <= ptr
  /\ st = "article" => This \in begun \ flight /\ This \notin committed \ forgotten

\* What a run holds: the articles in the loop and the one that is being fetched.
Under == flight \cup {a \in {This} : st = "article"}

\* An article the run has begun with it holds, unless it has been committed or has
\* expired.
BegunInv ==
  /\ flight \subseteq begun
  /\ st \in {"connect"} \cup NewsOver => flight = {}
  /\ st = "connect" => begun = {}
  /\ st \notin NewsOver => \A a \in begun \ committed : OnServer(a) => a \in Under

\* It holds no more than queue-high, and one less when the handler has finished.
CountInv ==
  /\ IsFiniteSet(flight) /\ Cardinality(flight) <= QueueHigh
  /\ st \in {"article", "complete"} => Cardinality(flight) <= QueueHigh - 1

FewInv == IsFiniteSet(PassedOver) /\ PassedOverAreFew

NewsInv ==
  /\ NewsTypeInv
  /\ KnownOk(disk) /\ KnownOk(groups) /\ ServerInv /\ LogInv
  /\ CacheInv /\ GroupsInv /\ PlaceInv /\ BegunInv /\ CountInv /\ FewInv
-----------------------------------------------------------------------------
(* The news handler: types.                                                *)

\* The article the handler is at is one of the server's, of this numbering.
LEMMA ThisArticle ==
  ASSUME NewsTypeInv, st = "article"
  PROVE  /\ This = At(group, ptr) /\ This \in Article
         /\ groups[group].id = epoch[group] /\ groups[group].last = ptr
<1>1. /\ groups[group] = [last |-> ptr, id |-> epoch[group]] /\ ptr >= 1
      /\ group \in Group /\ ptr \in 0 .. MaxNo /\ epoch[group] \in 0 .. MaxEpoch
  BY DEF NewsTypeInv, NewsTypeOK, NotedInv
<1>2. MaxNo \in Nat
  BY NntpAssumption
<1>3. ptr \in 1 .. MaxNo
  BY <1>1, <1>2
<1> QED BY <1>1, <1>3 DEF This, At, Article

\* What Save writes is a cache file.
LEMMA SavedType ==
  ASSUME NewsTypeInv, Save
  PROVE  disk' \in [Group -> Entry]
<1>1. Nothing \in Entry
  BY NntpAssumption DEF Nothing, Entry
<1> QED BY <1>1 DEF Save, NewsTypeInv, NewsTypeOK

\* The types, and the note of the article that is to be fetched, for any limit
\* of the queues.
LEMMA NewsTypeStep ==
  ASSUME NewsTypeInv, [NewsNext]_newsVars
  PROVE  NewsTypeInv'
<1> USE DEF NewsTypeInv, NewsTypeOK, NotedInv, NewsOver
<1>0. /\ Nothing \in Entry /\ NoGroups \in [Group -> Entry]
      /\ Last \in Nat \ {0} /\ MaxNo \in Nat /\ MaxEpoch \in Nat /\ 1 \in Group
  <2>1. Last \in Nat \ {0} /\ MaxNo \in Nat /\ MaxEpoch \in Nat
    BY NntpAssumption
  <2>2. Nothing \in Entry /\ 1 \in Group
    BY <2>1 DEF Nothing, Entry, Group
  <2> QED BY <2>1, <2>2 DEF NoGroups
<1>1. CASE Connect
  BY <1>1, <1>0 DEF Connect, Handler, serverVars, logVars, Group
<1>2. CASE Stat
  <2>1. group \in Group
    BY <1>2 DEF Stat, Handler
  <2>2. groups' \in [Group -> Entry]
    BY <1>2, <1>0, <2>1 DEF Stat, Handler, Reset
  <2>3. st' \in {"group", "wait", "next"}
    BY <1>2 DEF Stat, Reset
  <2>4. ptr' \in 0 .. MaxNo
    <3>1. art[group] \subseteq 0 .. MaxNo /\ 0 \in 0 .. MaxNo
      BY <2>1, <1>0
    <3> QED BY <3>1, <1>2 DEF Stat, Oldest
  <2> QED BY <1>2, <1>0, <2>1, <2>2, <2>3, <2>4 DEF Stat, Handler, serverVars, logVars
<1>3. CASE Wait
  <2>1. group \in Group
    BY <1>3 DEF Wait, Handler
  <2>2. groups' \in [Group -> Entry]
    BY <1>3, <1>0, <2>1 DEF Wait, Handler, Reset
  <2>3. st' \in {"group", "next"}
    BY <1>3 DEF Wait, Reset
  <2>4. ptr' \in 0 .. MaxNo
    BY <1>3, <2>1 DEF Wait, Reset, Entry
  <2> QED BY <1>3, <1>0, <2>1, <2>2, <2>3, <2>4 DEF Wait, Handler, serverVars, logVars
<1>4. CASE NextArticle
  <2>1. group \in Group /\ group \in 1 .. Last
    BY <1>4 DEF NextArticle, Handler, Group
  <2>2. UNCHANGED <<flight, disk, taken, committed, forgotten, serverVars, runs>>
    BY <1>4 DEF NextArticle, Handler
  <2>3. CASE Newer = {}
    <3>1. /\ group' = group + 1 /\ UNCHANGED <<groups, ptr, begun>>
          /\ st' = IF group' <= Last THEN "group" ELSE "quit"
      BY <1>4, <2>3 DEF NextArticle
    <3>2. group' \in 1 .. (Last + 1) /\ (group' <= Last => group' \in Group)
      BY <3>1, <2>1, <1>0 DEF Group
    <3> QED BY <3>1, <3>2, <2>2 DEF serverVars
  <2>4. CASE Newer # {}
    <3>1. PICK n \in Newer :
            /\ groups' = [groups EXCEPT ![group] = [last |-> n, id |-> epoch[group]]]
            /\ ptr' = n /\ st' = "article" /\ UNCHANGED group
            /\ begun' = begun \cup {This'}
      BY <1>4, <2>4 DEF NextArticle
    <3>2. n \in 1 .. MaxNo /\ epoch[group] \in 0 .. MaxEpoch
      BY <2>1 DEF Newer
    <3>3. [last |-> n, id |-> epoch[group]] \in Entry /\ n \in 0 .. MaxNo /\ n >= 1
      BY <3>2, <1>0 DEF Entry
    <3>4. This' \in Article
      BY <3>1, <3>2, <2>1, <2>2 DEF This, Article, serverVars
    <3> QED BY <3>1, <3>3, <3>4, <2>1, <2>2 DEF serverVars
  <2> QED BY <2>3, <2>4
<1>5. CASE Fetched
  <2>1. st = "article" /\ st' = "next" /\ group \in Group
    BY <1>5 DEF Fetched, Handler
  <2>2. This \in Article
    BY <2>1, ThisArticle
  <2>3. /\ UNCHANGED <<group, groups, ptr, serverVars, runs, begun>>
        /\ taken' = [taken EXCEPT ![This] = @ + 1]
    BY <1>5 DEF Fetched, Handler
  <2>4. taken' \in [Article -> Nat]
    BY <2>2, <2>3
  <2>5. disk' \in [Group -> Entry]
    BY <1>5, SavedType DEF Fetched
  <2>6. /\ flight' \subseteq Article /\ committed' \subseteq Article
        /\ forgotten' \subseteq Article
    BY <1>5, <2>2 DEF Fetched
  <2> QED BY <2>1, <2>3, <2>4, <2>5, <2>6 DEF serverVars
<1>6. CASE Skipped
  BY <1>6 DEF Skipped, Handler, serverVars, logVars
<1>7. CASE Quit
  BY <1>7, <1>0 DEF Quit, Handler, serverVars, logVars
<1>8. CASE Finish
  BY <1>8 DEF Finish, serverVars, logVars
<1>9. ASSUME NEW a \in flight, Commit(a) PROVE NewsTypeInv'
  <2>1. disk' \in [Group -> Entry]
    BY <1>9, SavedType DEF Commit
  <2>2. /\ flight' \subseteq Article /\ committed' \subseteq Article
        /\ forgotten' \subseteq Article
    BY <1>9 DEF Commit
  <2> QED BY <1>9, <2>1, <2>2 DEF Commit, serverVars
<1>10. CASE Stops
  BY <1>10, <1>0 DEF Stops, serverVars, logVars
<1>11. CASE Restart
  BY <1>11, <1>0 DEF Restart, serverVars, logVars
<1>12. CASE Posted
  <2>1. /\ art' \in [Group -> SUBSET (1 .. MaxNo)] /\ high' \in [Group -> 0 .. MaxNo]
        /\ UNCHANGED <<st, group, groups, ptr, flight, disk, epoch, runs, logVars>>
    BY <1>12, <1>0 DEF Posted
  <2> QED BY <2>1 DEF logVars
<1>13. CASE Expires
  <2>1. /\ art' \in [Group -> SUBSET (1 .. MaxNo)]
        /\ UNCHANGED <<st, group, groups, ptr, flight, disk, high, epoch, runs, logVars>>
    BY <1>13, <1>0 DEF Expires
  <2> QED BY <2>1 DEF logVars
<1>14. CASE Renumbered
  <2>1. /\ art' \in [Group -> SUBSET (1 .. MaxNo)] /\ high' \in [Group -> 0 .. MaxNo]
        /\ epoch' \in [Group -> 0 .. MaxEpoch] /\ st = "connect"
        /\ UNCHANGED <<st, group, groups, ptr, flight, disk, runs, logVars>>
    BY <1>14, <1>0 DEF Renumbered
  <2> QED BY <2>1 DEF logVars
<1>15. CASE UNCHANGED newsVars
  BY <1>15 DEF newsVars, serverVars, logVars
<1> QED BY <1>1, <1>2, <1>3, <1>4, <1>5, <1>6, <1>7, <1>8, <1>9, <1>10, <1>11, <1>12,
           <1>13, <1>14, <1>15 DEF NewsNext, HandlerStep, LoopStep, Rest

\* The types hold as fdm is started.
LEMMA NewsTypeInit ==
  ASSUME NewsInit
  PROVE  NewsTypeInv
<1>1. /\ NoGroups \in [Group -> Entry] /\ 1 \in 1 .. (Last + 1) /\ 0 \in 0 .. MaxNo
      /\ 0 \in 0 .. MaxEpoch /\ 1 \in Group
  BY NntpAssumption DEF Nothing, Entry, NoGroups, Group
<1> QED BY <1>1 DEF NewsInit, NewsTypeInv, NewsTypeOK, NotedInv, NewsOver

\* NewsTypeOK holds, for any limit of the queues: while a group is worked on there
\* is one, and an article is fetched with a number and an id a server can give.
THEOREM NewsTypeCorrect == NewsSpec => []NewsTypeOK
<1>1. NewsTypeInv => NewsTypeOK
  BY DEF NewsTypeInv
<1> QED BY <1>1, NewsTypeInit, NewsTypeStep, PTL DEF NewsSpec
-----------------------------------------------------------------------------
(* The news handler: the steps keep the invariant.                         *)

\* What the types say, for the steps below.
LEMMA NewsNumbers ==
  ASSUME NewsTypeInv
  PROVE  /\ Last \in Nat /\ MaxNo \in Nat /\ MaxEpoch \in Nat /\ Group = 1 .. Last
         /\ ptr \in Nat /\ 1 \in Group
         /\ \A g \in Group :
              /\ art[g] \in SUBSET (1 .. MaxNo) /\ high[g] \in Nat /\ epoch[g] \in Nat
              /\ groups[g].last \in Nat /\ groups[g].id \in Int
              /\ disk[g].last \in Nat /\ disk[g].id \in Int
<1>1. Last \in Nat \ {0} /\ MaxNo \in Nat /\ MaxEpoch \in Nat
  BY NntpAssumption
<1>2. ptr \in 0 .. MaxNo
  BY DEF NewsTypeInv, NewsTypeOK
<1>3. ASSUME NEW g \in Group
      PROVE  /\ art[g] \in SUBSET (1 .. MaxNo) /\ high[g] \in Nat /\ epoch[g] \in Nat
             /\ groups[g].last \in Nat /\ groups[g].id \in Int
             /\ disk[g].last \in Nat /\ disk[g].id \in Int
  <2>1. groups[g] \in Entry /\ disk[g] \in Entry
    BY DEF NewsTypeInv, NewsTypeOK
  <2>2. /\ groups[g].last \in Nat /\ groups[g].id \in Int
        /\ disk[g].last \in Nat /\ disk[g].id \in Int
    BY <2>1, <1>1 DEF Entry
  <2>3. /\ art[g] \in SUBSET (1 .. MaxNo) /\ high[g] \in 0 .. MaxNo
        /\ epoch[g] \in 0 .. MaxEpoch
    BY DEF NewsTypeInv, NewsTypeOK
  <2> QED BY <2>2, <2>3, <1>1
<1> QED BY <1>1, <1>2, <1>3 DEF Group

\* A group nothing is known of: nothing of it is covered.
LEMMA NothingSeen ==
  ASSUME NewsTypeInv
  PROVE  /\ \A g \in Group : ~(-1 = epoch[g]) /\ -1 <= epoch[g]
         /\ \A g \in Group : \A n : ~HasSeen(Nothing, g, n)
         /\ KnownOk(NoGroups)
<1>1. \A g \in Group : epoch[g] \in Nat
  BY NewsNumbers
<1>2. Nothing.id = -1
  BY DEF Nothing
<1>3. \A g \in Group : NoGroups[g] = Nothing
  BY DEF NoGroups
<1> QED BY <1>1, <1>2, <1>3 DEF HasSeen, KnownOk

\* What the run holds is counted.
LEMMA Counted ==
  ASSUME NewsInv
  PROVE  QueueHigh \in Nat /\ IsFiniteSet(flight) /\ Cardinality(flight) \in Nat
BY NntpAssumption, FS_CardinalityType DEF NewsInv, CountInv

\* Fewer are passed over than before.
LEMMA FewerStill ==
  ASSUME FewInv, PassedOver' \subseteq PassedOver
  PROVE  FewInv'
<1>1. IsFiniteSet(PassedOver') /\ Cardinality(PassedOver') <= Cardinality(PassedOver)
  BY FS_Subset DEF FewInv
<1>2. /\ Cardinality(PassedOver') \in Nat /\ Cardinality(PassedOver) \in Nat
      /\ QueueHigh \in Nat
  BY <1>1, FS_CardinalityType, NntpAssumption DEF FewInv
<1> QED BY <1>1, <1>2 DEF FewInv, PassedOverAreFew

\* Whatever the file that is saved covers, what is passed over is held.
LEMMA FewAreHeld ==
  ASSUME BegunInv', st' \notin NewsOver, QueueHigh \in Nat,
         IsFiniteSet(Under'), Cardinality(Under') <= QueueHigh - 1
  PROVE  FewInv'
<1>1. PassedOver' \subseteq Under'
  BY DEF BegunInv, PassedOver
<1>2. IsFiniteSet(PassedOver') /\ Cardinality(PassedOver') <= Cardinality(Under')
  BY <1>1, FS_Subset
<1>3. Cardinality(PassedOver') \in Nat /\ Cardinality(Under') \in Nat
  BY <1>2, FS_CardinalityType
<1> QED BY <1>2, <1>3 DEF FewInv, PassedOverAreFew

\* A step that leaves the server, the logs and the cache file alone.
LEMMA QuietStep ==
  ASSUME NewsInv, UNCHANGED <<serverVars, disk, committed, begun, forgotten>>
  PROVE  KnownOk(disk)' /\ ServerInv' /\ LogInv' /\ CacheInv' /\ FewInv'
<1>1. KnownOk(disk)' /\ ServerInv' /\ LogInv' /\ CacheInv'
  BY DEF NewsInv, KnownOk, ServerInv, LogInv, CacheInv, serverVars, HasSeen, At
<1>2. PassedOver' = PassedOver
  BY DEF PassedOver, OnServer, serverVars
<1> QED BY <1>1, <1>2, FewerStill DEF NewsInv

\* A step of the handler that begins with no article.
LEMMA MovesOn ==
  ASSUME NewsInv, UNCHANGED <<serverVars, disk, committed, begun, forgotten, flight>>,
         st \in {"group", "wait", "next"}, st' \in {"group", "wait", "next", "quit"}
  PROVE  /\ KnownOk(disk)' /\ ServerInv' /\ LogInv' /\ CacheInv' /\ FewInv'
         /\ BegunInv' /\ CountInv'
<1>1. Under = flight /\ Under' = flight'
  BY DEF Under
<1>2. BegunInv'
  BY <1>1 DEF NewsInv, BegunInv, OnServer, serverVars, NewsOver
<1>3. CountInv'
  BY DEF NewsInv, CountInv
<1> QED BY <1>2, <1>3, QuietStep

\* The cache file has been read: the groups are what it says.
LEMMA ConnectKeeps ==
  ASSUME NewsInv, Connect
  PROVE  NewsInv'
<1>1. NewsTypeInv'
  BY NewsTypeStep DEF NewsInv, NewsNext, HandlerStep
<1>2. /\ flight = {} /\ begun = {} /\ st' = "group" /\ groups' = disk
      /\ UNCHANGED <<serverVars, disk, committed, begun, forgotten, flight>>
  BY DEF Connect, Handler, NewsInv, BegunInv, logVars
<1>3. KnownOk(disk)' /\ ServerInv' /\ LogInv' /\ CacheInv' /\ FewInv'
  BY <1>2, QuietStep
<1>4. KnownOk(groups)'
  BY <1>2, <1>3 DEF KnownOk
<1>5. GroupsInv'
  BY <1>2 DEF GroupsInv, HasSeen
<1>6. PlaceInv' /\ BegunInv' /\ CountInv'
  BY <1>2 DEF PlaceInv, BegunInv, CountInv, NewsInv, NewsOver
<1> QED BY <1>1, <1>3, <1>4, <1>5, <1>6 DEF NewsInv

\* Reset, of a group the handler has nothing of: what it knew was of another
\* numbering.
LEMMA ResetKeeps ==
  ASSUME NewsInv, Reset, st \in {"group", "wait"}, group \in Group,
         groups[group].id # epoch[group],
         UNCHANGED <<serverVars, disk, flight>>
  PROVE  KnownOk(groups)' /\ GroupsInv' /\ PlaceInv'
<1>1. NewsTypeInv /\ groups \in [Group -> Entry]
  BY DEF NewsInv, NewsTypeInv, NewsTypeOK
<1>2. /\ groups'[group] = Nothing /\ st' = "group"
      /\ \A g \in Group : g # group => groups'[g] = groups[g]
  BY <1>1 DEF Reset
<1>3. UNCHANGED <<art, high, epoch, disk, flight>>
  BY DEF serverVars
<1>4. KnownOk(groups)'
  <2>1. SUFFICES ASSUME NEW g \in Group
                 PROVE  /\ groups'[g].id <= epoch[g]
                        /\ groups'[g].id = epoch[g] => groups'[g].last <= high[g]
    BY <1>3 DEF KnownOk
  <2>2. CASE g = group
    BY <2>2, <1>1, <1>2, NothingSeen DEF Nothing
  <2>3. CASE g # group
    BY <2>3, <1>2 DEF NewsInv, KnownOk
  <2> QED BY <2>2, <2>3
<1>5. GroupsInv'
  <2>1. SUFFICES ASSUME NEW g \in Group, NEW n \in art[g],
                        HasSeen(disk[g], g, n) \/ At(g, n) \in flight
                 PROVE  HasSeen(groups'[g], g, n)
    BY <1>2, <1>3 DEF GroupsInv, HasSeen, At
  <2>2. HasSeen(groups[g], g, n)
    BY <2>1 DEF NewsInv, GroupsInv, Working
  <2>3. g # group
    BY <2>2 DEF HasSeen
  <2> QED BY <2>2, <2>3, <1>2
<1>6. PlaceInv'
  BY <1>2 DEF PlaceInv
<1> QED BY <1>4, <1>5, <1>6

\* The handler keeps its groups, and has reached all that they cover.
LEMMA GroupsKept ==
  ASSUME NewsInv, st \in {"group", "wait"}, st' \in {"wait", "next"},
         UNCHANGED <<serverVars, disk, flight, group, groups>>,
         st' = "next" =>
           \A n \in art[group] : HasSeen(groups[group], group, n) => n <= ptr'
  PROVE  KnownOk(groups)' /\ GroupsInv' /\ PlaceInv'
<1>1. KnownOk(groups)'
  BY DEF NewsInv, KnownOk, serverVars
<1>2. GroupsInv'
  BY DEF NewsInv, GroupsInv, HasSeen, At, serverVars, Working
<1>3. PlaceInv'
  BY DEF PlaceInv, HasSeen, serverVars
<1> QED BY <1>1, <1>2, <1>3

\* The group is selected: what was known of it goes if its numbers were not given yet.
LEMMA StatKeeps ==
  ASSUME NewsInv, Stat
  PROVE  NewsInv'
<1>1. NewsTypeInv /\ NewsTypeInv'
  BY NewsTypeStep DEF NewsInv, NewsNext, HandlerStep
<1>2. /\ st = "group" /\ st' \in {"group", "wait", "next"}
      /\ UNCHANGED <<serverVars, disk, committed, begun, forgotten, flight, group>>
  BY DEF Stat, Handler, logVars, Reset
<1>3. /\ group \in Group /\ groups[group].last \in Nat /\ high[group] \in Nat
      /\ art[group] \subseteq 1 .. MaxNo /\ MaxNo \in Nat
  BY <1>1, <1>2, NewsNumbers DEF NewsTypeInv, NewsTypeOK
<1>4. KnownOk(groups)' /\ GroupsInv' /\ PlaceInv'
  <2>1. CASE groups[group].last > high[group]
    <3>1. groups[group].id # epoch[group]
      BY <2>1, <1>3 DEF NewsInv, KnownOk
    <3> QED BY <2>1, <3>1, <1>2, <1>3, ResetKeeps DEF Stat
  <2>2. CASE ~(groups[group].last > high[group])
    <3>1. /\ groups' = groups
          /\ st' = IF groups[group].last # 0 THEN "wait" ELSE "next"
      BY <2>2 DEF Stat
    <3>2. st' = "next" =>
            \A n \in art[group] : HasSeen(groups[group], group, n) => n <= ptr'
      BY <3>1, <1>3 DEF HasSeen
    <3> QED BY <3>1, <3>2, <1>2, GroupsKept
  <2> QED BY <2>1, <2>2
<1> QED BY <1>1, <1>2, <1>4, MovesOn DEF NewsInv

\* The last article is looked for: it is the current one, or nothing has been seen of
\* what the server has, or the group goes back to its beginning.
LEMMA WaitKeeps ==
  ASSUME NewsInv, Wait
  PROVE  NewsInv'
<1>1. NewsTypeInv /\ NewsTypeInv'
  BY NewsTypeStep DEF NewsInv, NewsNext, HandlerStep
<1>2. /\ st = "wait" /\ st' \in {"group", "next"}
      /\ UNCHANGED <<serverVars, disk, committed, begun, forgotten, flight, group>>
  BY DEF Wait, Handler, logVars, Reset
<1>3. /\ group \in Group /\ groups[group].last \in Nat /\ high[group] \in Nat
      /\ art[group] \subseteq 1 .. MaxNo /\ MaxNo \in Nat
  BY <1>1, <1>2, NewsNumbers DEF NewsTypeInv, NewsTypeOK
<1>4. KnownOk(groups)' /\ GroupsInv' /\ PlaceInv'
  <2>1. CASE groups[group].last \in art[group] /\ groups[group].id # epoch[group]
    <3>1. Reset
      BY <2>1 DEF Wait
    <3> QED BY <2>1, <3>1, <1>2, <1>3, ResetKeeps
  <2>2. CASE groups[group].last \notin art[group]
    <3>1. groups' = groups /\ st' = "next"
      BY <2>2 DEF Wait
    <3>2. ASSUME NEW n \in art[group], HasSeen(groups[group], group, n) PROVE FALSE
      <4>1. n \in 1 .. MaxNo
        BY <1>3
      <4>2. n <= groups[group].last /\ groups[group].id = epoch[group]
        BY <3>2 DEF HasSeen
      <4>3. groups[group].last <= high[group]
        BY <4>2, <1>3 DEF NewsInv, KnownOk
      <4>4. groups[group].last \in n .. high[group]
        BY <4>2, <4>3, <4>1, <1>3
      <4> QED BY <4>4, <2>2, <1>3 DEF NewsInv, ServerInv
    <3> QED BY <3>1, <3>2, <1>2, GroupsKept
  <2>3. CASE groups[group].last \in art[group] /\ groups[group].id = epoch[group]
    <3>1. groups' = groups /\ st' = "next" /\ ptr' = groups[group].last
      BY <2>3 DEF Wait
    <3>2. \A n \in art[group] : HasSeen(groups[group], group, n) => n <= ptr'
      BY <3>1 DEF HasSeen
    <3> QED BY <3>1, <3>2, <1>2, GroupsKept
  <2> QED BY <2>1, <2>2, <2>3
<1> QED BY <1>1, <1>2, <1>4, MovesOn DEF NewsInv

\* The article NEXT has given is one the run does not hold, that has not been committed
\* for good, and that the cache file does not cover.
LEMMA NextIsNew ==
  ASSUME NewsInv, st = "next", group \in Group, NEW n \in Newer
  PROVE  /\ n \in art[group] /\ n > ptr /\ n \in Nat /\ n <= high[group]
         /\ At(group, n) \notin flight /\ At(group, n) \notin committed \ forgotten
         /\ ~HasSeen(disk[group], group, n)
<1>1. NewsTypeInv /\ art[group] \subseteq 1 .. MaxNo /\ ptr \in Nat /\ MaxNo \in Nat
  BY NewsNumbers DEF NewsInv
<1>2. n \in art[group] /\ n > ptr /\ n \in Nat /\ n <= high[group]
  BY <1>1 DEF Newer, NewsInv, ServerInv
<1>3. ~HasSeen(groups[group], group, n)
  BY <1>1, <1>2 DEF NewsInv, PlaceInv
<1>4. ~HasSeen(disk[group], group, n) /\ At(group, n) \notin flight
  BY <1>2, <1>3 DEF NewsInv, GroupsInv, Working
<1>5. At(group, n) \notin committed \ forgotten
  BY <1>2, <1>4 DEF NewsInv, CacheInv
<1> QED BY <1>2, <1>4, <1>5

\* An article the server has next: those before it were reached already.
LEMMA NextKeeps ==
  ASSUME NewsInv, NextArticle
  PROVE  NewsInv'
<1>1. NewsTypeInv /\ NewsTypeInv'
  BY NewsTypeStep DEF NewsInv, NewsNext, HandlerStep
<1>2. /\ st = "next" /\ Cardinality(flight) < QueueHigh
      /\ UNCHANGED <<serverVars, disk, committed, forgotten, flight>>
  BY DEF NextArticle, Handler
<1>3. /\ group \in Group /\ high[group] \in Nat /\ ptr \in Nat /\ MaxNo \in Nat
      /\ art[group] \subseteq 1 .. MaxNo /\ groups \in [Group -> Entry]
      /\ epoch[group] \in Nat
  BY <1>1, <1>2, NewsNumbers DEF NewsTypeInv, NewsTypeOK
<1>4. UNCHANGED <<art, high, epoch>>
  BY <1>2 DEF serverVars
<1>5. CASE Newer = {}
  <2>1. UNCHANGED <<groups, begun>> /\ st' \in {"group", "quit"}
    BY <1>5 DEF NextArticle
  <2>2. KnownOk(groups)'
    BY <2>1, <1>4 DEF NewsInv, KnownOk
  <2>3. GroupsInv'
    BY <2>1, <1>2, <1>4 DEF NewsInv, GroupsInv, HasSeen, At, Working
  <2>4. PlaceInv'
    BY <2>1 DEF PlaceInv
  <2> QED BY <1>1, <1>2, <2>1, <2>2, <2>3, <2>4, MovesOn DEF NewsInv
<1>6. CASE Newer # {}
  <2>1. PICK n \in Newer :
          /\ \A k \in Newer : n <= k
          /\ groups' = [groups EXCEPT ![group] = [last |-> n, id |-> epoch[group]]]
          /\ ptr' = n /\ st' = "article" /\ UNCHANGED group
          /\ begun' = begun \cup {This'}
    BY <1>6 DEF NextArticle
  <2>2. /\ n \in art[group] /\ n > ptr /\ n \in Nat /\ n <= high[group]
        /\ At(group, n) \notin flight /\ At(group, n) \notin committed \ forgotten
        /\ ~HasSeen(disk[group], group, n)
    BY <1>2, <1>3, NextIsNew
  <2>3. /\ groups'[group] = [last |-> n, id |-> epoch[group]]
        /\ \A g \in Group : g # group => groups'[g] = groups[g]
    BY <2>1, <1>3
  <2>4. This' = At(group, n) /\ begun' = begun \cup {At(group, n)}
    BY <2>1, <2>3 DEF This, At
  <2>5. KnownOk(disk)' /\ ServerInv' /\ CacheInv'
    BY <1>2, <1>4 DEF NewsInv, KnownOk, ServerInv, CacheInv, HasSeen, At
  <2>6. KnownOk(groups)'
    <3>1. SUFFICES ASSUME NEW g \in Group
                   PROVE  /\ groups'[g].id <= epoch[g]
                          /\ groups'[g].id = epoch[g] => groups'[g].last <= high[g]
      BY <1>4 DEF KnownOk
    <3>2. CASE g = group
      BY <3>2, <2>2, <2>3, <1>3
    <3>3. CASE g # group
      BY <3>3, <2>3 DEF NewsInv, KnownOk
    <3> QED BY <3>2, <3>3
  <2>7. LogInv'
    <3>1. SUFFICES ASSUME NEW a \in committed \cup begun'
                   PROVE  /\ a.epoch <= epoch[a.group]
                          /\ a.epoch = epoch[a.group] => a.no <= high[a.group]
      BY <1>2, <1>4 DEF LogInv
    <3>2. CASE a \in committed \cup begun
      BY <3>2 DEF NewsInv, LogInv
    <3>3. CASE a = At(group, n)
      BY <3>3, <2>2, <1>3 DEF At
    <3> QED BY <3>1, <3>2, <3>3, <2>4
  <2>8. GroupsInv'
    <3>1. SUFFICES ASSUME NEW g \in Group, NEW k \in art[g],
                          HasSeen(disk[g], g, k) \/ At(g, k) \in flight
                   PROVE  HasSeen(groups'[g], g, k)
      BY <1>2, <1>4 DEF GroupsInv, HasSeen, At
    <3>2. HasSeen(groups[g], g, k)
      BY <3>1, <1>2 DEF NewsInv, GroupsInv, Working
    <3>3. CASE g = group
      <4>1. k <= ptr /\ k \in Nat
        BY <3>2, <3>3, <1>2, <1>3 DEF NewsInv, PlaceInv
      <4> QED BY <4>1, <3>3, <2>2, <2>3, <1>3 DEF HasSeen
    <3>4. CASE g # group
      BY <3>2, <3>4, <2>3
    <3> QED BY <3>3, <3>4
  <2>9. PlaceInv'
    BY <2>1, <2>2, <2>4, <1>2 DEF PlaceInv
  <2>10. BegunInv'
    <3>1. Under = flight /\ Under' = flight' \cup {This'}
      BY <1>2, <2>1 DEF Under
    <3>2. flight' \subseteq begun' /\ st' \notin NewsOver /\ st' # "connect"
      BY <2>1, <1>2 DEF NewsInv, BegunInv, NewsOver
    <3>3. \A a \in begun' \ committed' : OnServer(a)' => a \in Under'
      BY <3>1, <2>1, <1>2, <1>4 DEF NewsInv, BegunInv, OnServer, NewsOver
    <3> QED BY <3>2, <3>3 DEF BegunInv
  <2>11. CountInv'
    BY <1>2, <2>1, Counted DEF CountInv
  <2>12. PassedOver' \subseteq PassedOver
    <3>1. ~Covers(disk[group], At(group, n)) /\ At(group, n).group = group
      BY <2>2 DEF HasSeen, Covers, At
    <3> QED BY <3>1, <2>4, <1>2, <1>4 DEF PassedOver, OnServer
  <2> QED BY <1>1, <2>5, <2>6, <2>7, <2>8, <2>9, <2>10, <2>11, <2>12, FewerStill DEF NewsInv
<1> QED BY <1>5, <1>6

\* The file that is saved covers what the handler's groups cover.
LEMMA SavedCovers ==
  ASSUME NewsTypeInv, Save, KnownOk(groups), NEW g \in Group
  PROVE  /\ disk'[g].id <= epoch[g]
         /\ disk'[g].id = epoch[g] => disk'[g].last <= high[g]
         /\ \A n : HasSeen(disk'[g], g, n) <=> HasSeen(groups[g], g, n)
<1>1. disk'[g] = IF groups[g].id = -1 THEN Nothing ELSE groups[g]
  BY DEF Save
<1>2. CASE groups[g].id = -1
  BY <1>1, <1>2, NothingSeen DEF HasSeen, Nothing
<1>3. CASE groups[g].id # -1
  BY <1>1, <1>3 DEF KnownOk
<1> QED BY <1>2, <1>3

\* A commit while the handler has its groups: the file covers what is in the loop and
\* what was covered.
LEMMA SaveKeeps ==
  ASSUME NewsInv, Save, st \in Working, NEW a,
         \A g \in Group : \A n \in art[g] :
           At(g, n) = a => HasSeen(groups[g], g, n),
         committed' = committed \cup {a}, forgotten' = forgotten \ {a},
         UNCHANGED <<art, high, epoch>>
  PROVE  KnownOk(disk)' /\ CacheInv'
<1>1. NewsTypeInv /\ KnownOk(groups)
  BY DEF NewsInv
<1>2. KnownOk(disk)'
  BY <1>1, SavedCovers DEF KnownOk
<1>3. CacheInv'
  <2>1. SUFFICES ASSUME NEW g \in Group, NEW n \in art[g],
                        At(g, n) \in committed' \ forgotten'
                 PROVE  HasSeen(disk'[g], g, n)
    BY DEF CacheInv, HasSeen, At
  <2>2. At(g, n) \in committed \ forgotten => HasSeen(groups[g], g, n)
    BY DEF NewsInv, CacheInv, GroupsInv
  <2>3. HasSeen(groups[g], g, n)
    BY <2>1, <2>2
  <2> QED BY <2>3, <1>1, SavedCovers
<1> QED BY <1>2, <1>3

\* An article is fetched: the loop gets it, or, if it is oversize, it is committed.
LEMMA FetchedKeeps ==
  ASSUME NewsInv, Fetched
  PROVE  NewsInv'
<1>1. NewsTypeInv /\ NewsTypeInv'
  BY NewsTypeStep DEF NewsInv, NewsNext, HandlerStep
<1>2. /\ st = "article" /\ st' = "next" /\ Cardinality(flight) < QueueHigh
      /\ UNCHANGED <<serverVars, group, groups, ptr, begun>>
  BY DEF Fetched, Handler
<1>3. UNCHANGED <<art, high, epoch>>
  BY <1>2 DEF serverVars
<1>4. /\ This = At(group, ptr) /\ groups[group].id = epoch[group]
      /\ groups[group].last = ptr
  BY <1>1, <1>2, ThisArticle
<1>5. /\ group \in Group /\ ptr \in Nat /\ This \in begun \ flight
      /\ art[group] \subseteq 1 .. MaxNo /\ MaxNo \in Nat
  BY <1>1, <1>2, NewsNumbers DEF NewsTypeInv, NewsTypeOK, NewsInv, PlaceInv
<1>6. KnownOk(groups)' /\ ServerInv'
  BY <1>2, <1>3 DEF NewsInv, KnownOk, ServerInv
<1>7. LogInv'
  BY <1>2, <1>3, <1>5 DEF Fetched, NewsInv, LogInv
<1>8. PlaceInv'
  BY <1>2, <1>3, <1>4 DEF PlaceInv, HasSeen
<1>9. ASSUME NEW g \in Group, NEW n \in art[g], At(g, n) = This
      PROVE  HasSeen(groups[g], g, n)
  <2>1. g = group /\ n = ptr
    BY <1>4, <1>9 DEF At
  <2> QED BY <2>1, <1>4, <1>5 DEF HasSeen
<1>10. ASSUME NEW g \in Group, NEW n \in art[g],
              HasSeen(disk[g], g, n) \/ At(g, n) \in flight
       PROVE  HasSeen(groups[g], g, n)
  BY <1>2, <1>10 DEF NewsInv, GroupsInv, Working
<1>11. Under = flight \cup {This} /\ Under' = flight'
  BY <1>2 DEF Under
<1>12. CASE flight' = flight \cup {This} /\ UNCHANGED <<disk, committed, forgotten>>
  <2>1. KnownOk(disk)' /\ CacheInv' /\ FewInv'
    BY <1>12, <1>2, QuietStep
  <2>2. GroupsInv'
    BY <1>12, <1>2, <1>3, <1>9, <1>10 DEF GroupsInv, HasSeen, At
  <2>3. BegunInv'
    BY <1>12, <1>2, <1>3, <1>5, <1>11 DEF NewsInv, BegunInv, OnServer, NewsOver
  <2>4. CountInv'
    <3>1. /\ IsFiniteSet(flight \cup {This})
          /\ Cardinality(flight \cup {This}) = Cardinality(flight) + 1
      BY <1>5, Counted, FS_AddElement
    <3> QED BY <3>1, <1>12, <1>2, Counted DEF CountInv
  <2> QED BY <1>1, <1>6, <1>7, <1>8, <2>1, <2>2, <2>3, <2>4 DEF NewsInv
<1>13. CASE /\ Save /\ UNCHANGED flight
            /\ committed' = committed \cup {This} /\ forgotten' = forgotten \ {This}
  <2>1. KnownOk(disk)' /\ CacheInv'
    BY <1>13, <1>2, <1>3, <1>9, SaveKeeps DEF Working
  <2>2. GroupsInv'
    <3>1. SUFFICES ASSUME NEW g \in Group, NEW n \in art[g],
                          HasSeen(disk'[g], g, n) \/ At(g, n) \in flight
                   PROVE  HasSeen(groups[g], g, n)
      BY <1>13, <1>2, <1>3 DEF GroupsInv, HasSeen, At
    <3>2. HasSeen(disk'[g], g, n) <=> HasSeen(groups[g], g, n)
      BY <1>13, <1>1, SavedCovers DEF NewsInv
    <3> QED BY <3>1, <3>2, <1>10
  <2>3. BegunInv'
    BY <1>13, <1>2, <1>3, <1>11 DEF NewsInv, BegunInv, OnServer, NewsOver
  <2>4. CountInv'
    BY <1>13, <1>2 DEF NewsInv, CountInv
  <2>5. IsFiniteSet(Under') /\ Cardinality(Under') <= QueueHigh - 1
    BY <1>13, <1>2, <1>11, Counted
  <2>6. FewInv'
    BY <2>3, <2>5, <1>2, Counted, FewAreHeld DEF NewsOver
  <2> QED BY <1>1, <1>6, <1>7, <1>8, <2>1, <2>2, <2>3, <2>4, <2>6 DEF NewsInv
<1> QED BY <1>12, <1>13 DEF Fetched

\* The article has expired before it was asked for: it is covered and never fetched.
LEMMA SkippedKeeps ==
  ASSUME NewsInv, Skipped
  PROVE  NewsInv'
<1>1. NewsTypeInv /\ NewsTypeInv'
  BY NewsTypeStep DEF NewsInv, NewsNext, HandlerStep
<1>2. /\ st = "article" /\ st' = "next" /\ ptr \notin art[group]
      /\ UNCHANGED <<serverVars, disk, committed, begun, forgotten, flight, group, groups,
                     ptr>>
  BY DEF Skipped, Handler, logVars
<1>3. KnownOk(disk)' /\ ServerInv' /\ LogInv' /\ CacheInv' /\ FewInv'
  BY <1>2, QuietStep
<1>4. UNCHANGED <<art, high, epoch>>
  BY <1>2 DEF serverVars
<1>5. /\ groups[group].id = epoch[group] /\ groups[group].last = ptr
      /\ This = At(group, ptr)
  BY <1>1, <1>2, ThisArticle
<1>6. KnownOk(groups)'
  BY <1>2, <1>4 DEF NewsInv, KnownOk
<1>7. GroupsInv'
  BY <1>2, <1>4 DEF NewsInv, GroupsInv, HasSeen, At, Working
<1>8. PlaceInv'
  BY <1>2, <1>4, <1>5 DEF PlaceInv, HasSeen
<1>9. BegunInv'
  <2>1. Under = flight \cup {This} /\ Under' = flight
    BY <1>2 DEF Under
  <2>2. ~OnServer(This)
    BY <1>2, <1>5 DEF OnServer, At
  <2> QED BY <2>1, <2>2, <1>2, <1>4 DEF NewsInv, BegunInv, OnServer, NewsOver
<1>10. CountInv'
  BY <1>2 DEF NewsInv, CountInv
<1> QED BY <1>1, <1>3, <1>6, <1>7, <1>8, <1>9, <1>10 DEF NewsInv

\* Steps after which the handler has no groups.
LEMMA NoGroupsStep ==
  ASSUME NewsInv, NewsTypeInv', UNCHANGED <<serverVars, disk, committed, begun, forgotten>>,
         groups' = NoGroups, st' \in {"complete"} \cup NewsOver, BegunInv', CountInv'
  PROVE  NewsInv'
<1>1. KnownOk(disk)' /\ ServerInv' /\ LogInv' /\ CacheInv' /\ FewInv'
  BY QuietStep
<1>2. NewsTypeInv /\ UNCHANGED <<art, high, epoch>>
  BY DEF NewsInv, serverVars
<1>3. KnownOk(groups)'
  BY <1>2, NothingSeen DEF KnownOk
<1>4. GroupsInv'
  BY DEF GroupsInv, Working, NewsOver
<1>5. PlaceInv'
  BY DEF PlaceInv, NewsOver
<1> QED BY <1>1, <1>3, <1>4, <1>5 DEF NewsInv

\* QUIT has been answered: the loop may still hold articles.
LEMMA QuitKeeps ==
  ASSUME NewsInv, Quit
  PROVE  NewsInv'
<1>1. NewsTypeInv'
  BY NewsTypeStep DEF NewsInv, NewsNext, HandlerStep
<1>2. /\ st = "quit" /\ st' = "complete" /\ groups' = NoGroups
      /\ Cardinality(flight) < QueueHigh
      /\ UNCHANGED <<serverVars, disk, committed, begun, forgotten, flight>>
  BY DEF Quit, Handler, logVars
<1>3. Under = flight /\ Under' = flight
  BY <1>2 DEF Under
<1>4. BegunInv'
  BY <1>2, <1>3 DEF NewsInv, BegunInv, OnServer, serverVars, NewsOver
<1>5. CountInv'
  BY <1>2, Counted DEF NewsInv, CountInv
<1> QED BY <1>1, <1>2, <1>4, <1>5, NoGroupsStep

\* The run is cut short.
LEMMA StopsKeeps ==
  ASSUME NewsInv, Stops
  PROVE  NewsInv'
<1>1. NewsTypeInv'
  BY NewsTypeStep DEF NewsInv, NewsNext
<1>2. /\ st' = "aborted" /\ flight' = {} /\ groups' = NoGroups
      /\ UNCHANGED <<serverVars, disk, committed, begun, forgotten>>
  BY DEF Stops, logVars
<1>3. BegunInv'
  BY <1>2 DEF BegunInv, NewsOver
<1>4. CountInv'
  BY <1>2, FS_EmptySet, NntpAssumption DEF CountInv
<1> QED BY <1>1, <1>2, <1>3, <1>4, NoGroupsStep DEF NewsOver

\* The loop ends with nothing in it.
LEMMA FinishKeeps ==
  ASSUME NewsInv, Finish
  PROVE  NewsInv'
<1>1. NewsTypeInv'
  BY NewsTypeStep DEF NewsInv, NewsNext, LoopStep
<1>2. /\ UNCHANGED <<serverVars, disk, committed, begun, forgotten, groups, flight>>
      /\ st' = "done" /\ flight = {}
  BY DEF Finish, logVars
<1>3. KnownOk(disk)' /\ ServerInv' /\ LogInv' /\ CacheInv' /\ FewInv'
  BY <1>2, QuietStep
<1>4. KnownOk(groups)'
  BY <1>2 DEF NewsInv, KnownOk, serverVars
<1>5. GroupsInv' /\ PlaceInv' /\ BegunInv'
  BY <1>2 DEF GroupsInv, PlaceInv, BegunInv, Working, NewsOver
<1>6. CountInv'
  BY <1>2 DEF NewsInv, CountInv
<1> QED BY <1>1, <1>3, <1>4, <1>5, <1>6 DEF NewsInv

\* The next run begins.
LEMMA RestartKeeps ==
  ASSUME NewsInv, Restart
  PROVE  NewsInv'
<1>1. NewsTypeInv /\ NewsTypeInv'
  BY NewsTypeStep DEF NewsInv, NewsNext
<1>2. /\ st \in NewsOver /\ st' = "connect" /\ groups' = NoGroups /\ begun' = {}
      /\ flight = {}
      /\ UNCHANGED <<serverVars, disk, committed, forgotten, flight>>
  BY DEF Restart, NewsInv, BegunInv
<1>3. KnownOk(disk)' /\ ServerInv' /\ LogInv' /\ CacheInv'
  BY <1>2 DEF NewsInv, KnownOk, ServerInv, LogInv, CacheInv, serverVars, HasSeen, At
<1>4. KnownOk(groups)'
  BY <1>1, <1>2, NothingSeen DEF KnownOk, serverVars
<1>5. GroupsInv' /\ PlaceInv' /\ BegunInv'
  BY <1>2 DEF GroupsInv, PlaceInv, BegunInv, Working, NewsOver
<1>6. CountInv'
  BY <1>2 DEF NewsInv, CountInv
<1>7. PassedOver' \subseteq PassedOver
  BY <1>2 DEF PassedOver
<1> QED BY <1>1, <1>3, <1>4, <1>5, <1>6, <1>7, FewerStill DEF NewsInv

\* An article is committed: the cache file is saved, with the groups as they were
\* noted or, after QUIT, without any.
LEMMA CommitKeeps ==
  ASSUME NewsInv, NEW a \in flight, Commit(a)
  PROVE  NewsInv'
<1>1. NewsTypeInv /\ NewsTypeInv'
  BY NewsTypeStep DEF NewsInv, NewsNext, LoopStep
<1>2. /\ flight' = flight \ {a} /\ committed' = committed \cup {a} /\ Save
      /\ forgotten' = IF st = "complete" THEN committed' ELSE forgotten \ {a}
      /\ UNCHANGED <<st, group, groups, ptr, art, high, epoch, begun>>
  BY DEF Commit, serverVars
<1>3. st \in Working \cup {"complete"} /\ st \notin NewsOver /\ a \in begun
  BY <1>1 DEF Commit, NewsTypeInv, NewsTypeOK, NewsInv, BegunInv, Working, NewsOver
<1>4. KnownOk(groups)' /\ ServerInv' /\ LogInv'
  BY <1>2, <1>3 DEF NewsInv, KnownOk, ServerInv, LogInv
<1>5. KnownOk(disk)' /\ CacheInv'
  <2>1. CASE st = "complete"
    <3>1. KnownOk(disk)'
      BY <1>1, <1>2, SavedCovers DEF NewsInv, KnownOk
    <3>2. CacheInv'
      BY <2>1, <1>2 DEF CacheInv
    <3> QED BY <3>1, <3>2
  <2>2. CASE st # "complete"
    <3>1. \A g \in Group : \A n \in art[g] : At(g, n) = a => HasSeen(groups[g], g, n)
      BY <2>2, <1>3 DEF NewsInv, GroupsInv
    <3>2. st \in Working /\ forgotten' = forgotten \ {a}
      BY <2>2, <1>2, <1>3
    <3> QED BY <3>1, <3>2, <1>2, SaveKeeps
  <2> QED BY <2>1, <2>2
<1>6. GroupsInv'
  <2>1. SUFFICES ASSUME st \in Working, NEW g \in Group, NEW n \in art[g],
                        HasSeen(disk'[g], g, n) \/ At(g, n) \in flight
                 PROVE  HasSeen(groups[g], g, n)
    BY <1>2 DEF GroupsInv, HasSeen, At
  <2>2. HasSeen(disk'[g], g, n) <=> HasSeen(groups[g], g, n)
    BY <1>1, <1>2, SavedCovers DEF NewsInv
  <2> QED BY <2>1, <2>2 DEF NewsInv, GroupsInv
<1>7. This' = This
  BY <1>2 DEF This
<1>8. PlaceInv'
  BY <1>2, <1>7 DEF NewsInv, PlaceInv, HasSeen
<1>9. BegunInv'
  BY <1>2, <1>3, <1>7 DEF NewsInv, BegunInv, Under, OnServer
<1>10. /\ IsFiniteSet(flight') /\ Cardinality(flight') = Cardinality(flight) - 1
       /\ Cardinality(flight') \in Nat
  BY <1>2, Counted, FS_RemoveElement, FS_CardinalityType
<1>11. CountInv'
  BY <1>2, <1>10, Counted DEF NewsInv, CountInv
<1>12. IsFiniteSet(Under') /\ Cardinality(Under') <= QueueHigh - 1
  <2>1. CASE st = "article"
    <3>1. Under' = flight' \cup {This} /\ This \notin flight'
      BY <2>1, <1>2, <1>7 DEF Under, NewsInv, PlaceInv
    <3>2. IsFiniteSet(Under') /\ Cardinality(Under') = Cardinality(flight') + 1
      BY <3>1, <1>10, FS_AddElement
    <3> QED BY <3>2, <2>1, <1>10, Counted DEF NewsInv, CountInv
  <2>2. CASE st # "article"
    <3>1. Under' = flight'
      BY <2>2, <1>2 DEF Under
    <3> QED BY <3>1, <1>10, Counted DEF NewsInv, CountInv
  <2> QED BY <2>1, <2>2
<1>13. FewInv'
  BY <1>2, <1>3, <1>9, <1>12, Counted, FewAreHeld
<1> QED BY <1>1, <1>4, <1>5, <1>6, <1>8, <1>9, <1>11, <1>13 DEF NewsInv

\* An article is posted: it comes after all that is known, begun and committed.
LEMMA PostedKeeps ==
  ASSUME NewsInv, Posted
  PROVE  NewsInv'
<1>1. NewsTypeInv /\ NewsTypeInv'
  BY NewsTypeStep DEF NewsInv, NewsNext
<1>2. UNCHANGED <<st, group, groups, ptr, flight, disk, epoch, committed, begun, forgotten>>
  BY DEF Posted, logVars
<1>3. PICK p \in Group :
        /\ high' = [high EXCEPT ![p] = @ + 1]
        /\ art' = [art EXCEPT ![p] = @ \cup {high[p] + 1}]
  BY DEF Posted
<1>4. /\ high[p] \in Nat /\ MaxNo \in Nat /\ \A g \in Group : high[g] \in Nat
      /\ \A g \in Group : art[g] \subseteq 1 .. MaxNo
  BY <1>1, NewsNumbers
<1>5. /\ high'[p] = high[p] + 1 /\ art'[p] = art[p] \cup {high[p] + 1}
      /\ \A g \in Group : g # p => high'[g] = high[g] /\ art'[g] = art[g]
  BY <1>1, <1>3 DEF NewsTypeInv, NewsTypeOK
<1>6. \A g \in Group : high[g] <= high'[g] /\ high'[g] \in Nat
  BY <1>4, <1>5
<1>7. KnownOk(disk)' /\ KnownOk(groups)'
  <2>1. ASSUME NEW g \in Group
        PROVE  /\ disk[g].id = epoch[g] => disk[g].last <= high'[g]
               /\ groups[g].id = epoch[g] => groups[g].last <= high'[g]
    <3>1. /\ disk[g].last \in Nat /\ groups[g].last \in Nat /\ high[g] \in Nat
          /\ high'[g] \in Nat /\ high[g] <= high'[g]
      BY <1>1, <1>4, <1>6, NewsNumbers
    <3>2. /\ disk[g].id = epoch[g] => disk[g].last <= high[g]
          /\ groups[g].id = epoch[g] => groups[g].last <= high[g]
      BY DEF NewsInv, KnownOk
    <3> QED BY <3>1, <3>2
  <2> QED BY <2>1, <1>2 DEF NewsInv, KnownOk
<1>8. ServerInv'
  <2>1. SUFFICES ASSUME NEW g \in Group, NEW n \in art'[g]
                 PROVE  n <= high'[g] /\ (\A k \in n .. high'[g] : k \in art'[g])
    BY DEF ServerInv
  <2>2. CASE g = p /\ n = high[p] + 1
    BY <2>2, <1>4, <1>5
  <2>3. CASE g = p /\ n # high[p] + 1
    <3>1. n \in art[p] /\ n \in Nat
      BY <2>3, <1>4, <1>5
    <3>2. n <= high[p] /\ (\A k \in n .. high[p] : k \in art[p])
      BY <3>1 DEF NewsInv, ServerInv
    <3>3. ASSUME NEW k \in n .. (high[p] + 1) PROVE k \in art[p] \cup {high[p] + 1}
      <4>1. k \in n .. high[p] \/ k = high[p] + 1
        BY <3>1, <1>4
      <4> QED BY <4>1, <3>2
    <3> QED BY <2>3, <3>1, <3>2, <3>3, <1>4, <1>5
  <2>4. CASE g # p
    BY <2>4, <1>5 DEF NewsInv, ServerInv
  <2> QED BY <2>2, <2>3, <2>4
<1>9. ASSUME NEW a \in committed \cup begun
      PROVE  /\ a.epoch <= epoch[a.group]
             /\ a.epoch = epoch[a.group] => a.no <= high[a.group]
             /\ a.group \in Group /\ a.no \in Nat
  <2>1. a \in Article
    BY <1>1 DEF NewsTypeInv, NewsTypeOK
  <2> QED BY <2>1, <1>4 DEF Article, NewsInv, LogInv
<1>10. LogInv'
  <2>1. SUFFICES ASSUME NEW a \in committed \cup begun
                 PROVE  /\ a.epoch <= epoch[a.group]
                        /\ a.epoch = epoch[a.group] => a.no <= high'[a.group]
    BY <1>2 DEF LogInv
  <2>2. /\ a.group \in Group /\ a.no \in Nat /\ a.epoch <= epoch[a.group]
        /\ a.epoch = epoch[a.group] => a.no <= high[a.group]
    BY <1>9
  <2>3. high[a.group] <= high'[a.group] /\ high[a.group] \in Nat /\ high'[a.group] \in Nat
    BY <2>2, <1>4, <1>6
  <2> QED BY <2>2, <2>3
<1>11. /\ At(p, high[p] + 1) \notin committed \cup begun
       /\ At(p, high[p] + 1) \notin flight
       /\ ~HasSeen(disk[p], p, high[p] + 1) /\ ~HasSeen(groups[p], p, high[p] + 1)
  <2>1. disk[p].last \in Nat /\ groups[p].last \in Nat
    BY <1>1, NewsNumbers
  <2>2. ~(high[p] + 1 <= high[p])
    BY <1>4
  <2>3. At(p, high[p] + 1) \notin committed \cup begun
    BY <2>2 DEF NewsInv, LogInv, At
  <2>4. /\ disk[p].id = epoch[p] => disk[p].last <= high[p]
        /\ groups[p].id = epoch[p] => groups[p].last <= high[p]
    BY DEF NewsInv, KnownOk
  <2> QED BY <2>1, <2>3, <2>4, <1>4 DEF HasSeen, NewsInv, BegunInv
<1>12. CacheInv'
  <2>1. SUFFICES ASSUME NEW g \in Group, NEW n \in art'[g],
                        At(g, n) \in committed \ forgotten
                 PROVE  HasSeen(disk[g], g, n)
    BY <1>2 DEF CacheInv, HasSeen, At
  <2>2. n \in art[g] \/ (g = p /\ n = high[p] + 1)
    BY <1>5
  <2> QED BY <2>1, <2>2, <1>11 DEF NewsInv, CacheInv
<1>13. GroupsInv'
  <2>1. SUFFICES ASSUME st \in Working, NEW g \in Group, NEW n \in art'[g],
                        HasSeen(disk[g], g, n) \/ At(g, n) \in flight
                 PROVE  HasSeen(groups[g], g, n)
    BY <1>2 DEF GroupsInv, HasSeen, At
  <2>2. n \in art[g] \/ (g = p /\ n = high[p] + 1)
    BY <1>5
  <2> QED BY <2>1, <2>2, <1>11 DEF NewsInv, GroupsInv
<1>14. PlaceInv'
  <2>1. ASSUME st = "next", NEW n \in art'[group], HasSeen(groups[group], group, n)
        PROVE  n <= ptr
    <3>1. group \in Group
      BY <2>1, <1>1 DEF NewsTypeInv, NewsTypeOK
    <3>2. n \in art[group]
      BY <2>1, <3>1, <1>5, <1>11
    <3> QED BY <2>1, <3>2 DEF NewsInv, PlaceInv
  <2>2. This' = This
    BY <1>2 DEF This
  <2> QED BY <2>1, <2>2, <1>2 DEF NewsInv, PlaceInv, HasSeen
<1>15. ASSUME NEW a \in begun, OnServer(a)'
       PROVE  OnServer(a)
  <2>1. /\ a.epoch = epoch[a.group] /\ a.no \in art'[a.group] /\ a.group \in Group
        /\ a.no \in Nat /\ a.no <= high[a.group]
    BY <1>15, <1>2, <1>9 DEF OnServer
  <2>2. ~(a.group = p /\ a.no = high[p] + 1)
    BY <2>1, <1>4
  <2> QED BY <2>1, <2>2, <1>5 DEF OnServer
<1>16. BegunInv'
  <2>1. Under' = Under
    BY <1>2 DEF Under, This
  <2> QED BY <2>1, <1>2, <1>15 DEF NewsInv, BegunInv
<1>17. CountInv'
  BY <1>2 DEF NewsInv, CountInv
<1>18. PassedOver' \subseteq PassedOver
  BY <1>2, <1>15 DEF PassedOver
<1> QED BY <1>1, <1>7, <1>8, <1>10, <1>12, <1>13, <1>14, <1>16, <1>17, <1>18, FewerStill
        DEF NewsInv

\* The oldest article of a group expires.
LEMMA ExpiresKeeps ==
  ASSUME NewsInv, Expires
  PROVE  NewsInv'
<1>1. NewsTypeInv /\ NewsTypeInv'
  BY NewsTypeStep DEF NewsInv, NewsNext
<1>2. UNCHANGED <<st, group, groups, ptr, flight, disk, high, epoch, committed, begun,
                  forgotten>>
  BY DEF Expires, logVars
<1>3. PICK p \in Group : \E n \in art[p] :
        /\ \A k \in art[p] : n <= k
        /\ art' = [art EXCEPT ![p] = @ \ {n}]
  BY DEF Expires
<1>4. PICK x \in art[p] :
        /\ \A k \in art[p] : x <= k
        /\ art' = [art EXCEPT ![p] = @ \ {x}]
  BY <1>3
<1>5. /\ \A g \in Group : art[g] \subseteq 1 .. MaxNo
      /\ \A g \in Group : high[g] \in Nat
      /\ MaxNo \in Nat
  BY <1>1, NewsNumbers
<1>6. /\ art'[p] = art[p] \ {x}
      /\ \A g \in Group : g # p => art'[g] = art[g]
      /\ \A g \in Group : art'[g] \subseteq art[g]
  BY <1>1, <1>4 DEF NewsTypeInv, NewsTypeOK
<1>7. KnownOk(disk)' /\ KnownOk(groups)' /\ LogInv'
  BY <1>2 DEF NewsInv, KnownOk, LogInv
<1>8. ServerInv'
  <2>1. SUFFICES ASSUME NEW g \in Group, NEW n \in art'[g], NEW k \in n .. high[g]
                 PROVE  n <= high[g] /\ k \in art'[g]
    BY <1>2, <1>6 DEF ServerInv, NewsInv
  <2>2. n \in art[g] /\ n \in Nat /\ n <= high[g] /\ k \in art[g]
    BY <1>5, <1>6 DEF NewsInv, ServerInv
  <2>3. ASSUME g = p PROVE k # x
    <3>1. x <= n /\ n # x /\ n <= k /\ k \in Int /\ x \in Nat
      BY <2>2, <2>3, <1>4, <1>5, <1>6
    <3> QED BY <3>1, <2>2
  <2> QED BY <2>2, <2>3, <1>6
<1>9. CacheInv'
  BY <1>2, <1>6 DEF NewsInv, CacheInv, HasSeen, At
<1>10. GroupsInv'
  BY <1>2, <1>6 DEF NewsInv, GroupsInv, HasSeen, At
<1>11. PlaceInv'
  <2>1. st = "next" => group \in Group
    BY <1>1 DEF NewsTypeInv, NewsTypeOK
  <2>2. st = "next" => \A n \in art'[group] : n \in art[group]
    BY <2>1, <1>6
  <2> QED BY <2>2, <1>2 DEF NewsInv, PlaceInv, HasSeen, This
<1>12. ASSUME NEW a \in begun, OnServer(a)'
       PROVE  OnServer(a)
  <2>1. a \in Article
    BY <1>1 DEF NewsTypeInv, NewsTypeOK
  <2> QED BY <2>1, <1>12, <1>2, <1>6 DEF OnServer, Article
<1>13. BegunInv'
  <2>1. Under' = Under
    BY <1>2 DEF Under, This
  <2> QED BY <2>1, <1>2, <1>12 DEF NewsInv, BegunInv
<1>14. CountInv'
  BY <1>2 DEF NewsInv, CountInv
<1>15. PassedOver' \subseteq PassedOver
  BY <1>2, <1>12 DEF PassedOver
<1> QED BY <1>1, <1>7, <1>8, <1>9, <1>10, <1>11, <1>13, <1>14, <1>15, FewerStill DEF NewsInv

\* A group is numbered afresh: what is known of it is of an earlier numbering.
LEMMA RenumberedKeeps ==
  ASSUME NewsInv, Renumbered
  PROVE  NewsInv'
<1>1. NewsTypeInv /\ NewsTypeInv'
  BY NewsTypeStep DEF NewsInv, NewsNext
<1>2. /\ UNCHANGED <<st, group, groups, ptr, flight, disk, committed, begun, forgotten>>
      /\ st = "connect" /\ flight = {} /\ begun = {}
  BY DEF Renumbered, logVars, NewsInv, BegunInv
<1>3. PICK p \in Group :
        /\ epoch' = [epoch EXCEPT ![p] = @ + 1]
        /\ art' = [art EXCEPT ![p] = {}] /\ high' = [high EXCEPT ![p] = 0]
  BY DEF Renumbered
<1>4. /\ epoch'[p] = epoch[p] + 1 /\ art'[p] = {} /\ epoch[p] \in Nat
      /\ \A g \in Group : g # p =>
           epoch'[g] = epoch[g] /\ art'[g] = art[g] /\ high'[g] = high[g]
  BY <1>1, <1>3, NewsNumbers DEF NewsTypeInv, NewsTypeOK
<1>5. ASSUME NEW f, KnownOk(f), \A g \in Group : f[g].id \in Int
      PROVE  \A g \in Group : /\ f[g].id <= epoch'[g]
                              /\ f[g].id = epoch'[g] => f[g].last <= high'[g]
  <2>1. SUFFICES ASSUME NEW g \in Group
                 PROVE  /\ f[g].id <= epoch'[g]
                        /\ f[g].id = epoch'[g] => f[g].last <= high'[g]
    OBVIOUS
  <2>2. CASE g = p
    <3>1. f[p].id <= epoch[p] /\ f[p].id \in Int
      BY <1>5 DEF KnownOk
    <3> QED BY <2>2, <3>1, <1>4
  <2>3. CASE g # p
    BY <2>3, <1>4, <1>5 DEF KnownOk
  <2> QED BY <2>2, <2>3
<1>6. KnownOk(disk)' /\ KnownOk(groups)'
  <2>1. \A g \in Group : disk[g].id \in Int /\ groups[g].id \in Int
    BY <1>1, NewsNumbers
  <2>2. KnownOk(disk)'
    BY <2>1, <1>2, <1>5 DEF NewsInv, KnownOk
  <2>3. KnownOk(groups)'
    BY <2>1, <1>2, <1>5 DEF NewsInv, KnownOk
  <2> QED BY <2>2, <2>3
<1>7. ServerInv'
  BY <1>4 DEF NewsInv, ServerInv
<1>8. LogInv'
  <2>1. SUFFICES ASSUME NEW a \in committed
                 PROVE  /\ a.epoch <= epoch'[a.group]
                        /\ a.epoch = epoch'[a.group] => a.no <= high'[a.group]
    BY <1>2 DEF LogInv
  <2>2. /\ a.epoch <= epoch[a.group]
        /\ a.epoch = epoch[a.group] => a.no <= high[a.group]
    BY DEF NewsInv, LogInv
  <2>3. a \in Article /\ MaxEpoch \in Nat
    BY <1>1, NewsNumbers DEF NewsTypeInv, NewsTypeOK
  <2>4. a.group \in Group /\ a.epoch \in Nat
    BY <2>3 DEF Article
  <2>5. CASE a.group = p
    BY <2>2, <2>4, <2>5, <1>4
  <2>6. CASE a.group # p
    BY <2>2, <2>4, <2>6, <1>4
  <2> QED BY <2>5, <2>6
<1>9. CacheInv'
  BY <1>2, <1>4 DEF NewsInv, CacheInv, HasSeen, At
<1>10. GroupsInv' /\ PlaceInv' /\ BegunInv'
  BY <1>2 DEF GroupsInv, PlaceInv, BegunInv, Working, NewsOver
<1>11. CountInv'
  BY <1>2 DEF NewsInv, CountInv
<1>12. PassedOver' \subseteq PassedOver
  BY <1>2 DEF PassedOver
<1> QED BY <1>1, <1>6, <1>7, <1>8, <1>9, <1>10, <1>11, <1>12, FewerStill DEF NewsInv

\* Every step keeps the invariant.
LEMMA NewsStep ==
  ASSUME NewsInv, [NewsNext]_newsVars
  PROVE  NewsInv'
<1>1. CASE UNCHANGED newsVars
  BY <1>1 DEF newsVars, serverVars, logVars, NewsInv, NewsTypeInv, NewsTypeOK, NotedInv,
       KnownOk, ServerInv, LogInv, CacheInv, GroupsInv, PlaceInv, BegunInv, CountInv, FewInv,
       PassedOverAreFew, PassedOver, OnServer, Under, This, HasSeen, At
<1> QED BY <1>1, ConnectKeeps, StatKeeps, WaitKeeps, NextKeeps, FetchedKeeps, SkippedKeeps,
           QuitKeeps, StopsKeeps, RestartKeeps, FinishKeeps, CommitKeeps, PostedKeeps,
           ExpiresKeeps, RenumberedKeeps
        DEF NewsNext, HandlerStep, LoopStep, Rest

\* It holds as fdm is started for the first time, with no cache file.
LEMMA NewsStart ==
  ASSUME NewsInit
  PROVE  NewsInv
<1>1. NewsTypeInv
  BY NewsTypeInit
<1>2. /\ st = "connect" /\ groups = NoGroups /\ disk = NoGroups /\ flight = {}
      /\ committed = {} /\ begun = {} /\ \A g \in Group : art[g] = {}
  BY DEF NewsInit
<1>3. KnownOk(groups) /\ KnownOk(disk)
  BY <1>1, <1>2, NothingSeen
<1>4. ServerInv /\ LogInv /\ CacheInv /\ GroupsInv /\ PlaceInv /\ BegunInv
  BY <1>2 DEF ServerInv, LogInv, CacheInv, GroupsInv, PlaceInv, BegunInv, Working, NewsOver
<1>5. CountInv
  BY <1>2, FS_EmptySet, NntpAssumption DEF CountInv
<1>6. PassedOver = {}
  BY <1>2 DEF PassedOver
<1>7. FewInv
  BY <1>6, FS_EmptySet, NntpAssumption DEF FewInv, PassedOverAreFew
<1> QED BY <1>1, <1>3, <1>4, <1>5, <1>7 DEF NewsInv

\* Whatever the limit of the queues: of what a run has begun with, the cache file covers
\* fewer than queue-high articles that nobody has been given, however the run ends.
THEOREM FewArePassedOver == NewsSpec => []PassedOverAreFew
<1>1. NewsInv => PassedOverAreFew
  BY DEF NewsInv, FewInv
<1> QED BY <1>1, NewsStart, NewsStep, PTL DEF NewsSpec

\* What has been committed is not fetched again, whatever the limit of the queues, also
\* after a run that was cut short, and when its group is numbered afresh between two
\* runs, until a commit after QUIT saves a cache file without any group.
THEOREM CommittedStay == NewsSpec => CommittedNotFetchedAgain
<1>1. ASSUME NewsInv, [NewsNext]_newsVars
      PROVE  [\A a \in committed \ forgotten : taken'[a] = taken[a]]_newsVars
  <2>1. CASE Fetched
    <3>1. st = "article" /\ taken' = [taken EXCEPT ![This] = @ + 1]
      BY <2>1 DEF Fetched, Handler
    <3>2. This \notin committed \ forgotten
      BY <1>1, <3>1 DEF NewsInv, PlaceInv
    <3>3. taken \in [Article -> Nat] /\ committed \subseteq Article
      BY <1>1 DEF NewsInv, NewsTypeInv, NewsTypeOK
    <3> QED BY <3>1, <3>2, <3>3
  <2>2. CASE UNCHANGED taken
    BY <2>2
  <2>3. Fetched \/ UNCHANGED taken
    BY <1>1 DEF NewsNext, HandlerStep, LoopStep, Rest, newsVars, logVars, Connect, Stat,
         Wait, NextArticle, Skipped, Quit, Finish, Commit, Stops, Restart, Posted, Expires,
         Renumbered
  <2> QED BY <2>1, <2>2, <2>3
<1> QED BY <1>1, NewsStart, NewsStep, PTL DEF NewsSpec, CommittedNotFetchedAgain

\* With queue-high 1 nothing of either is lost: no article is passed over, and no commit
\* comes after QUIT, so that what is committed is never fetched again.
THEOREM OneAtATime ==
  ASSUME QueueHigh = 1
  PROVE  NewsSpec => [](NoneIsPassedOver /\ forgotten = {})
<1> DEFINE Kept == forgotten = {}
<1>1. NewsInv => NoneIsPassedOver
  <2>1. SUFFICES ASSUME NewsInv PROVE PassedOver = {}
    BY DEF NoneIsPassedOver
  <2>2. IsFiniteSet(PassedOver) /\ Cardinality(PassedOver) <= 0
    BY <2>1 DEF NewsInv, FewInv, PassedOverAreFew
  <2>3. Cardinality(PassedOver) = 0
    BY <2>2, FS_CardinalityType
  <2> QED BY <2>2, <2>3, FS_EmptySet
<1>2. NewsInit => Kept
  BY DEF NewsInit
<1>3. ASSUME NewsInv, Kept, [NewsNext]_newsVars PROVE Kept'
  <2>1. ASSUME NEW a \in flight, Commit(a) PROVE Kept'
    <3>1. CASE st = "complete"
      <4>1. IsFiniteSet(flight) /\ Cardinality(flight) <= 0
        BY <1>3, <3>1 DEF NewsInv, CountInv
      <4>2. flight = {}
        BY <4>1, FS_CardinalityType, FS_EmptySet
      <4> QED BY <4>2, <2>1
    <3>2. CASE st # "complete"
      BY <1>3, <2>1, <3>2 DEF Commit
    <3> QED BY <3>1, <3>2
  <2>2. CASE Fetched
    BY <1>3, <2>2 DEF Fetched
  <2>3. \/ \E a \in flight : Commit(a)
        \/ Fetched
        \/ UNCHANGED forgotten
    BY <1>3 DEF NewsNext, HandlerStep, LoopStep, Rest, newsVars, logVars, Connect, Stat,
         Wait, NextArticle, Skipped, Quit, Finish, Stops, Restart, Posted, Expires, Renumbered
  <2> QED BY <1>3, <2>1, <2>2, <2>3
<1> QED BY <1>1, <1>2, <1>3, NewsStart, NewsStep, PTL DEF NewsSpec
=============================================================================

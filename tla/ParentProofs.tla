----------------------------- MODULE ParentProofs -----------------------------
(***************************************************************************)
(* Proofs about the parent and its children, for any accounts, any number  *)
(* of requests and whatever may happen: no deliver child is left behind by *)
(* its fetch child, and none of any kind by the parent.                    *)
(*                                                                         *)
(* That every child has a number of its own takes a count of the requests: *)
(* those a fetch child has sent are its deliver children and the messages  *)
(* still to be handled.                                                    *)
(***************************************************************************)
EXTENDS Parent, FiniteSetTheorems, FunctionTheorems, TLAPS

-----------------------------------------------------------------------------
(* The invariant.                                                          *)

\* What a child of this kind says to the parent.
Speaks(c) == IF IsFetch(c) THEN {"action", "exit"} ELSE {"done", "tags"}

\* While the parent serves them, its array holds the children that have been
\* started and not been waited for.
KinInv ==
  /\ \A c \in children : proc[c] \notin {None, "reaped"}
  /\ Served => \A c \in Child : proc[c] \notin {None, "reaped"} => c \in children
  /\ pc = "waiting" => children = {}
  /\ NoOrphans
  /\ NothingLeft

Silent(c) == buf[c] = <<>> /\ up[c] = <<>>

\* What the sockets of a child carry: nothing before it is started, nothing
\* from a deliver child at work, and no end of a fetch child at work.
SocketsOk(c) ==
  /\ buf[c] \in Seq(Speaks(c)) /\ up[c] \in Seq(Speaks(c)) /\ down[c] \in Seq(Message)
  /\ proc[c] = None => Silent(c) /\ down[c] = <<>>
  /\ proc[c] = "run" =>
       IF IsFetch(c)
       THEN buf[c] \in Seq({"action"}) /\ up[c] \in Seq({"action"}) /\ down[c] \in Seq({"done"})
       ELSE Silent(c)

SocketInv ==
  /\ actaq \subseteq DOMAIN world.jobs
  /\ \A a \in actaq : proc[Fetch(a)] = None
  /\ \A a \in Account : proc[Fetch(a)] # None => a \in DOMAIN world.jobs
  /\ \A c \in Child : SocketsOk(c)

Count(s, m) == Cardinality({i \in DOMAIN s : s[i] = m})

\* The requests of a fetch child that have not been handled, the answers it has
\* not read, and the deliver children that have not been answered for.
Requests(a) == Count(buf[Fetch(a)], "action") + Count(up[Fetch(a)], "action")
Answers(a)  == Count(down[Fetch(a)], "done")
Unanswered(a) ==
  {c \in Jobs(a) : \/ proc[c] = "run"
                   \/ Count(buf[c], "done") > 0 \/ Count(up[c], "done") > 0}

\* The deliver children of an account are numbered without a gap; with the
\* requests still to be handled, or with these and the answers, they are no
\* more than was asked.
CountOk(a) ==
  /\ Jobs(a) = {<<a, k>> : k \in 1 .. Cardinality(Jobs(a))}
  /\ Cardinality(Jobs(a)) + Requests(a) <= asked[a]
  /\ Requests(a) + Cardinality(Unanswered(a)) + Answers(a) + answered[a] <= asked[a]
  /\ a \in DOMAIN world.jobs => asked[a] <= world.jobs[a]

CountInv == \A a \in Account : CountOk(a)

IInv == TypeOK /\ KinInv /\ SocketInv /\ CountInv

-----------------------------------------------------------------------------
(* Counting in sequences.                                                  *)

LEMMA CountType ==
  ASSUME NEW S, NEW s \in Seq(S), NEW m
  PROVE  IsFiniteSet({i \in DOMAIN s : s[i] = m}) /\ Count(s, m) \in Nat
<1>1. DOMAIN s = 1 .. Len(s) /\ IsFiniteSet(1 .. Len(s))
  BY FS_Interval
<1>2. {i \in DOMAIN s : s[i] = m} \in SUBSET (1 .. Len(s))
  BY <1>1
<1> HIDE DEF Count
<1>3. IsFiniteSet({i \in DOMAIN s : s[i] = m})
  BY <1>1, <1>2, FS_Subset, Zenon
<1> QED
  BY <1>3, FS_CardinalityType DEF Count

LEMMA CountEmpty == ASSUME NEW m PROVE Count(<<>>, m) = 0
<1>1. {i \in DOMAIN <<>> : <<>>[i] = m} = {}
  OBVIOUS
<1> QED
  BY <1>1, FS_EmptySet DEF Count

LEMMA CountNone ==
  ASSUME NEW S, NEW s \in Seq(S), NEW m, m \notin S
  PROVE  Count(s, m) = 0
<1>1. {i \in DOMAIN s : s[i] = m} = {}
  OBVIOUS
<1> QED
  BY <1>1, FS_EmptySet DEF Count

LEMMA CountHead ==
  ASSUME NEW S, NEW s \in Seq(S), s # <<>>
  PROVE  Count(s, Head(s)) > 0
<1>1. 1 \in {i \in DOMAIN s : s[i] = Head(s)}
  OBVIOUS
<1>2. IsFiniteSet({i \in DOMAIN s : s[i] = Head(s)}) /\ Count(s, Head(s)) \in Nat
  BY CountType
<1> QED
  BY <1>1, <1>2, FS_EmptySet DEF Count

\* A sequence put behind another adds what it holds.
LEMMA CountConcat ==
  ASSUME NEW S, NEW s \in Seq(S), NEW t \in Seq(S), NEW m
  PROVE  Count(s \o t, m) = Count(s, m) + Count(t, m)
<1> DEFINE A == {i \in DOMAIN s : s[i] = m}
           B == {i \in DOMAIN t : t[i] = m}
           C == {i \in (Len(s) + 1) .. (Len(s) + Len(t)) : t[i - Len(s)] = m}
           f == [i \in B |-> i + Len(s)]
<1>1. IsFiniteSet(A) /\ IsFiniteSet(B)
  BY CountType
<1>2. f \in Bijection(B, C)
  <2>1. f \in [B -> C]
    OBVIOUS
  <2>2. \A i, j \in B : f[i] = f[j] => i = j
    OBVIOUS
  <2>3. \A k \in C : \E i \in B : f[i] = k
    <3> SUFFICES ASSUME NEW k \in C PROVE \E i \in B : f[i] = k
      OBVIOUS
    <3>1. k - Len(s) \in B /\ f[k - Len(s)] = k
      OBVIOUS
    <3> QED
      BY <3>1
  <2> QED
    BY <2>1, <2>2, <2>3, Fun_IsBij
<1>3. IsFiniteSet(C) /\ Cardinality(C) = Cardinality(B)
  <2>1. ExistsBijection(B, C)
    BY <1>2 DEF ExistsBijection
  <2> HIDE DEF B, C
  <2> QED
    BY <1>1, <2>1, FS_Bijection
<1>4. A \cap C = {}
  OBVIOUS
<1>5. {i \in DOMAIN (s \o t) : (s \o t)[i] = m} = A \cup C
  OBVIOUS
<1>6. Cardinality(A \cup C) = Cardinality(A) + Cardinality(C) - Cardinality(A \cap C)
  <2> HIDE DEF A, C
  <2> QED
    BY <1>1, <1>3, FS_Union
<1>7. Cardinality(A) \in Nat /\ Cardinality(C) \in Nat
  BY <1>1, <1>3, FS_CardinalityType
<1>8. /\ Count(s, m) = Cardinality(A) /\ Count(t, m) = Cardinality(B)
      /\ Count(s \o t, m) = Cardinality(A \cup C)
  <2> HIDE DEF A, B, C
  <2>1. A = {i \in DOMAIN s : s[i] = m} /\ B = {i \in DOMAIN t : t[i] = m}
    BY DEF A, B
  <2> QED
    BY <1>5, <2>1 DEF Count
<1>9. Cardinality(A \cap C) = 0
  BY <1>4, FS_EmptySet
<1> HIDE DEF A, B, C
<1> QED
  BY <1>3, <1>6, <1>7, <1>8, <1>9

LEMMA CountOne ==
  ASSUME NEW e, NEW m
  PROVE  Count(<<e>>, m) = IF e = m THEN 1 ELSE 0
<1>1. CASE e = m
  <2>1. {i \in DOMAIN <<e>> : <<e>>[i] = m} = {1}
    BY <1>1
  <2>2. Cardinality({1}) = 1
    <3>1. Cardinality({} \cup {1}) = Cardinality({}) + 1
      BY FS_EmptySet, FS_AddElement
    <3>2. {} \cup {1} = {1}
      OBVIOUS
    <3> QED
      BY <3>1, <3>2, FS_EmptySet
  <2> QED
    BY <1>1, <2>1, <2>2 DEF Count
<1>2. CASE e # m
  <2>1. {i \in DOMAIN <<e>> : <<e>>[i] = m} = {}
    BY <1>2
  <2> QED
    BY <1>2, <2>1, FS_EmptySet DEF Count
<1> QED
  BY <1>1, <1>2

LEMMA CountAppend ==
  ASSUME NEW S, NEW s \in Seq(S), NEW e \in S, NEW m
  PROVE  Count(Append(s, e), m) = Count(s, m) + IF e = m THEN 1 ELSE 0
<1>1. Append(s, e) = s \o <<e>> /\ <<e>> \in Seq(S)
  OBVIOUS
<1>2. Count(s \o <<e>>, m) = Count(s, m) + Count(<<e>>, m)
  BY <1>1, CountConcat
<1> QED
  BY <1>1, <1>2, CountOne

LEMMA CountTail ==
  ASSUME NEW S, NEW s \in Seq(S), s # <<>>, NEW m
  PROVE  Count(s, m) = Count(Tail(s), m) + IF Head(s) = m THEN 1 ELSE 0
<1>1. s = <<Head(s)>> \o Tail(s) /\ <<Head(s)>> \in Seq(S) /\ Tail(s) \in Seq(S)
  OBVIOUS
<1>2. Count(<<Head(s)>> \o Tail(s), m) = Count(<<Head(s)>>, m) + Count(Tail(s), m)
  BY <1>1, CountConcat
<1>3. Count(Tail(s), m) \in Nat
  BY <1>1, CountType
<1>4. Count(<<Head(s)>>, m) = IF Head(s) = m THEN 1 ELSE 0
  BY CountOne
<1>5. Count(s, m) = Count(<<Head(s)>>, m) + Count(Tail(s), m)
  BY <1>1, <1>2
<1> QED
  BY <1>3, <1>4, <1>5

-----------------------------------------------------------------------------
(* Children.                                                               *)

LEMMA Kinds ==
  /\ \A a \in Account : /\ Fetch(a) \in Child /\ IsFetch(Fetch(a))
                        /\ Fetch(a)[1] = a /\ Owner(Fetch(a)) = Fetch(a)
                        /\ Speaks(Fetch(a)) = {"action", "exit"}
  /\ \A c \in Child : /\ c[1] \in Account /\ Owner(c) = Fetch(c[1])
                      /\ Owner(c) \in Child /\ IsFetch(Owner(c))
                      /\ IsFetch(c) => c = Fetch(c[1])
                      /\ ~IsFetch(c) => c # Owner(c) /\ Speaks(c) = {"done", "tags"}
                      /\ Speaks(c) \subseteq Message
  /\ NoChild \notin Child
BY ParentAssumption DEF Fetch, Child, IsFetch, Owner, NoChild, Speaks, Message

LEMMA Worldly ==
  ASSUME TypeOK
  PROVE  /\ world.jobs \in [DOMAIN world.jobs -> 0 .. MaxJobs]
         /\ DOMAIN world.jobs \subseteq Account
         /\ world.accts \in Nat
<1>1. world \in WorldType
  BY ParentAssumption DEF TypeOK
<1> QED
  BY <1>1 DEF WorldType

LEMMA JobsFinite ==
  ASSUME NEW a \in Account
  PROVE  IsFiniteSet(Jobs(a)) /\ Cardinality(Jobs(a)) \in Nat
<1>1. Jobs(a) \in SUBSET ({a} \X (0 .. MaxJobs))
  BY DEF Jobs, Child
<1>2. IsFiniteSet({a})
  BY FS_EmptySet, FS_AddElement, {a} = {} \cup {a}
<1>3. IsFiniteSet({a} \X (0 .. MaxJobs))
  <2>1. IsFiniteSet(0 .. MaxJobs)
    BY FS_Interval, ParentAssumption
  <2> QED
    BY <1>2, <2>1, FS_Product
<1> QED
  BY <1>1, <1>3, FS_Subset, FS_CardinalityType

\* A request comes from a fetch child that lives or is not waited for, and its
\* deliver child gets a number that is not in use.
LEMMA Requested ==
  ASSUME IInv, NEW c \in children, Received(c, "action")
  PROVE  /\ c \in Child /\ c = Fetch(c[1]) /\ proc[c] \notin {None, "reaped"}
         /\ LET new == <<c[1], Cardinality(Jobs(c[1])) + 1>>
            IN  new \in Child /\ ~IsFetch(new) /\ new[1] = c[1] /\ proc[new] = None
<1> DEFINE a == c[1]
           n == Cardinality(Jobs(a))
<1>1. c \in Child /\ a \in Account
  BY Kinds DEF IInv, TypeOK
<1>2. buf[c] \in Seq(Speaks(c)) /\ buf[c] # <<>> /\ Head(buf[c]) = "action"
  BY <1>1 DEF IInv, SocketInv, SocketsOk, Received, Ready
<1>3. "action" \in Speaks(c)
  BY <1>2
<1>4. c = Fetch(a)
  BY <1>1, <1>3, Kinds DEF Speaks
<1>5. proc[c] \notin {None, "reaped"}
  BY DEF IInv, KinInv
<1>6. a \in DOMAIN world.jobs
  BY <1>1, <1>4, <1>5 DEF IInv, SocketInv
<1>7. asked[a] <= MaxJobs /\ asked[a] \in Nat
  BY <1>1, <1>6, Worldly, ParentAssumption DEF IInv, CountInv, CountOk, TypeOK
<1>8. Count(buf[c], "action") > 0 /\ Count(buf[c], "action") \in Nat
  BY <1>2, CountHead, CountType
<1>9. Count(up[c], "action") \in Nat
  BY <1>1, CountType DEF IInv, SocketInv, SocketsOk
<1>10. n \in Nat
  BY <1>1, JobsFinite
<1>11. n + 1 <= asked[a]
  BY <1>1, <1>4, <1>7, <1>8, <1>9, <1>10 DEF IInv, CountInv, CountOk, Requests
<1>12. <<a, n + 1>> \in Child /\ ~IsFetch(<<a, n + 1>>)
  <2>1. n + 1 \in 0 .. MaxJobs /\ n + 1 # 0
    BY <1>7, <1>10, <1>11, ParentAssumption
  <2> QED
    BY <1>1, <2>1 DEF Child, IsFetch
<1>13. proc[<<a, n + 1>>] = None
  <2> SUFFICES ASSUME proc[<<a, n + 1>>] # None PROVE FALSE
    OBVIOUS
  <2>1. <<a, n + 1>> \in Jobs(a)
    BY <1>12 DEF Jobs
  <2>2. Jobs(a) = {<<a, k>> : k \in 1 .. n}
    BY <1>1 DEF IInv, CountInv, CountOk
  <2> QED
    BY <1>10, <2>1, <2>2
<1> QED
  BY <1>1, <1>4, <1>5, <1>12, <1>13

-----------------------------------------------------------------------------
(* Types.                                                                  *)

LEMMA TypeInit == Init => TypeOK
<1> SUFFICES ASSUME Init PROVE TypeOK
  OBVIOUS
<1>1. world \in Worlds /\ DOMAIN world.jobs \subseteq Account
  <2>1. world \in WorldType
    BY ParentAssumption DEF Init
  <2> QED
    BY <2>1 DEF WorldType, Init
<1>2. asked \in [Account -> 0 .. MaxJobs] /\ answered \in [Account -> 0 .. MaxJobs]
  BY ParentAssumption DEF Init
<1>3. /\ buf \in [Child -> Seq(Message)]
      /\ up \in [Child -> Seq(Message)] /\ down \in [Child -> Seq(Message)]
  BY DEF Init
<1>4. proc \in [Child -> Alive \cup {None, "zombie", "reaped"}]
  BY DEF Init
<1>5. /\ sigchld \in BOOLEAN /\ sigterm \in BOOLEAN /\ lock \in BOOLEAN
      /\ failed \in BOOLEAN /\ res \in {0, 1}
  BY DEF Init
<1>6. actaq \subseteq Account /\ open \subseteq children /\ children \subseteq Child
      /\ closed \subseteq Child /\ dead_io \in Child \cup {NoChild} /\ term \subseteq Child
      /\ pc = "top"
  BY <1>1 DEF Init
<1> QED
  BY <1>1, <1>2, <1>3, <1>4, <1>5, <1>6 DEF TypeOK

\* All that is counted is finite.
Counted ==
  \A a \in Account :
    /\ IsFiniteSet(Jobs(a)) /\ Cardinality(Jobs(a)) \in Nat
    /\ IsFiniteSet(Unanswered(a)) /\ Cardinality(Unanswered(a)) \in Nat
    /\ Requests(a) \in Nat /\ Answers(a) \in Nat
    /\ asked[a] \in 0 .. MaxJobs /\ answered[a] \in 0 .. MaxJobs

LEMMA Bounds == TypeOK => Counted
<1> SUFFICES ASSUME TypeOK, NEW a \in Account
             PROVE  /\ IsFiniteSet(Jobs(a)) /\ Cardinality(Jobs(a)) \in Nat
                    /\ IsFiniteSet(Unanswered(a)) /\ Cardinality(Unanswered(a)) \in Nat
                    /\ Requests(a) \in Nat /\ Answers(a) \in Nat
                    /\ asked[a] \in 0 .. MaxJobs /\ answered[a] \in 0 .. MaxJobs
  BY DEF Counted
<1>1. Answers(a) \in Nat
  BY CountType, Kinds DEF TypeOK, Answers
<1>2. Count(buf[Fetch(a)], "action") \in Nat /\ Count(up[Fetch(a)], "action") \in Nat
  BY CountType, Kinds DEF TypeOK
<1>3. Unanswered(a) \in SUBSET Jobs(a)
  BY DEF Unanswered
<1> QED
  BY <1>1, <1>2, <1>3, JobsFinite, FS_Subset, FS_CardinalityType DEF Requests, TypeOK

LEMMA TypeStep == IInv /\ [Next]_vars => TypeOK'
<1> SUFFICES ASSUME IInv, [Next]_vars PROVE TypeOK'
  OBVIOUS
<1>t. TypeOK /\ SocketInv /\ CountInv
  BY DEF IInv
<1>k. \A a \in Account : Fetch(a) \in Child
  BY Kinds
<1>o. \A c \in Child : Owner(c) \in Child
  BY Kinds
<1>s. \A c \in Child : \A e \in {"action", "done", "tags", "exit"} :
        /\ [up EXCEPT ![c] = Append(@, e)] \in [Child -> Seq(Message)]
        /\ \A d \in [Child -> Seq(Message)] :
             [d EXCEPT ![c] = Append(@, e)] \in [Child -> Seq(Message)]
  BY <1>t DEF TypeOK, Message
<1>v. \A c \in Child : \A d \in {buf, down} : d[c] # <<>> =>
        [d EXCEPT ![c] = Tail(@)] \in [Child -> Seq(Message)]
  BY <1>t DEF TypeOK
<1>z. \A d \in [Child -> Seq(Message)] : \A c \in Child :
        /\ [d EXCEPT ![c] = <<>>] \in [Child -> Seq(Message)]
        /\ Without(d, {c}) \in [Child -> Seq(Message)]
  BY DEF Without
<1>p. \A c \in Child : \A p \in Alive \cup {None, "zombie", "reaped"} :
        [proc EXCEPT ![c] = p] \in [Child -> Alive \cup {None, "zombie", "reaped"}]
  BY <1>t DEF TypeOK
<1>y. TypeOK
  BY <1>t
<1> USE <1>y DEF TypeOK, Ended, Alive, parentVars, sigVars, childVars, At
<1>0. CASE UNCHANGED vars
  BY <1>0 DEF vars
<1> USE DEF Becomes, Says, Take
<1>w. CASE ~UNCHANGED vars
  <2>u. world' \in Worlds
    BY <1>w DEF Next
  <2> USE <2>u
  <2>1. CASE Top
    BY <2>1 DEF Top
  <2>2. CASE Start
    <3>1. \A a \in actaq : Forked(Fetch(a)) =>
             /\ children' \subseteq Child /\ open' \subseteq children'
             /\ proc' \in [Child -> Alive \cup {None, "zombie", "reaped"}]
      BY <1>k, <1>p DEF Forked
    <3>2. /\ children' \subseteq Child /\ open' \subseteq children' /\ actaq' \subseteq Account
          /\ proc' \in [Child -> Alive \cup {None, "zombie", "reaped"}]
          /\ pc' \in {"start", "poll"}
      BY <2>2, <3>1 DEF Start
    <3> QED
      BY <2>2, <3>2 DEF Start
  <2>3. CASE BeforePoll
    BY <2>3 DEF BeforePoll
  <2>4. CASE Poll
    BY <2>4 DEF Poll
  <2>r. ASSUME Reaped PROVE /\ children' \subseteq Child /\ open' \subseteq children'
                            /\ closed' \subseteq Child /\ term' \subseteq Child
                            /\ proc' \in [Child -> Alive \cup {None, "zombie", "reaped"}]
                            /\ buf' \in [Child -> Seq(Message)]
                            /\ up' \in [Child -> Seq(Message)] /\ res' = res
    BY <2>r DEF Reaped, Zombies, Without
  <2>5. CASE Sleep
    BY <2>5, <2>r DEF Sleep
  <2>6. ASSUME NEW c \in children, Request(c) PROVE TypeOK'
    <3>1. <<c[1], Cardinality(Jobs(c[1])) + 1>> \in Child
      BY <2>6, Requested DEF Request
    <3> QED
      BY <1>p, <1>v, <2>6, <3>1 DEF Request, Forked, Received, Ready
  <2>x. ASSUME NEW c \in Child
        PROVE  /\ buf[c] # <<>> /\ Take(c) => buf' \in [Child -> Seq(Message)]
               /\ \A e \in {"done", "exit"} : \A d \in [Child -> Seq(Message)] :
                    SendOrDie(c, e, d) => /\ down' \in [Child -> Seq(Message)]
                                          /\ pc' \in {pc, "fatal"}
    <3>1. \A e \in {"done", "exit"} : \A d \in [Child -> Seq(Message)] :
             [d EXCEPT ![c] = Append(@, e)] \in [Child -> Seq(Message)]
      BY <1>s
    <3>2. buf[c] # <<>> /\ Take(c) => buf' \in [Child -> Seq(Message)]
      BY <1>v
    <3> QED
      <4>1. ASSUME NEW e \in {"done", "exit"}, NEW d \in [Child -> Seq(Message)],
                   SendOrDie(c, e, d)
            PROVE  down' \in [Child -> Seq(Message)] /\ pc' \in {pc, "fatal"}
        <5>1. [d EXCEPT ![c] = Append(@, e)] \in [Child -> Seq(Message)]
          BY <3>1
        <5> QED
          BY <4>1, <5>1 DEF SendOrDie
      <4> QED
        BY <3>2, <4>1
  <2>7. ASSUME NEW c \in children, Refuse(c) PROVE TypeOK'
    <3>1. SendOrDie(c, "done", down) /\ Take(c) /\ c \in Child /\ buf[c] # <<>>
      BY <2>7 DEF Refuse, Received, Ready
    <3> QED
      BY <2>x, <2>7, <3>1 DEF Refuse
  <2>8. ASSUME NEW c \in children, Release(c) PROVE TypeOK'
    <3>1. SendOrDie(c, "exit", down) /\ Take(c) /\ c \in Child /\ buf[c] # <<>>
      BY <2>8 DEF Release, Received, Ready
    <3> QED
      BY <2>x, <2>8, <3>1 DEF Release
  <2>9. ASSUME NEW c \in children, Forward(c) PROVE TypeOK'
    <3>1. PassedOn(Owner(c)) \in [Child -> Seq(Message)]
      BY <1>o, <1>s DEF PassedOn
    <3>2. /\ buf' \in [Child -> Seq(Message)] /\ up' \in [Child -> Seq(Message)]
          /\ down' \in [Child -> Seq(Message)] /\ closed' \subseteq Child
          /\ pc' \in {pc, "fatal"}
      <4>1. c \in Child
        OBVIOUS
      <4>2. /\ down' \in [Child -> Seq(Message)] /\ closed' \subseteq Child
            /\ pc' \in {pc, "fatal"}
        BY <2>x, <2>9, <3>1, <4>1 DEF Forward
      <4> QED
        BY <1>z, <2>9, <4>1, <4>2 DEF Forward
    <3> QED
      BY <2>9, <3>2 DEF Forward
  <2>10. CASE NoMessages
    BY <2>10 DEF NoMessages
  <2>11. CASE Reap
    BY <2>11, <2>r, pc' = "clear" DEF Reap
  <2>12. CASE Clear
    BY <2>12 DEF Clear
  <2>13. CASE Close
    <3>1. /\ open' \subseteq children /\ term' \subseteq Child /\ closed' \subseteq Child
          /\ buf' \in [Child -> Seq(Message)] /\ up' \in [Child -> Seq(Message)]
      <4>1. CASE dead_io \in open
        <5>1. dead_io \in Child
          BY <4>1
        <5>2. /\ Without(buf, {dead_io}) \in [Child -> Seq(Message)]
              /\ Without(up, {dead_io}) \in [Child -> Seq(Message)]
          BY <1>z, <5>1
        <5> QED
          BY <2>13, <4>1, <5>1, <5>2 DEF Close
      <4>2. CASE dead_io \notin open
        BY <2>13, <4>2 DEF Close
      <4> QED
        BY <4>1, <4>2
    <3> QED
      BY <2>13, <3>1 DEF Close
  <2>14. CASE Stop
    BY <2>14 DEF Stop
  <2>15. CASE WaitForAll
    BY <2>15 DEF WaitForAll
  <2>16. CASE Signal
    BY <2>16 DEF Signal, Interrupted
  <2>17. CASE Rest
    BY <2>17 DEF Rest, vars
  <2>18. ASSUME NEW a \in Account, Ask(a) PROVE TypeOK'
    <3>1. world.jobs[a] \in 0 .. MaxJobs
      BY <1>t, <2>18, Worldly DEF Ask, SocketInv, None
    <3>2. asked' \in [Account -> 0 .. MaxJobs]
      BY <2>18, <3>1, ParentAssumption DEF Ask
    <3> QED
      BY <1>k, <1>s, <2>18, <3>2 DEF Ask
  <2>19. ASSUME NEW a \in Account, Answer(a) PROVE TypeOK'
    <3>1. /\ Requests(a) \in Nat /\ Cardinality(Unanswered(a)) \in Nat
          /\ Answers(a) \in Nat
          /\ asked[a] \in 0 .. MaxJobs /\ answered[a] \in 0 .. MaxJobs
      BY <1>t, Bounds DEF Counted
    <3>2. down[Fetch(a)] \in Seq({"done"}) /\ down[Fetch(a)] # <<>>
      BY <1>t, <1>k, <2>19, Kinds DEF Answer, SocketInv, SocketsOk
    <3>3. Answers(a) > 0
      <4>1. Head(down[Fetch(a)]) = "done"
        BY <3>2
      <4> QED
        BY <3>2, <4>1, CountHead DEF Answers
    <3>4. answered[a] + 1 <= asked[a]
      BY <1>t, <3>1, <3>3 DEF CountInv, CountOk
    <3>5. answered' \in [Account -> 0 .. MaxJobs]
      BY <2>19, <3>1, <3>4, ParentAssumption DEF Answer
    <3> QED
      BY <1>k, <1>v, <2>19, <3>5 DEF Answer
  <2>20. ASSUME NEW a \in Account, Leave(a) PROVE TypeOK'
    BY <1>k, <1>p, <1>s, <2>20 DEF Leave
  <2>21. ASSUME NEW c \in Child, Deliver(c) PROVE TypeOK'
    <3>1. /\ up' \in [Child -> Seq(Message)]
          /\ proc' \in [Child -> Alive \cup {None, "zombie", "reaped"}]
      <4>1. \A m \in Message : Says(c, m) => up' \in [Child -> Seq(Message)]
        BY DEF Message
      <4>2. \A p \in Alive : Becomes(c, p) =>
               proc' \in [Child -> Alive \cup {None, "zombie", "reaped"}]
        OBVIOUS
      <4> QED
        BY <2>21, <4>1, <4>2 DEF Deliver, Message
    <3> QED
      BY <2>21, <3>1 DEF Deliver
  <2>22. ASSUME NEW c \in Child, Dismissed(c) PROVE TypeOK'
    BY <1>p, <1>v, <2>22 DEF Dismissed
  <2>23. ASSUME NEW c \in Child, Exit(c) \/ Terminated(c) \/ Dies(c) PROVE TypeOK'
    <3>1. Ends(c) /\ failed' \in BOOLEAN
      BY <2>23 DEF Exit, Terminated, Dies
    <3>2. /\ down' \in [Child -> Seq(Message)]
          /\ proc' \in [Child -> Alive \cup {None, "zombie", "reaped"}]
      BY <1>p, <1>z, <3>1 DEF Ends
    <3> QED
      BY <3>1, <3>2 DEF Ends, Interrupted
  <2> QED
    BY <1>w, <2>1, <2>2, <2>3, <2>4, <2>5, <2>6, <2>7, <2>8, <2>9, <2>10, <2>11, <2>12,
       <2>13, <2>14, <2>15, <2>16, <2>17, <2>18, <2>19, <2>20, <2>21, <2>22, <2>23
       DEF Next, ParentStep, Handle, Works, Proceeds
<1> QED
  BY <1>0, <1>w

-----------------------------------------------------------------------------
(* Who is there.                                                           *)

LEMMA KinInit == Init => KinInv
BY DEF Init, KinInv, NoOrphans, NothingLeft, Served, Ended, None

\* A step that starts no child and waits for none.
LEMMA KinSame ==
  ASSUME KinInv, children' = children, proc' = proc, term \subseteq term',
         pc' \in {"waiting", "done"} => pc' = pc, pc \in Ended \cup {"waiting"} => pc' = pc
  PROVE  KinInv'
BY DEF KinInv, NoOrphans, NothingLeft, Served, Ended, Owner, Fetch, IsFetch

\* A child goes on or ends.
LEMMA KinMoves ==
  ASSUME TypeOK, KinInv, NEW c \in Child, proc[c] \in Alive,
         NEW p \in (Alive \cup {"zombie"}), proc' = [proc EXCEPT ![c] = p],
         children' = children, term' = term, pc \notin Ended,
         pc' = pc \/ (pc = "polling" /\ pc' = "messages")
  PROVE  KinInv'
<1>1. \A d \in Child : /\ d # c => proc'[d] = proc[d]
                       /\ proc'[c] = p /\ p \notin {None, "reaped"}
                       /\ proc[c] \notin {None, "reaped", "zombie"}
  BY DEF TypeOK, Alive, None
<1>2. NoOrphans'
  BY <1>1, Kinds DEF KinInv, NoOrphans, TypeOK, Owner, Fetch, IsFetch
<1>3. pc' \notin Ended /\ (Served' <=> Served) /\ (pc' = "waiting" <=> pc = "waiting")
  BY DEF Served, Ended
<1>4. NothingLeft'
  BY <1>3 DEF NothingLeft, Ended
<1> QED
  BY <1>1, <1>2, <1>3, <1>4 DEF KinInv, TypeOK

\* A child is started.
LEMMA KinForked ==
  ASSUME TypeOK, KinInv, Served, NEW c \in Child, Forked(c), proc[c] = None,
         ~IsFetch(c) => proc[Owner(c)] \notin {None, "reaped"},
         term' = term, Served', pc' # "waiting"
  PROVE  KinInv'
<1>1. /\ children' = children \cup {c}
      /\ \A d \in Child : (d # c => proc'[d] = proc[d]) /\ proc'[c] = "run"
  BY DEF Forked, TypeOK
<1>2. \A d \in children : d # c
  BY DEF KinInv
<1>3. NoOrphans'
  <2> SUFFICES ASSUME NEW d \in children', ~IsFetch(d), proc'[Owner(d)] = "reaped"
               PROVE  d \in term \/ proc'[d] = "zombie"
    BY DEF NoOrphans, IsFetch, Owner, Fetch
  <2>1. d \in Child /\ Owner(d) \in Child /\ Owner(d) # c
    BY <1>1, Kinds DEF TypeOK
  <2>2. proc[Owner(d)] = "reaped"
    BY <1>1, <2>1
  <2>3. d # c
    BY <2>2
  <2> QED
    BY <1>1, <2>1, <2>2, <2>3 DEF KinInv, NoOrphans
<1>4. NothingLeft'
  BY DEF NothingLeft, Served, Ended
<1> QED
  BY <1>1, <1>3, <1>4 DEF KinInv, None, TypeOK

\* The dead are waited for, and the children of each are killed.
LEMMA KinReaped ==
  ASSUME TypeOK, KinInv, Served, Reaped, Served', pc' # "waiting"
  PROVE  KinInv'
<1>1. /\ children' = children \ Zombies
      /\ \A d \in Child : proc'[d] = IF d \in Zombies THEN "reaped" ELSE proc[d]
      /\ term' = term \cup {c \in children \ Zombies : ~IsFetch(c) /\ Owner(c) \in Zombies}
  BY DEF Reaped
<1>2. NoOrphans'
  <2> SUFFICES ASSUME NEW d \in children', ~IsFetch(d), proc'[Owner(d)] = "reaped"
               PROVE  d \in term' \/ proc'[d] = "zombie"
    BY DEF NoOrphans, IsFetch, Owner, Fetch
  <2>1. d \in children \ Zombies /\ d \in Child /\ Owner(d) \in Child
    BY <1>1, Kinds DEF TypeOK
  <2>2. CASE Owner(d) \in Zombies
    BY <1>1, <2>1, <2>2
  <2>3. CASE Owner(d) \notin Zombies
    BY <1>1, <2>1, <2>3 DEF KinInv, NoOrphans
  <2> QED
    BY <2>2, <2>3
<1>3. NothingLeft'
  BY DEF NothingLeft, Served, Ended
<1> QED
  BY <1>1, <1>2, <1>3 DEF KinInv, TypeOK, Zombies

LEMMA KinStep == IInv /\ [Next]_vars => KinInv'
<1> SUFFICES ASSUME IInv, [Next]_vars PROVE KinInv'
  OBVIOUS
<1>t. TypeOK /\ KinInv
  BY DEF IInv
<1> USE <1>t
<1>0. CASE UNCHANGED vars
  BY <1>0, KinSame DEF vars, parentVars, childVars
<1> USE DEF parentVars, childVars, At
<1>1. CASE Top
  <2>1. CASE pc' = "done"
    <3>1. children = {} /\ children' = {} /\ proc' = proc /\ Served
      BY <1>1, <2>1 DEF Top, Served, Ended
    <3> QED
      BY <2>1, <3>1 DEF KinInv, NoOrphans, NothingLeft, Served, Ended
  <2>2. CASE pc' # "done"
    <3>1. /\ children' = children /\ proc' = proc /\ term' = term
          /\ pc = "top" /\ pc' \in {"stop", "start"}
      BY <1>1, <2>2 DEF Top
    <3> QED
      BY <3>1, KinSame DEF Ended
  <2> QED
    BY <2>1, <2>2
<1>2. CASE Start
  <2>1. CASE UNCHANGED <<children, proc>>
    <3>1. term' = term /\ pc = "start" /\ pc' \in {"start", "poll"}
      BY <1>2 DEF Start
    <3> QED
      BY <2>1, <3>1, KinSame DEF Ended
  <2>2. CASE ~UNCHANGED <<children, proc>>
    <3>1. PICK a \in actaq : Forked(Fetch(a)) /\ UNCHANGED <<pc, term>> /\ pc = "start"
      BY <1>2, <2>2 DEF Start
    <3>2. a \in Account /\ proc[Fetch(a)] = None
      BY <3>1 DEF IInv, SocketInv, TypeOK
    <3>3. Served /\ Served' /\ pc' # "waiting"
      BY <3>1 DEF Served, Ended
    <3> QED
      BY <3>1, <3>2, <3>3, Kinds, KinForked
  <2> QED
    BY <2>1, <2>2
<1>3. CASE BeforePoll
  BY <1>3, KinSame DEF BeforePoll, Ended
<1>4. CASE Poll
  BY <1>4, KinSame DEF Poll, Ended
<1>5. CASE Sleep
  BY <1>5, KinReaped DEF Sleep, Served, Ended
<1>6. ASSUME NEW c \in children, Request(c) PROVE KinInv'
  <2> DEFINE new == <<c[1], Cardinality(Jobs(c[1])) + 1>>
  <2>1. Received(c, "action") /\ Forked(new) /\ UNCHANGED <<pc, term>> /\ pc = "messages"
    BY <1>6 DEF Request, Received
  <2>2. /\ c = Fetch(c[1]) /\ proc[c] \notin {None, "reaped"}
        /\ new \in Child /\ ~IsFetch(new) /\ new[1] = c[1] /\ proc[new] = None
    BY <2>1, Requested
  <2>3. Owner(new) = c
    BY <2>2 DEF Owner
  <2>4. Served /\ Served' /\ pc' # "waiting"
    BY <2>1 DEF Served, Ended
  <2> HIDE DEF new
  <2> QED
    BY <2>1, <2>2, <2>3, <2>4, KinForked
<1>7. ASSUME NEW c \in children, Refuse(c) \/ Release(c) \/ Forward(c) PROVE KinInv'
  <2>1. /\ children' = children /\ proc' = proc /\ term' = term
        /\ pc = "messages" /\ pc' \in {pc, "fatal"}
    BY <1>7 DEF Refuse, Release, Forward, SendOrDie, Received
  <2> QED
    BY <2>1, KinSame DEF Ended
<1>8. CASE NoMessages
  BY <1>8, KinSame DEF NoMessages, Ended
<1>9. CASE Reap
  <2>1. pc = "reap" /\ pc' = "clear"
    BY <1>9 DEF Reap
  <2>2. CASE sigchld
    BY <1>9, <2>1, <2>2, KinReaped DEF Reap, Served, Ended
  <2>3. CASE ~sigchld
    BY <1>9, <2>1, <2>3, KinSame DEF Reap, Ended
  <2> QED
    BY <2>2, <2>3
<1>10. CASE Clear
  BY <1>10, KinSame DEF Clear, Ended
<1>11. CASE Close
  <2>1. /\ children' = children /\ proc' = proc /\ term \subseteq term'
        /\ pc = "close" /\ pc' = "top"
    BY <1>11 DEF Close
  <2> QED
    BY <2>1, KinSame DEF Ended
<1>12. CASE Stop
  <2>1. CASE open # children
    BY <1>12, <2>1, KinSame DEF Stop, Ended
  <2>2. CASE open = children
    BY <1>12, <2>2 DEF Stop, KinInv, NoOrphans, NothingLeft, Served, Ended
  <2> QED
    BY <2>1, <2>2
<1>13. CASE WaitForAll
  <2>1. /\ pc = "waiting" /\ pc' = "done" /\ children' = children /\ children = {}
        /\ \A c \in Child : proc[c] \notin Alive
        /\ \A c \in Child : proc'[c] = IF proc[c] = "zombie" THEN "reaped" ELSE proc[c]
    BY <1>13 DEF WaitForAll, Running, KinInv
  <2>2. \A c \in Child : proc'[c] \in {None, "reaped"}
    BY <2>1 DEF TypeOK
  <2> QED
    BY <2>1, <2>2 DEF KinInv, NoOrphans, NothingLeft, Served, Ended
<1>14. CASE Signal
  BY <1>14, KinSame DEF Signal, Interrupted, Ended
<1>15. CASE Rest
  BY <1>15, KinSame DEF Rest, vars
<1>16. ASSUME NEW a \in Account, Ask(a) \/ Answer(a) PROVE KinInv'
  BY <1>16, KinSame DEF Ask, Answer
<1>17. ASSUME NEW a \in Account, Leave(a) PROVE KinInv'
  <2>1. /\ Fetch(a) \in Child /\ proc[Fetch(a)] \in Alive /\ "leaving" \in Alive
        /\ proc' = [proc EXCEPT ![Fetch(a)] = "leaving"]
        /\ UNCHANGED <<children, term, pc>> /\ pc \notin Ended
    BY <1>17, Kinds DEF Leave, Becomes, Alive, Served
  <2> QED
    BY <2>1, KinMoves
<1>18. ASSUME NEW c \in Child, Deliver(c) PROVE KinInv'
  <2>1. PICK p \in Alive : Becomes(c, p)
    BY <1>18 DEF Deliver, Alive
  <2>2. proc[c] \in Alive /\ UNCHANGED <<children, term, pc>> /\ pc \notin Ended
    BY <1>18 DEF Deliver, Alive, Served
  <2> QED
    BY <2>1, <2>2, KinMoves DEF Becomes
<1>19. ASSUME NEW c \in Child, Dismissed(c) PROVE KinInv'
  <2>1. proc[c] \in Alive /\ UNCHANGED <<children, term, pc>> /\ pc \notin Ended
    BY <1>19 DEF Dismissed, Alive, Served
  <2>2. CASE Becomes(c, "closing")
    BY <2>1, <2>2, KinMoves DEF Becomes, Alive
  <2>3. CASE UNCHANGED proc
    BY <2>1, <2>3, KinSame DEF Ended
  <2> QED
    BY <1>19, <2>2, <2>3 DEF Dismissed
<1>20. ASSUME NEW c \in Child, Exit(c) \/ Terminated(c) \/ Dies(c) PROVE KinInv'
  <2>1. /\ proc[c] \in Alive /\ UNCHANGED <<children, term>> /\ pc \notin Ended
        /\ proc' = [proc EXCEPT ![c] = "zombie"]
        /\ pc' = pc \/ (pc = "polling" /\ pc' = "messages")
    BY <1>20 DEF Exit, Terminated, Dies, Ends, Interrupted, Becomes, Alive
  <2> QED
    BY <2>1, KinMoves
<1> QED
  BY <1>0, <1>1, <1>2, <1>3, <1>4, <1>5, <1>6, <1>7, <1>8, <1>9, <1>10, <1>11, <1>12,
     <1>13, <1>14, <1>15, <1>16, <1>17, <1>18, <1>19, <1>20
     DEF Next, ParentStep, Handle, Works, Proceeds

-----------------------------------------------------------------------------
(* What the sockets carry.                                                 *)

LEMMA SocketInit == Init => SocketInv
<1> SUFFICES ASSUME Init PROVE SocketInv
  OBVIOUS
<1>1. \A c \in Child : SocketsOk(c)
  BY DEF Init, SocketsOk, Silent, None
<1>2. \A a \in Account : proc[Fetch(a)] = None
  BY Kinds DEF Init
<1>3. actaq = DOMAIN world.jobs /\ actaq \subseteq Account
  BY TypeInit DEF Init, TypeOK
<1> QED
  BY <1>1, <1>2, <1>3 DEF SocketInv

\* Nothing is put into the sockets of a child, and it is not put to work.
LEMMA SocketsKept ==
  ASSUME NEW c \in Child, SocketsOk(c), proc'[c] = proc[c] \/ proc'[c] \notin {None, "run"},
         buf'[c] = buf[c] \/ buf'[c] = <<>>, up'[c] = up[c] \/ up'[c] = <<>>,
         down'[c] = down[c] \/ down'[c] = <<>>
  PROVE  SocketsOk(c)'
<1>1. \A S : <<>> \in Seq(S)
  OBVIOUS
<1>2. IsFetch(c)' = IsFetch(c) /\ Speaks(c)' = Speaks(c)
  BY DEF IsFetch, Speaks
<1> QED
  BY <1>1, <1>2 DEF SocketsOk, Silent

\* Nothing is started and nothing is said but to or by one child.
LEMMA SocketsOne ==
  ASSUME TypeOK, SocketInv, world' = world, actaq' = actaq, NEW c \in Child, SocketsOk(c)',
         proc[c] = None => proc'[c] = None,
         \A d \in Child : d # c => /\ proc'[d] = proc[d] /\ buf'[d] = buf[d]
                                   /\ up'[d] = up[d] /\ down'[d] = down[d]
  PROVE  SocketInv'
<1>1. \A d \in Child : SocketsOk(d)'
  BY SocketsKept DEF SocketInv
<1>2. \A a \in Account : /\ Fetch(a) \in Child /\ Fetch(a)' = Fetch(a)
                         /\ proc[Fetch(a)] = None => proc'[Fetch(a)] = None
                         /\ proc'[Fetch(a)] # None => a \in DOMAIN world.jobs
  <2> SUFFICES ASSUME NEW a \in Account
               PROVE  /\ Fetch(a) \in Child /\ Fetch(a)' = Fetch(a)
                      /\ proc[Fetch(a)] = None => proc'[Fetch(a)] = None
                      /\ proc'[Fetch(a)] # None => a \in DOMAIN world.jobs
    OBVIOUS
  <2>1. Fetch(a) \in Child /\ Fetch(a)' = Fetch(a)
    BY Kinds DEF Fetch
  <2>2. proc[Fetch(a)] = None => proc'[Fetch(a)] = None
    BY <2>1
  <2> QED
    BY <2>1, <2>2 DEF SocketInv
<1> QED
  BY <1>1, <1>2 DEF SocketInv, TypeOK

\* Nothing is said at all, or what was said is thrown away.
LEMMA SocketsLess ==
  ASSUME TypeOK, SocketInv, world' = world, actaq' = actaq,
         \A c \in Child : /\ proc'[c] = proc[c] \/ (proc[c] # None /\ proc'[c] \notin {None, "run"})
                          /\ buf'[c] = buf[c] \/ buf'[c] = <<>>
                          /\ up'[c] = up[c] \/ up'[c] = <<>>
                          /\ down'[c] = down[c] \/ down'[c] = <<>>
  PROVE  SocketInv'
<1>1. \A d \in Child : SocketsOk(d)'
  BY SocketsKept DEF SocketInv
<1>2. \A a \in Account : /\ Fetch(a) \in Child /\ Fetch(a)' = Fetch(a)
                         /\ proc[Fetch(a)] = None => proc'[Fetch(a)] = None
                         /\ proc'[Fetch(a)] # None => a \in DOMAIN world.jobs
  <2> SUFFICES ASSUME NEW a \in Account
               PROVE  /\ Fetch(a) \in Child /\ Fetch(a)' = Fetch(a)
                      /\ proc[Fetch(a)] = None => proc'[Fetch(a)] = None
                      /\ proc'[Fetch(a)] # None => a \in DOMAIN world.jobs
    OBVIOUS
  <2>1. Fetch(a) \in Child /\ Fetch(a)' = Fetch(a)
    BY Kinds DEF Fetch
  <2>2. proc[Fetch(a)] = None => proc'[Fetch(a)] = None
    BY <2>1
  <2> QED
    BY <2>1, <2>2 DEF SocketInv
<1> QED
  BY <1>1, <1>2 DEF SocketInv, TypeOK

LEMMA SocketStep == IInv /\ [Next]_vars => SocketInv'
<1> SUFFICES ASSUME IInv, [Next]_vars PROVE SocketInv'
  OBVIOUS
<1>t. TypeOK /\ SocketInv
  BY DEF IInv
<1> USE <1>t
<1>w. world' = world
  BY DEF Next, vars
<1>a. \A c \in children : c \in Child /\ proc[c] \notin {None, "reaped"} /\ SocketsOk(c)
  BY DEF IInv, KinInv, TypeOK, SocketInv
<1>p. proc \in [Child -> Alive \cup {None, "zombie", "reaped"}]
      /\ buf \in [Child -> Seq(Message)] /\ up \in [Child -> Seq(Message)]
      /\ down \in [Child -> Seq(Message)]
  BY DEF TypeOK
<1>s. \A c \in Child : /\ down[c] \in Seq(Message)
                      /\ Append(down[c], "done") \in Seq(Message)
                      /\ Append(down[c], "exit") \in Seq(Message)
  BY <1>p DEF Message
<1>0. CASE UNCHANGED <<actaq, proc, buf, up, down>>
  BY <1>0, <1>w, SocketsLess
<1>00. CASE UNCHANGED vars
  BY <1>0, <1>00 DEF vars, parentVars, childVars
<1>r. ASSUME Reaped, UNCHANGED <<actaq, down>> PROVE SocketInv'
  <2>1. \A c \in Child : /\ proc'[c] = proc[c] \/ (proc[c] # None /\ proc'[c] = "reaped")
                         /\ buf'[c] = buf[c] \/ buf'[c] = <<>>
                         /\ up'[c] = up[c] \/ up'[c] = <<>>
                         /\ down'[c] = down[c]
    BY <1>r DEF Reaped, Zombies, Without, None
  <2> QED
    BY <1>r, <1>w, <2>1, SocketsLess DEF None
<1> USE DEF parentVars, childVars, At
<1>1. CASE Top \/ BeforePoll \/ NoMessages \/ Clear \/ Stop \/ Signal \/ Rest
  BY <1>0, <1>1 DEF Top, BeforePoll, NoMessages, Clear, Stop, Signal, Interrupted, Rest, vars
<1>2. CASE Start
  <2>1. CASE UNCHANGED <<actaq, proc>>
    BY <1>0, <1>2, <2>1 DEF Start
  <2>2. CASE ~UNCHANGED <<actaq, proc>>
    <3>1. PICK a \in actaq : actaq' = actaq \ {a} /\ Forked(Fetch(a)) /\ UNCHANGED <<buf, up, down>>
      BY <1>2, <2>2 DEF Start
    <3>2. /\ a \in Account /\ Fetch(a) \in Child /\ proc[Fetch(a)] = None
          /\ proc'[Fetch(a)] = "run" /\ a \in DOMAIN world.jobs
          /\ \A c \in Child : c # Fetch(a) => proc'[c] = proc[c]
      BY <3>1, <1>p, Kinds DEF SocketInv, TypeOK, Forked
    <3>3. SocketsOk(Fetch(a))'
      <4>1. SocketsOk(Fetch(a)) /\ (\A S : <<>> \in Seq(S))
        BY <3>2 DEF SocketInv
      <4> QED
        BY <3>1, <3>2, <4>1, Kinds DEF SocketsOk, Silent, IsFetch, Speaks
    <3>4. \A c \in Child : SocketsOk(c)'
      <4> SUFFICES ASSUME NEW c \in Child, c # Fetch(a) PROVE SocketsOk(c)'
        BY <3>3
      <4> QED
        BY <3>1, <3>2, SocketsKept DEF SocketInv
    <3>5. \A b \in actaq' : proc'[Fetch(b)] = None
      <4> SUFFICES ASSUME NEW b \in actaq' PROVE proc'[Fetch(b)] = None
        OBVIOUS
      <4>1. b \in Account /\ b # a /\ proc[Fetch(b)] = None
        BY <3>1 DEF SocketInv, TypeOK
      <4>2. Fetch(b) \in Child /\ Fetch(b) # Fetch(a)
        BY <3>2, <4>1, Kinds
      <4> QED
        BY <3>2, <4>1, <4>2
    <3>6. \A b \in Account : proc'[Fetch(b)] # None => b \in DOMAIN world.jobs
      BY <3>1, <3>2, Kinds DEF SocketInv
    <3> QED
      BY <1>w, <3>1, <3>4, <3>5, <3>6 DEF SocketInv, Fetch
  <2> QED
    BY <2>1, <2>2
<1>3. CASE Poll
  <2>1. UNCHANGED <<actaq, proc, down>>
    BY <1>3 DEF Poll
  <2>2. ASSUME NEW c \in Child PROVE SocketsOk(c)'
    <3>1. SocketsOk(c)
      BY DEF SocketInv
    <3>2. CASE c \in open
      <4>1. buf'[c] = buf[c] \o up[c] /\ up'[c] = <<>>
        BY <1>3, <3>2 DEF Poll
      <4>2. \A S : buf[c] \in Seq(S) /\ up[c] \in Seq(S) => buf[c] \o up[c] \in Seq(S)
        OBVIOUS
      <4>3. Silent(c) => buf[c] \o up[c] = <<>>
        BY DEF Silent
      <4>4. \A S : <<>> \in Seq(S)
        OBVIOUS
      <4>5. IsFetch(c)' = IsFetch(c) /\ Speaks(c)' = Speaks(c)
        BY DEF IsFetch, Speaks
      <4> QED
        BY <2>1, <3>1, <4>1, <4>2, <4>3, <4>4, <4>5 DEF SocketsOk, Silent
    <3>3. CASE c \notin open
      BY <1>3, <2>1, <3>1, <3>3, SocketsKept DEF Poll
    <3> QED
      BY <3>2, <3>3
  <2> QED
    BY <1>w, <2>1, <2>2 DEF SocketInv, Fetch
<1>4. CASE Sleep
  BY <1>4, <1>r DEF Sleep
<1>5. CASE Reap
  BY <1>5, <1>0, <1>r DEF Reap
<1>6. CASE Close
  <2>1. \A c \in Child : /\ proc'[c] = proc[c]
                         /\ buf'[c] = buf[c] \/ buf'[c] = <<>>
                         /\ up'[c] = up[c] \/ up'[c] = <<>>
                         /\ down'[c] = down[c]
    BY <1>6 DEF Close, Without
  <2> QED
    BY <1>6, <1>w, <2>1, SocketsLess DEF Close
<1>7. CASE WaitForAll
  <2>1. \A c \in Child : /\ proc'[c] = proc[c] \/ (proc[c] = "zombie" /\ proc'[c] = "reaped")
                         /\ buf'[c] = buf[c] /\ up'[c] = up[c] /\ down'[c] = down[c]
    BY <1>7 DEF WaitForAll
  <2> QED
    BY <1>7, <1>w, <2>1, SocketsLess DEF WaitForAll, None
<1>h. ASSUME NEW c \in children, NEW m \in Message, Received(c, m)
      PROVE  /\ buf[c] # <<>> /\ Head(buf[c]) = m /\ m \in Speaks(c)
             /\ \A S : buf[c] \in Seq(S) => Tail(buf[c]) \in Seq(S) /\ m \in S
  <2>1. buf[c] # <<>> /\ Head(buf[c]) = m /\ buf[c] \in Seq(Speaks(c))
    BY <1>a, <1>h DEF Received, Ready, SocketsOk
  <2> QED
    BY <2>1
<1>8. ASSUME NEW c \in children, Request(c) PROVE SocketInv'
  <2>0. Received(c, "action")
    BY <1>8 DEF Request
  <2> PICK new \in Child : new = <<c[1], Cardinality(Jobs(c[1])) + 1>>
    BY <2>0, Requested
  <2>1. /\ Received(c, "action") /\ Forked(new) /\ Take(c) /\ UNCHANGED <<actaq, up, down>>
    BY <1>8 DEF Request
  <2>2. /\ c \in Child /\ c = Fetch(c[1]) /\ proc[c] \notin {None, "reaped"}
        /\ new \in Child /\ ~IsFetch(new) /\ proc[new] = None
    BY <2>1, Requested
  <2>3. new # c /\ \A a \in Account : Fetch(a) # new
    BY <2>2, Kinds
  <2>4. /\ buf'[c] = Tail(buf[c])
        /\ \A d \in Child : d # c => buf'[d] = buf[d]
        /\ proc'[new] = "run" /\ \A d \in Child : d # new => proc'[d] = proc[d]
    BY <2>1, <2>2, <1>p DEF Take, Forked
  <2>5. SocketsOk(c)'
    <3>1. SocketsOk(c) /\ Speaks(c)' = Speaks(c) /\ IsFetch(c)' = IsFetch(c) /\ IsFetch(c)
      BY <1>a, <2>2, Kinds DEF Speaks, IsFetch
    <3>2. \A S : buf[c] \in Seq(S) => Tail(buf[c]) \in Seq(S)
      BY <1>h, <2>1 DEF Message
    <3> QED
      BY <2>1, <2>2, <2>3, <2>4, <3>1, <3>2 DEF SocketsOk
  <2>6. SocketsOk(new)'
    <3>1. SocketsOk(new) /\ Speaks(new)' = Speaks(new) /\ IsFetch(new)' = IsFetch(new)
      BY <2>2 DEF SocketInv, Speaks, IsFetch
    <3> QED
      BY <2>1, <2>2, <2>3, <2>4, <3>1 DEF SocketsOk, Silent
  <2>7. ASSUME NEW d \in Child, d # c, d # new PROVE SocketsOk(d)'
    BY <2>1, <2>4, <2>7, SocketsKept DEF SocketInv
  <2>8. \A a \in Account : proc'[Fetch(a)] = proc[Fetch(a)]
    BY <2>3, <2>4, Kinds
  <2> QED
    BY <1>w, <2>1, <2>5, <2>6, <2>7, <2>8 DEF SocketInv, Fetch, TypeOK
<1>9. ASSUME NEW c \in children, Refuse(c) PROVE SocketInv'
  <2>1. Received(c, "action") /\ SendOrDie(c, "done", down) /\ Take(c)
        /\ UNCHANGED <<actaq, proc, up>>
    BY <1>9 DEF Refuse
  <2>2. c \in Child /\ c = Fetch(c[1]) /\ IsFetch(c) /\ proc[c] # None /\ SocketsOk(c)
    <3>1. c \in Child /\ c = Fetch(c[1]) /\ c[1] \in Account
      BY <2>1, Requested, Kinds
    <3>2. IsFetch(Fetch(c[1]))
      BY <3>1, Kinds
    <3>3. IsFetch(c)
      BY <3>1, <3>2
    <3> QED
      BY <1>a, <3>1, <3>3
  <2>3. /\ buf'[c] = Tail(buf[c]) /\ down'[c] \in {down[c], Append(down[c], "done")}
        /\ \A d \in Child : d # c => buf'[d] = buf[d] /\ down'[d] = down[d]
    BY <2>1, <2>2, <1>p DEF Take, SendOrDie
  <2>4. \A S : buf[c] \in Seq(S) => Tail(buf[c]) \in Seq(S)
    BY <1>h, <2>1 DEF Message
  <2>5. down[c] \in Seq({"done"}) => down'[c] \in Seq({"done"})
    BY <2>3
  <2>6. down'[c] \in Seq(Message)
    BY <1>s, <2>2, <2>3
  <2>7. Speaks(c)' = Speaks(c) /\ IsFetch(c)' = IsFetch(c)
    BY DEF Speaks, IsFetch
  <2>8. SocketsOk(c)'
    BY <2>1, <2>2, <2>3, <2>4, <2>5, <2>6, <2>7 DEF SocketsOk
  <2> QED
    BY <1>w, <2>1, <2>2, <2>3, <2>8, SocketsOne
<1>10. ASSUME NEW c \in children, Release(c) PROVE SocketInv'
  <2>1. Received(c, "exit") /\ SendOrDie(c, "exit", down) /\ Take(c)
        /\ UNCHANGED <<actaq, proc, up>>
    BY <1>10 DEF Release
  <2>2. c \in Child /\ proc[c] # None /\ SocketsOk(c)
    BY <1>a
  <2>3. /\ buf'[c] = Tail(buf[c]) /\ down'[c] \in {down[c], Append(down[c], "exit")}
        /\ \A d \in Child : d # c => buf'[d] = buf[d] /\ down'[d] = down[d]
    BY <2>1, <2>2, <1>p DEF Take, SendOrDie
  <2>4. /\ buf[c] # <<>> /\ "exit" \in Speaks(c)
        /\ \A S : buf[c] \in Seq(S) => Tail(buf[c]) \in Seq(S) /\ "exit" \in S
    BY <1>h, <2>1 DEF Message
  <2>5. proc[c] # "run"
    BY <2>2, <2>4 DEF SocketsOk, Silent
  <2>6. down'[c] \in Seq(Message)
    BY <1>s, <2>2, <2>3
  <2>7. Speaks(c)' = Speaks(c) /\ IsFetch(c)' = IsFetch(c)
    BY DEF Speaks, IsFetch
  <2>8. SocketsOk(c)'
    BY <2>1, <2>2, <2>3, <2>4, <2>5, <2>6, <2>7 DEF SocketsOk
  <2> QED
    BY <1>w, <2>1, <2>2, <2>3, <2>8, SocketsOne
<1>11. ASSUME NEW c \in children, Forward(c) PROVE SocketInv'
  <2> DEFINE o == Owner(c)
  <2>1. Received(c, "done") /\ UNCHANGED <<actaq, proc>>
        /\ buf' = [buf EXCEPT ![c] = <<>>] /\ up' = [up EXCEPT ![c] = <<>>]
    BY <1>11 DEF Forward
  <2>2. c \in Child /\ proc[c] # None /\ SocketsOk(c) /\ ~IsFetch(c)
    BY <1>a, <1>h, <2>1 DEF Message, Speaks
  <2>3. o \in Child /\ IsFetch(o) /\ o # c
    BY <2>2, Kinds
  <2>4. /\ down'[c] \in {down[c], Append(down[c], "exit")}
        /\ down'[o] \in {down[o], Append(down[o], "done")}
        /\ down'[o] # down[o] => o \in open
        /\ \A d \in Child : d # c /\ d # o => down'[d] = down[d]
    <3>1. PassedOn(o) \in {down, [down EXCEPT ![o] = Append(@, "done")]}
          /\ (PassedOn(o) # down => o \in open)
      BY DEF PassedOn
    <3>2. UNCHANGED down \/ down' = PassedOn(o)
          \/ down' = [PassedOn(o) EXCEPT ![c] = Append(@, "exit")]
      BY <1>11 DEF Forward, SendOrDie
    <3> QED
      BY <1>p, <2>2, <2>3, <3>1, <3>2
  <2>5. SocketsOk(o) /\ (o \in open => proc[o] # None)
    BY <1>a, <2>3 DEF SocketInv, TypeOK
  <2>6. SocketsOk(c)'
    <3>1. down'[c] \in Seq(Message) /\ buf'[c] = <<>> /\ up'[c] = <<>> /\ proc'[c] = proc[c]
      BY <1>p, <1>s, <2>1, <2>2, <2>4
    <3>2. IsFetch(c)' = IsFetch(c) /\ Speaks(c)' = Speaks(c) /\ \A S : <<>> \in Seq(S)
      BY DEF IsFetch, Speaks
    <3> QED
      BY <2>2, <3>1, <3>2 DEF SocketsOk, Silent
  <2>7. SocketsOk(o)'
    <3>1. /\ down'[o] \in Seq(Message)
          /\ down[o] \in Seq({"done"}) => down'[o] \in Seq({"done"})
          /\ buf'[o] = buf[o] /\ up'[o] = up[o] /\ proc'[o] = proc[o]
      <4>1. down'[o] \in Seq(Message)
        BY <1>s, <2>3, <2>4
      <4>2. down[o] \in Seq({"done"}) => down'[o] \in Seq({"done"})
        BY <2>3, <2>4
      <4>3. buf'[o] = buf[o] /\ up'[o] = up[o] /\ proc'[o] = proc[o]
        BY <1>p, <2>1, <2>2, <2>3
      <4> QED
        BY <4>1, <4>2, <4>3
    <3>2. proc[o] = None => down'[o] = down[o]
      BY <2>4, <2>5
    <3>3. /\ buf[o] \in Seq({"action", "exit"}) /\ up[o] \in Seq({"action", "exit"})
          /\ proc[o] = None => Silent(o) /\ down[o] = <<>>
          /\ proc[o] = "run" => /\ buf[o] \in Seq({"action"}) /\ up[o] \in Seq({"action"})
                                /\ down[o] \in Seq({"done"})
      BY <2>3, <2>5 DEF SocketsOk, Speaks
    <3>4. (IsFetch(o))' /\ Speaks(o)' = {"action", "exit"}
      BY <2>3 DEF IsFetch, Speaks, Owner, Fetch
    <3>5. o' = o
      BY DEF Owner, Fetch
    <3> HIDE DEF o
    <3> QED
      BY <3>1, <3>2, <3>3, <3>4, <3>5 DEF SocketsOk, Silent
  <2>8. ASSUME NEW d \in Child, d # c, d # o PROVE SocketsOk(d)'
    BY <1>p, <2>1, <2>2, <2>4, <2>8, SocketsKept DEF SocketInv
  <2>9. \A d \in Child : SocketsOk(d)'
    <3>1. o' = o
      BY DEF Owner, Fetch
    <3> HIDE DEF o
    <3> QED
      BY <2>6, <2>7, <2>8, <3>1
  <2> QED
    BY <1>w, <2>1, <2>9 DEF SocketInv, Fetch
<1>f. \A a \in Account : Fetch(a) \in Child /\ IsFetch(Fetch(a))
      /\ Speaks(Fetch(a)) = {"action", "exit"} /\ SocketsOk(Fetch(a))
  BY Kinds DEF SocketInv
<1>12. ASSUME NEW a \in Account, Ask(a) PROVE SocketInv'
  <2> PICK c \in Child : c = Fetch(a)
    BY <1>f
  <2>1. /\ proc[c] = "run" /\ UNCHANGED <<actaq, proc, buf, down>>
        /\ up'[c] = Append(up[c], "action") /\ \A d \in Child : d # c => up'[d] = up[d]
    BY <1>12, <1>p DEF Ask, Says
  <2>2. IsFetch(c)' /\ Speaks(c)' = {"action", "exit"}
    BY <1>f DEF IsFetch, Speaks
  <2>3. /\ buf[c] \in Seq({"action"}) /\ up[c] \in Seq({"action"}) /\ down[c] \in Seq({"done"})
        /\ buf[c] \in Seq({"action", "exit"}) /\ up[c] \in Seq({"action", "exit"})
        /\ down[c] \in Seq(Message)
    BY <1>f, <2>1 DEF SocketsOk
  <2>4. up'[c] \in Seq({"action"}) /\ up'[c] \in Seq({"action", "exit"})
    BY <2>1, <2>3
  <2>5. SocketsOk(c)'
    BY <2>1, <2>2, <2>3, <2>4 DEF SocketsOk, None
  <2> QED
    BY <1>w, <2>1, <2>5, SocketsOne
<1>13. ASSUME NEW a \in Account, Answer(a) PROVE SocketInv'
  <2> PICK c \in Child : c = Fetch(a)
    BY <1>f
  <2>1. /\ proc[c] = "run" /\ UNCHANGED <<actaq, proc, buf, up>> /\ down[c] # <<>>
        /\ down'[c] = Tail(down[c]) /\ \A d \in Child : d # c => down'[d] = down[d]
    BY <1>13, <1>p DEF Answer
  <2>2. IsFetch(c)' /\ Speaks(c)' = Speaks(c) /\ IsFetch(c)
    BY <1>f DEF IsFetch, Speaks
  <2>3. SocketsOk(c)
    BY <1>f
  <2>4. \A S : down[c] \in Seq(S) => down'[c] \in Seq(S)
    BY <2>1
  <2>5. SocketsOk(c)'
    BY <2>1, <2>2, <2>3, <2>4 DEF SocketsOk, None
  <2> QED
    BY <1>w, <2>1, <2>5, SocketsOne
<1>14. ASSUME NEW a \in Account, Leave(a) PROVE SocketInv'
  <2> PICK c \in Child : c = Fetch(a)
    BY <1>f
  <2>1. /\ proc[c] = "run" /\ UNCHANGED <<actaq, buf, down>> /\ proc'[c] = "leaving"
        /\ up'[c] = Append(up[c], "exit")
        /\ \A d \in Child : d # c => up'[d] = up[d] /\ proc'[d] = proc[d]
    BY <1>14, <1>p DEF Leave, Says, Becomes
  <2>2. Speaks(c)' = {"action", "exit"}
    BY <1>f DEF IsFetch, Speaks
  <2>3. /\ buf[c] \in Seq({"action", "exit"}) /\ up[c] \in Seq({"action", "exit"})
        /\ down[c] \in Seq(Message)
    BY <1>f DEF SocketsOk
  <2>4. up'[c] \in Seq({"action", "exit"})
    BY <2>1, <2>3
  <2>5. SocketsOk(c)'
    BY <2>1, <2>2, <2>3, <2>4 DEF SocketsOk, None
  <2> QED
    BY <1>w, <2>1, <2>5, SocketsOne DEF None
<1>15. ASSUME NEW c \in Child, Deliver(c) PROVE SocketInv'
  <2>1. PICK m \in {"done", "tags"}, q \in {"sending", "leaving"} : Says(c, m) /\ Becomes(c, q)
    BY <1>15 DEF Deliver
  <2>2. /\ ~IsFetch(c) /\ proc[c] \in {"run", "sending"} /\ UNCHANGED <<actaq, buf, down>>
        /\ proc'[c] \in {"sending", "leaving"} /\ up'[c] = Append(up[c], m)
        /\ \A d \in Child : d # c => up'[d] = up[d] /\ proc'[d] = proc[d]
    BY <1>15, <2>1, <1>p DEF Deliver, Says, Becomes
  <2>3. SocketsOk(c) /\ Speaks(c) = {"done", "tags"} /\ Speaks(c)' = {"done", "tags"}
    BY <2>2 DEF SocketInv, Speaks, IsFetch
  <2>4. up'[c] \in Seq({"done", "tags"})
    BY <2>2, <2>3 DEF SocketsOk
  <2>5. SocketsOk(c)'
    BY <2>2, <2>3, <2>4 DEF SocketsOk, None
  <2> QED
    BY <1>w, <2>2, <2>5, SocketsOne DEF None
<1>16. ASSUME NEW c \in Child, Dismissed(c) PROVE SocketInv'
  <2>1. /\ proc[c] = "leaving" /\ UNCHANGED <<actaq, buf, up>> /\ proc'[c] \in {"leaving", "closing"}
        /\ down[c] # <<>> /\ down'[c] = Tail(down[c])
        /\ \A d \in Child : d # c => down'[d] = down[d] /\ proc'[d] = proc[d]
    BY <1>16, <1>p DEF Dismissed, Becomes
  <2>2. SocketsOk(c) /\ Speaks(c)' = Speaks(c)
    BY DEF SocketInv, Speaks, IsFetch
  <2>3. down'[c] \in Seq(Message)
    BY <1>p, <2>1
  <2>4. SocketsOk(c)'
    BY <2>1, <2>2, <2>3 DEF SocketsOk, None
  <2> QED
    BY <1>w, <2>1, <2>4, SocketsOne DEF None
<1>17. ASSUME NEW c \in Child, Exit(c) \/ Terminated(c) \/ Dies(c) PROVE SocketInv'
  <2>1. proc[c] \in Alive /\ Becomes(c, "zombie") /\ UNCHANGED <<actaq, buf, up>>
        /\ down' = Without(down, {c})
    BY <1>17 DEF Exit, Terminated, Dies, Ends, Interrupted, Alive
  <2>2. \A d \in Child : /\ proc'[d] = proc[d] \/ (proc[d] # None /\ proc'[d] = "zombie")
                         /\ down'[d] = down[d] \/ down'[d] = <<>>
    BY <1>p, <2>1 DEF Becomes, Without, Alive, None
  <2> QED
    BY <1>w, <2>1, <2>2, SocketsLess DEF None
<1> QED
  BY <1>00, <1>1, <1>2, <1>3, <1>4, <1>5, <1>6, <1>7, <1>8, <1>9, <1>10, <1>11, <1>12,
     <1>13, <1>14, <1>15, <1>16, <1>17
     DEF Next, ParentStep, Handle, Works, Proceeds

-----------------------------------------------------------------------------
(* Requests, deliver children and answers.                                 *)

LEMMA BoundsNext == TypeOK' => Counted'
BY Bounds, PTL

LEMMA CountInit == Init => CountInv
<1> SUFFICES ASSUME Init, NEW a \in Account PROVE CountOk(a)
  BY DEF CountInv
<1>1. Jobs(a) = {} /\ Unanswered(a) = {}
  BY DEF Init, Jobs, Unanswered
<1>2. Requests(a) = 0 /\ Answers(a) = 0
  BY Kinds, CountEmpty DEF Init, Requests, Answers
<1>3. Cardinality({}) = 0 /\ {<<a, k>> : k \in 1 .. 0} = {}
  BY FS_EmptySet
<1>4. a \in DOMAIN world.jobs => world.jobs[a] \in Nat
  BY TypeInit, Worldly, ParentAssumption
<1> QED
  BY <1>1, <1>2, <1>3, <1>4 DEF Init, CountOk

\* What an account has under way changes its place.
LEMMA CountMoved ==
  ASSUME TypeOK, TypeOK', NEW a \in Account, CountOk(a), world' = world,
         asked' = asked, answered' = answered, Jobs(a)' = Jobs(a),
         Requests(a)' <= Requests(a),
         Requests(a)' + Cardinality(Unanswered(a)') + Answers(a)'
           <= Requests(a) + Cardinality(Unanswered(a)) + Answers(a)
  PROVE  CountOk(a)'
<1>1. Counted /\ Counted'
  BY Bounds, BoundsNext
<1>2. /\ Requests(a) \in Nat /\ Requests(a)' \in Nat /\ Answers(a) \in Nat /\ Answers(a)' \in Nat
      /\ Cardinality(Unanswered(a)) \in Nat /\ Cardinality(Unanswered(a)') \in Nat
      /\ Cardinality(Jobs(a)) \in Nat /\ asked[a] \in Nat /\ answered[a] \in Nat
  BY <1>1, ParentAssumption DEF Counted
<1>3. Requests(a)' + Cardinality(Unanswered(a)') + Answers(a)' + answered[a] <= asked[a]
  BY <1>2 DEF CountOk
<1>4. Cardinality(Jobs(a)) + Requests(a)' <= asked[a]
  BY <1>2 DEF CountOk
<1> QED
  BY <1>3, <1>4 DEF CountOk

\* Nothing is added to what an account has under way.
LEMMA CountLess ==
  ASSUME TypeOK, TypeOK', NEW a \in Account, CountOk(a), world' = world,
         asked' = asked, answered' = answered,
         Jobs(a)' = Jobs(a), Unanswered(a)' \subseteq Unanswered(a),
         Requests(a)' <= Requests(a), Answers(a)' <= Answers(a)
  PROVE  CountOk(a)'
<1>1. Counted /\ Counted'
  BY Bounds, BoundsNext
<1>2. Cardinality(Unanswered(a)') <= Cardinality(Unanswered(a))
  BY <1>1, FS_Subset DEF Counted
<1>3. /\ Requests(a) \in Nat /\ Requests(a)' \in Nat /\ Answers(a) \in Nat /\ Answers(a)' \in Nat
      /\ Cardinality(Unanswered(a)) \in Nat /\ Cardinality(Unanswered(a)') \in Nat
      /\ Cardinality(Jobs(a)) \in Nat /\ asked[a] \in Nat /\ answered[a] \in Nat
  BY <1>1, ParentAssumption DEF Counted
<1>4. Requests(a)' + Cardinality(Unanswered(a)') + Answers(a)'
        <= Requests(a) + Cardinality(Unanswered(a)) + Answers(a)
  BY <1>2, <1>3
<1> QED
  BY <1>4, CountMoved

\* The parts of the count, as far as the children of an account go.
LEMMA CountParts ==
  ASSUME TypeOK, TypeOK', NEW a \in Account
  PROVE  /\ (\A c \in Child : proc'[c] = None <=> proc[c] = None) => Jobs(a)' = Jobs(a)
         /\ buf'[Fetch(a)] \in {buf[Fetch(a)], <<>>} /\ up'[Fetch(a)] \in {up[Fetch(a)], <<>>}
              => Requests(a)' <= Requests(a)
         /\ down'[Fetch(a)] \in {down[Fetch(a)], <<>>} => Answers(a)' <= Answers(a)
         /\ (\A c \in Child : ~IsFetch(c) =>
               /\ proc'[c] = None <=> proc[c] = None
               /\ proc'[c] = proc[c] \/ proc'[c] # "run"
               /\ buf'[c] \in {buf[c], <<>>} /\ up'[c] \in {up[c], <<>>})
              => Unanswered(a)' \subseteq Unanswered(a)
<1>1. (\A c \in Child : proc'[c] = None <=> proc[c] = None) => Jobs(a)' = Jobs(a)
  BY DEF Jobs, IsFetch
<1>2. /\ Count(buf[Fetch(a)], "action") \in Nat /\ Count(up[Fetch(a)], "action") \in Nat
      /\ Count(down[Fetch(a)], "done") \in Nat
  BY CountType, Kinds DEF TypeOK
<1>3. Requests(a)' = Count(buf'[Fetch(a)], "action") + Count(up'[Fetch(a)], "action")
  BY DEF Requests, Count, Fetch
<1>4. Answers(a)' = Count(down'[Fetch(a)], "done")
  BY DEF Answers, Count, Fetch
<1>5. buf'[Fetch(a)] \in {buf[Fetch(a)], <<>>} /\ up'[Fetch(a)] \in {up[Fetch(a)], <<>>}
         => Requests(a)' <= Requests(a)
  BY <1>2, <1>3, CountEmpty DEF Requests
<1>6. down'[Fetch(a)] \in {down[Fetch(a)], <<>>} => Answers(a)' <= Answers(a)
  BY <1>2, <1>4, CountEmpty DEF Answers
<1>7. ASSUME \A c \in Child : ~IsFetch(c) =>
               /\ proc'[c] = None <=> proc[c] = None
               /\ proc'[c] = proc[c] \/ proc'[c] # "run"
               /\ buf'[c] \in {buf[c], <<>>} /\ up'[c] \in {up[c], <<>>}
      PROVE  Unanswered(a)' \subseteq Unanswered(a)
  <2> SUFFICES ASSUME NEW c \in Unanswered(a)' PROVE c \in Unanswered(a)
    OBVIOUS
  <2>1. /\ c \in Child /\ c[1] = a /\ ~IsFetch(c) /\ proc'[c] # None
        /\ proc'[c] = "run" \/ Count(buf'[c], "done") > 0 \/ Count(up'[c], "done") > 0
    BY DEF Unanswered, Jobs, IsFetch, Count
  <2>2. Count(<<>>, "done") = 0
    BY CountEmpty
  <2>3. c \in Jobs(a)
    BY <1>7, <2>1 DEF Jobs
  <2> QED
    BY <1>7, <2>1, <2>2, <2>3 DEF Unanswered
<1> QED
  BY <1>1, <1>5, <1>6, <1>7

LEMMA CountStep == IInv /\ [Next]_vars => CountInv'
<1> SUFFICES ASSUME IInv, [Next]_vars, NEW a \in Account PROVE CountOk(a)'
  BY DEF CountInv
<1>t. TypeOK /\ SocketInv /\ CountOk(a) /\ TypeOK'
  BY TypeStep DEF IInv, CountInv
<1> USE <1>t
<1>w. world' = world
  BY DEF Next, vars
<1>b. /\ Counted /\ Counted'
      /\ Requests(a) \in Nat /\ Requests(a)' \in Nat /\ Answers(a) \in Nat /\ Answers(a)' \in Nat
      /\ Cardinality(Unanswered(a)) \in Nat /\ Cardinality(Unanswered(a)') \in Nat
      /\ Cardinality(Jobs(a)) \in Nat /\ asked[a] \in Nat /\ answered[a] \in Nat
  BY Bounds, BoundsNext, ParentAssumption DEF Counted
<1>p. proc \in [Child -> Alive \cup {None, "zombie", "reaped"}]
      /\ buf \in [Child -> Seq(Message)] /\ up \in [Child -> Seq(Message)]
      /\ down \in [Child -> Seq(Message)]
  BY DEF TypeOK
<1>f. /\ Fetch(a) \in Child /\ IsFetch(Fetch(a)) /\ Fetch(a)' = Fetch(a)
      /\ \A b \in Account : Fetch(b) = Fetch(a) => b = a
  BY Kinds DEF Fetch
<1>n. /\ Requests(a)' = Count(buf'[Fetch(a)], "action") + Count(up'[Fetch(a)], "action")
      /\ Answers(a)' = Count(down'[Fetch(a)], "done")
  BY DEF Requests, Answers, Count, Fetch
<1>m. Answers(a) = Count(down[Fetch(a)], "done")
  BY DEF Answers
<1>c. /\ Count(buf[Fetch(a)], "action") \in Nat /\ Count(up[Fetch(a)], "action") \in Nat
      /\ Count(down[Fetch(a)], "done") \in Nat
  BY <1>f, <1>p, CountType
<1>d. \A c \in Child : /\ Count(down[c], "done") \in Nat
                      /\ Count(Append(down[c], "done"), "done") = Count(down[c], "done") + 1
                      /\ Count(Append(down[c], "exit"), "done") = Count(down[c], "done")
  <2> SUFFICES ASSUME NEW c \in Child
               PROVE  /\ Count(down[c], "done") \in Nat
                      /\ Count(Append(down[c], "done"), "done") = Count(down[c], "done") + 1
                      /\ Count(Append(down[c], "exit"), "done") = Count(down[c], "done")
    OBVIOUS
  <2>1. down[c] \in Seq(Message) /\ "done" \in Message /\ "exit" \in Message
    BY <1>p DEF Message
  <2>2. Count(down[c], "done") \in Nat
    BY <2>1, CountType
  <2>3. Count(Append(down[c], "done"), "done") = Count(down[c], "done") + 1
    BY <2>1, CountAppend
  <2>4. Count(Append(down[c], "exit"), "done") = Count(down[c], "done") + 0
    BY <2>1, CountAppend
  <2> QED
    BY <2>2, <2>3, <2>4
<1>u. \A c \in Unanswered(a)' :
        c \in Child /\ (proc'[c] = "run" \/ Count(buf'[c], "done") > 0 \/ Count(up'[c], "done") > 0)
  BY DEF Unanswered, Jobs, Count, Child
<1>l. ASSUME UNCHANGED <<asked, answered>>,
             \A c \in Child :
               /\ proc'[c] = None <=> proc[c] = None
               /\ proc'[c] = proc[c] \/ proc'[c] # "run"
               /\ buf'[c] \in {buf[c], <<>>} /\ up'[c] \in {up[c], <<>>}
               /\ down'[c] \in {down[c], <<>>}
      PROVE  CountOk(a)'
  BY <1>l, <1>w, <1>f, CountParts, CountLess
<1>0. CASE UNCHANGED <<proc, buf, up, down, asked, answered>>
  BY <1>0, <1>l
<1>00. CASE UNCHANGED vars
  BY <1>0, <1>00 DEF vars, parentVars, childVars
<1>r. ASSUME Reaped, UNCHANGED <<down, asked, answered>> PROVE CountOk(a)'
  <2>1. \A c \in Child : /\ proc'[c] = proc[c] \/ (proc[c] = "zombie" /\ proc'[c] = "reaped")
                         /\ buf'[c] \in {buf[c], <<>>} /\ up'[c] \in {up[c], <<>>}
    BY <1>r DEF Reaped, Zombies, Without
  <2> QED
    BY <1>r, <2>1, <1>l DEF None
<1> USE DEF parentVars, childVars, At
<1>1. CASE Top \/ BeforePoll \/ NoMessages \/ Clear \/ Stop \/ Signal \/ Rest
  BY <1>0, <1>1 DEF Top, BeforePoll, NoMessages, Clear, Stop, Signal, Interrupted, Rest, vars
<1>2. CASE Start
  <2>1. CASE UNCHANGED proc
    BY <1>0, <1>2, <2>1 DEF Start
  <2>2. CASE ~UNCHANGED proc
    <3>1. PICK b \in actaq : Forked(Fetch(b))
      BY <1>2, <2>2 DEF Start
    <3>2. UNCHANGED <<buf, up, down, asked, answered>>
      BY <1>2 DEF Start
    <3>3. \A c \in Child : ~IsFetch(c) => proc'[c] = proc[c]
      BY <3>1, <1>p, Kinds DEF TypeOK, Forked
    <3>4. Jobs(a)' = Jobs(a)
      BY <3>3 DEF Jobs, IsFetch
    <3>5. Unanswered(a)' \subseteq Unanswered(a)
      BY <3>2, <3>3, CountParts
    <3>6. Requests(a)' <= Requests(a) /\ Answers(a)' <= Answers(a)
      BY <3>2, CountParts
    <3> QED
      BY <1>w, <3>2, <3>4, <3>5, <3>6, CountLess
  <2> QED
    BY <2>1, <2>2
<1>3. CASE Poll
  <2>1. UNCHANGED <<proc, down, asked, answered>>
    BY <1>3 DEF Poll
  <2>2. \A c \in Child : \A m :
          Count(buf'[c], m) + Count(up'[c], m) = Count(buf[c], m) + Count(up[c], m)
    <3> SUFFICES ASSUME NEW c \in Child, NEW m
                 PROVE Count(buf'[c], m) + Count(up'[c], m) = Count(buf[c], m) + Count(up[c], m)
      OBVIOUS
    <3>1. Count(buf[c], m) \in Nat /\ Count(up[c], m) \in Nat
      BY <1>p, CountType
    <3>2. CASE c \in open
      <4>1. buf'[c] = buf[c] \o up[c] /\ up'[c] = <<>>
        BY <1>3, <3>2 DEF Poll
      <4>2. Count(buf[c] \o up[c], m) = Count(buf[c], m) + Count(up[c], m)
        BY <1>p, CountConcat
      <4> QED
        BY <3>1, <4>1, <4>2, CountEmpty
    <3>3. CASE c \notin open
      BY <1>3, <3>3 DEF Poll
    <3> QED
      BY <3>2, <3>3
  <2>3. Requests(a)' = Requests(a)
    BY <1>n, <1>f, <2>2 DEF Requests
  <2>4. Answers(a)' = Answers(a) /\ Jobs(a)' = Jobs(a)
    BY <1>n, <2>1 DEF Answers, Jobs, IsFetch
  <2>5. Unanswered(a)' \subseteq Unanswered(a)
    <3> SUFFICES ASSUME NEW c \in Unanswered(a)' PROVE c \in Unanswered(a)
      OBVIOUS
    <3>1. /\ c \in Jobs(a) /\ c \in Child
          /\ proc[c] = "run" \/ Count(buf'[c], "done") > 0 \/ Count(up'[c], "done") > 0
      BY <2>1, <2>4 DEF Unanswered, Jobs, Count
    <3>2. /\ Count(buf[c], "done") \in Nat /\ Count(up[c], "done") \in Nat
          /\ Count(buf'[c], "done") \in Nat /\ Count(up'[c], "done") \in Nat
      <4>1. buf[c] \in Seq(Message) /\ up[c] \in Seq(Message)
            /\ buf'[c] \in Seq(Message) /\ up'[c] \in Seq(Message)
        BY <3>1 DEF TypeOK, Child, Message
      <4> QED
        BY <4>1, CountType
    <3> QED
      BY <2>2, <3>1, <3>2 DEF Unanswered
  <2> QED
    BY <1>w, <1>b, <2>1, <2>3, <2>4, <2>5, CountLess
<1>4. CASE Sleep
  BY <1>4, <1>r DEF Sleep
<1>5. CASE Reap
  BY <1>5, <1>0, <1>r DEF Reap
<1>6. CASE Close
  <2>1. \A c \in Child : /\ proc'[c] = proc[c] /\ down'[c] = down[c]
                         /\ buf'[c] \in {buf[c], <<>>} /\ up'[c] \in {up[c], <<>>}
    BY <1>6 DEF Close, Without
  <2> QED
    BY <1>6, <2>1, <1>l DEF Close
<1>7. CASE WaitForAll
  <2>1. \A c \in Child : /\ proc'[c] = proc[c] \/ (proc[c] = "zombie" /\ proc'[c] = "reaped")
                         /\ buf'[c] = buf[c] /\ up'[c] = up[c] /\ down'[c] = down[c]
    BY <1>7 DEF WaitForAll
  <2> QED
    BY <1>7, <2>1, <1>l DEF WaitForAll, None
<1>8. ASSUME NEW c \in children, Request(c) PROVE CountOk(a)'
  <2>0. Received(c, "action") /\ buf[c] # <<>> /\ Head(buf[c]) = "action"
    BY <1>8 DEF Request, Received, Ready
  <2> PICK new \in Child : new = <<c[1], Cardinality(Jobs(c[1])) + 1>>
    BY <2>0, Requested
  <2>1. Forked(new) /\ Take(c) /\ UNCHANGED <<up, down, asked, answered>>
    BY <1>8 DEF Request
  <2>2. /\ c \in Child /\ c = Fetch(c[1]) /\ c[1] \in Account
        /\ ~IsFetch(new) /\ new[1] = c[1] /\ proc[new] = None
    BY <2>0, Requested, Kinds
  <2>3. /\ buf'[c] = Tail(buf[c]) /\ \A d \in Child : d # c => buf'[d] = buf[d]
        /\ proc'[new] = "run" /\ \A d \in Child : d # new => proc'[d] = proc[d]
    BY <2>1, <2>2, <1>p DEF Take, Forked
  <2>4. Answers(a)' = Answers(a)
    BY <1>n, <2>1 DEF Answers
  <2>5. CASE c[1] # a
    <3>1. Fetch(a) # c
      BY <2>2, <2>5, <1>f
    <3>2. Requests(a)' = Requests(a)
      BY <1>n, <1>f, <2>1, <2>3, <3>1 DEF Requests
    <3>3. Jobs(a)' = Jobs(a)
      BY <2>2, <2>3, <2>5 DEF Jobs, IsFetch
    <3>4. Unanswered(a)' \subseteq Unanswered(a)
      <4> SUFFICES ASSUME NEW d \in Unanswered(a)' PROVE d \in Unanswered(a)
        OBVIOUS
      <4>1. d \in Jobs(a) /\ d \in Child /\ d # new /\ d # c
        BY <2>2, <2>5, <3>3, Kinds DEF Unanswered, Jobs
      <4>2. proc'[d] = proc[d] /\ buf'[d] = buf[d] /\ up'[d] = up[d]
        BY <2>1, <2>3, <4>1
      <4> QED
        BY <4>1, <4>2 DEF Unanswered, Jobs, Count
    <3> QED
      BY <1>w, <1>b, <2>1, <2>4, <3>2, <3>3, <3>4, CountLess
  <2>6. CASE c[1] = a
    <3> DEFINE n == Cardinality(Jobs(a))
    <3>1. Fetch(a) = c /\ new = <<a, n + 1>>
      BY <2>2, <2>6
    <3>2. Requests(a)' = Requests(a) - 1
      <4>1. Count(buf[c], "action") = Count(Tail(buf[c]), "action") + 1
        BY <1>p, <2>0, <2>2, CountTail
      <4>2. Count(Tail(buf[c]), "action") \in Nat
        <5>1. Tail(buf[c]) \in Seq(Message)
          BY <1>p, <2>0, <2>2
        <5> QED
          BY <5>1, CountType
      <4> QED
        BY <1>n, <1>c, <1>f, <2>1, <2>3, <3>1, <4>1, <4>2 DEF Requests
    <3>3. Jobs(a)' = Jobs(a) \cup {new} /\ new \notin Jobs(a)
      BY <2>2, <2>3, <2>6 DEF Jobs, IsFetch, None
    <3>4. Cardinality(Jobs(a)') = n + 1
      BY <1>b, <3>3, FS_AddElement DEF Counted
    <3>5. Jobs(a)' = {<<a, k>> : k \in 1 .. n + 1}
      <4>1. Jobs(a) = {<<a, k>> : k \in 1 .. n} /\ n \in Nat
        BY <1>b DEF CountOk
      <4>2. 1 .. n + 1 = (1 .. n) \cup {n + 1}
        BY <4>1
      <4> HIDE DEF n
      <4> QED
        BY <3>1, <3>3, <4>1, <4>2
    <3>6. Cardinality(Unanswered(a)') <= Cardinality(Unanswered(a)) + 1
      <4>1. Unanswered(a)' \subseteq Unanswered(a) \cup {new}
        <5> SUFFICES ASSUME NEW d \in Unanswered(a)', d # new PROVE d \in Unanswered(a)
          OBVIOUS
        <5>1. d \in Jobs(a) /\ d \in Child /\ d # c
          BY <2>2, <3>3, Kinds DEF Unanswered, Jobs
        <5>2. proc'[d] = proc[d] /\ buf'[d] = buf[d] /\ up'[d] = up[d]
          BY <2>1, <2>3, <5>1
        <5> QED
          BY <5>1, <5>2 DEF Unanswered, Jobs, Count
      <4>2. /\ IsFiniteSet(Unanswered(a) \cup {new})
            /\ Cardinality(Unanswered(a) \cup {new}) \in
                 {Cardinality(Unanswered(a)), Cardinality(Unanswered(a)) + 1}
        BY <1>b, FS_AddElement DEF Counted
      <4>3. Cardinality(Unanswered(a)') <= Cardinality(Unanswered(a) \cup {new})
        BY <4>1, <4>2, FS_Subset
      <4> QED
        BY <1>b, <4>2, <4>3
    <3> HIDE DEF n
    <3>7. n \in Nat /\ n = Cardinality(Jobs(a))
      BY <1>b DEF n
    <3> QED
      BY <1>w, <1>b, <2>1, <2>4, <3>2, <3>4, <3>5, <3>6, <3>7 DEF CountOk
  <2> QED
    BY <2>5, <2>6
<1>9. ASSUME NEW c \in children, Refuse(c) PROVE CountOk(a)'
  <2>1. /\ Received(c, "action") /\ buf[c] # <<>> /\ Head(buf[c]) = "action"
        /\ SendOrDie(c, "done", down) /\ Take(c) /\ UNCHANGED <<proc, up, asked, answered>>
    BY <1>9 DEF Refuse, Received, Ready
  <2>2. c \in Child /\ c = Fetch(c[1]) /\ c[1] \in Account
    BY <2>1, Requested, Kinds
  <2>3. /\ buf'[c] = Tail(buf[c]) /\ down'[c] \in {down[c], Append(down[c], "done")}
        /\ \A d \in Child : d # c => buf'[d] = buf[d] /\ down'[d] = down[d]
    BY <2>1, <2>2, <1>p DEF Take, SendOrDie
  <2>4. Jobs(a)' = Jobs(a)
    BY <2>1 DEF Jobs, IsFetch
  <2>5. Unanswered(a)' = Unanswered(a)
    <3>1. \A d \in Jobs(a) : d \in Child /\ d # c
      BY <2>2, Kinds DEF Jobs
    <3> QED
      BY <2>1, <2>3, <2>4, <3>1 DEF Unanswered, Count
  <2>6. CASE Fetch(a) # c
    <3>1. Requests(a)' = Requests(a) /\ Answers(a)' = Answers(a)
      BY <1>n, <1>f, <2>1, <2>3, <2>6 DEF Requests, Answers
    <3> QED
      BY <1>w, <1>b, <2>1, <2>4, <2>5, <3>1, CountLess
  <2>7. CASE Fetch(a) = c
    <3>1. Requests(a)' = Requests(a) - 1
      <4>1. Count(buf[c], "action") = Count(Tail(buf[c]), "action") + 1
        BY <1>p, <2>1, <2>2, CountTail
      <4>2. Count(Tail(buf[c]), "action") \in Nat
        <5>1. Tail(buf[c]) \in Seq(Message)
          BY <1>p, <2>1, <2>2
        <5> QED
          BY <5>1, CountType
      <4> QED
        BY <1>n, <1>c, <1>f, <2>1, <2>3, <2>7, <4>1, <4>2 DEF Requests
    <3>2. Answers(a)' <= Answers(a) + 1
      <4>1. \/ down'[Fetch(a)] = down[Fetch(a)]
            \/ down'[Fetch(a)] = Append(down[Fetch(a)], "done")
        BY <2>3, <2>7
      <4>3. /\ Count(down[Fetch(a)], "done") \in Nat
            /\ Count(Append(down[Fetch(a)], "done"), "done") = Count(down[Fetch(a)], "done") + 1
        BY <1>d, <1>f
      <4>4. Count(down'[Fetch(a)], "done") <= Count(down[Fetch(a)], "done") + 1
        <5> DEFINE D(s) == Count(s, "done")
        <5>1. \/ D(down'[Fetch(a)]) = D(down[Fetch(a)])
              \/ D(down'[Fetch(a)]) = D(Append(down[Fetch(a)], "done"))
          BY <4>1, Zenon
        <5> QED
          BY <4>3, <5>1
      <4> QED
        BY <1>n, <1>m, <4>4
    <3>3. Cardinality(Unanswered(a)') = Cardinality(Unanswered(a))
      BY <2>5
    <3>4. /\ Requests(a)' <= Requests(a)
          /\ Requests(a)' + Cardinality(Unanswered(a)') + Answers(a)'
               <= Requests(a) + Cardinality(Unanswered(a)) + Answers(a)
      BY <1>b, <3>1, <3>2, <3>3
    <3> QED
      BY <1>w, <2>1, <2>4, <3>4, CountMoved
  <2> QED
    BY <2>6, <2>7
<1>10. ASSUME NEW c \in children, Release(c) PROVE CountOk(a)'
  <2>1. /\ Received(c, "exit") /\ buf[c] # <<>> /\ Head(buf[c]) = "exit"
        /\ SendOrDie(c, "exit", down) /\ Take(c) /\ UNCHANGED <<proc, up, asked, answered>>
    BY <1>10 DEF Release, Received, Ready
  <2>2. c \in Child /\ SocketsOk(c) /\ c = Fetch(c[1]) /\ c[1] \in Account
    <3>1. c \in Child /\ SocketsOk(c)
      BY DEF TypeOK, SocketInv
    <3>2. "exit" \in Speaks(c)
      BY <2>1, <3>1 DEF SocketsOk
    <3> QED
      BY <3>1, <3>2, Kinds DEF Speaks
  <2>3. /\ buf'[c] = Tail(buf[c]) /\ down'[c] \in {down[c], Append(down[c], "exit")}
        /\ \A d \in Child : d # c => buf'[d] = buf[d] /\ down'[d] = down[d]
    BY <2>1, <2>2, <1>p DEF Take, SendOrDie
  <2>4. Jobs(a)' = Jobs(a)
    BY <2>1 DEF Jobs, IsFetch
  <2>5. Unanswered(a)' = Unanswered(a)
    <3>1. \A d \in Jobs(a) : d \in Child /\ d # c
      BY <2>2, Kinds DEF Jobs
    <3> QED
      BY <2>1, <2>3, <2>4, <3>1 DEF Unanswered, Count
  <2>6. Requests(a)' = Requests(a)
    <3>1. Count(buf[c], "action") = Count(Tail(buf[c]), "action") + 0
      BY <1>p, <2>1, <2>2, CountTail
    <3>2. Count(Tail(buf[c]), "action") \in Nat
      <4>1. Tail(buf[c]) \in Seq(Message)
        BY <1>p, <2>1, <2>2
      <4> QED
        BY <4>1, CountType
    <3> QED
      BY <1>n, <1>f, <2>1, <2>3, <3>1, <3>2 DEF Requests
  <2>7. Answers(a)' = Answers(a)
    <3>1. \/ down'[Fetch(a)] = down[Fetch(a)]
          \/ down'[Fetch(a)] = Append(down[Fetch(a)], "exit")
      BY <1>f, <2>3
    <3> QED
      BY <1>n, <1>d, <1>f, <3>1 DEF Answers
  <2> QED
    BY <1>w, <1>b, <2>1, <2>4, <2>5, <2>6, <2>7, CountLess
<1>11. ASSUME NEW c \in children, Forward(c) PROVE CountOk(a)'
  <2>1. /\ Received(c, "done") /\ buf[c] # <<>> /\ Head(buf[c]) = "done"
        /\ buf' = [buf EXCEPT ![c] = <<>>] /\ up' = [up EXCEPT ![c] = <<>>]
        /\ UNCHANGED <<proc, asked, answered>>
    BY <1>11 DEF Forward, Received, Ready
  <2>2. c \in Child /\ SocketsOk(c) /\ ~IsFetch(c) /\ Owner(c) \in Child /\ IsFetch(Owner(c))
        /\ Owner(c) = Fetch(c[1]) /\ c[1] \in Account
    <3>1. c \in Child /\ SocketsOk(c)
      BY DEF TypeOK, SocketInv
    <3>2. "done" \in Speaks(c)
      BY <2>1, <3>1 DEF SocketsOk
    <3> QED
      BY <3>1, <3>2, Kinds DEF Speaks
  <2>3. c \in Jobs(c[1])
    BY <2>2 DEF IInv, KinInv, Jobs
  <2>4. /\ buf'[c] = <<>> /\ up'[c] = <<>>
        /\ \A d \in Child : d # c => buf'[d] = buf[d] /\ up'[d] = up[d]
    BY <1>p, <2>1, <2>2
  <2>5. /\ down'[Owner(c)] \in {down[Owner(c)], Append(down[Owner(c)], "done")}
        /\ \A d \in Child : d # c /\ d # Owner(c) => down'[d] = down[d]
    <3>1. PassedOn(Owner(c)) \in {down, [down EXCEPT ![Owner(c)] = Append(@, "done")]}
      BY DEF PassedOn
    <3>2. UNCHANGED down \/ down' = PassedOn(Owner(c))
          \/ down' = [PassedOn(Owner(c)) EXCEPT ![c] = Append(@, "exit")]
      BY <1>11 DEF Forward, SendOrDie
    <3>3. Owner(c) # c
      BY <2>2
    <3> QED
      BY <1>p, <2>2, <3>1, <3>2, <3>3
  <2>6. Jobs(a)' = Jobs(a)
    BY <2>1 DEF Jobs, IsFetch
  <2>7. Requests(a)' = Requests(a)
    <3>1. Fetch(a) # c
      BY <1>f, <2>2
    <3> QED
      BY <1>n, <1>f, <2>4, <3>1 DEF Requests
  <2>8. Unanswered(a)' \subseteq Unanswered(a) \ {c}
    <3>1. c \notin Unanswered(a)'
      <4>1. proc[c] # "run"
        BY <2>1, <2>2 DEF SocketsOk, Silent
      <4>2. Count(<<>>, "done") = 0
        BY CountEmpty
      <4> QED
        BY <1>u, <2>1, <2>4, <4>1, <4>2
    <3>2. ASSUME NEW d \in Unanswered(a)', d # c PROVE d \in Unanswered(a)
      <4>1. d \in Child
        BY DEF Unanswered, Jobs, Child
      <4> QED
        BY <2>1, <2>4, <2>6, <3>2, <4>1 DEF Unanswered, Count
    <3> QED
      BY <3>1, <3>2
  <2>9. CASE c[1] # a
    <3>1. Fetch(a) # c /\ Fetch(a) # Owner(c)
      BY <1>f, <2>2, <2>9
    <3>2. Answers(a)' = Answers(a)
      BY <1>n, <1>f, <2>5, <3>1 DEF Answers
    <3> QED
      BY <1>w, <1>b, <2>1, <2>6, <2>7, <2>8, <3>2, CountLess
  <2>10. CASE c[1] = a
    <3>1. c \in Unanswered(a)
      <4>1. Count(buf[c], "done") > 0
        BY <1>p, <2>1, <2>2, CountHead
      <4> QED
        BY <2>3, <2>10, <4>1 DEF Unanswered
    <3>2. Cardinality(Unanswered(a)') <= Cardinality(Unanswered(a)) - 1
      <4>1. /\ IsFiniteSet(Unanswered(a) \ {c})
            /\ Cardinality(Unanswered(a) \ {c}) = Cardinality(Unanswered(a)) - 1
        BY <1>b, <3>1, FS_RemoveElement DEF Counted
      <4> QED
        BY <2>8, <4>1, FS_Subset
    <3>3. Answers(a)' <= Answers(a) + 1
      <4>1. Fetch(a) = Owner(c)
        BY <2>2, <2>10
      <4>2. \/ down'[Fetch(a)] = down[Fetch(a)]
            \/ down'[Fetch(a)] = Append(down[Fetch(a)], "done")
        BY <2>5, <4>1
      <4>3. /\ Count(down[Fetch(a)], "done") \in Nat
            /\ Count(Append(down[Fetch(a)], "done"), "done") = Count(down[Fetch(a)], "done") + 1
        BY <1>d, <1>f
      <4>4. Count(down'[Fetch(a)], "done") <= Count(down[Fetch(a)], "done") + 1
        <5> DEFINE D(s) == Count(s, "done")
        <5>1. \/ D(down'[Fetch(a)]) = D(down[Fetch(a)])
              \/ D(down'[Fetch(a)]) = D(Append(down[Fetch(a)], "done"))
          BY <4>2, Zenon
        <5> QED
          BY <4>3, <5>1
      <4> QED
        BY <1>n, <1>m, <4>4
    <3>4. Requests(a)' + Cardinality(Unanswered(a)') + Answers(a)'
            <= Requests(a) + Cardinality(Unanswered(a)) + Answers(a)
      BY <1>b, <2>7, <3>2, <3>3
    <3>5. Requests(a)' <= Requests(a)
      BY <1>b, <2>7
    <3> QED
      BY <1>w, <2>1, <2>6, <3>4, <3>5, CountMoved
  <2> QED
    BY <2>9, <2>10
\* A fetch child adds a request or an exit to its socket, or takes an answer.
<1>q. ASSUME NEW b \in Account, b # a,
             \A d \in Child : d # Fetch(b) => up'[d] = up[d] /\ down'[d] = down[d] /\ proc'[d] = proc[d],
             proc'[Fetch(b)] = None <=> proc[Fetch(b)] = None,
             buf' = buf, asked'[a] = asked[a], answered'[a] = answered[a]
      PROVE  CountOk(a)'
  <2>1. Fetch(a) # Fetch(b)
    BY <1>f, <1>q
  <2>2. \A c \in Child : ~IsFetch(c) => c # Fetch(b)
    BY Kinds
  <2>3. Jobs(a)' = Jobs(a) /\ Unanswered(a)' \subseteq Unanswered(a)
    BY <1>q, <2>2, CountParts DEF Jobs, IsFetch
  <2>4. Requests(a)' <= Requests(a) /\ Answers(a)' <= Answers(a)
    BY <1>q, <1>f, <2>1, CountParts
  <2>5. Cardinality(Unanswered(a)') <= Cardinality(Unanswered(a))
    BY <1>b, <2>3, FS_Subset DEF Counted
  <2> QED
    BY <1>q, <1>w, <1>b, <2>3, <2>4, <2>5 DEF CountOk
<1>12. ASSUME NEW b \in Account, Ask(b) PROVE CountOk(a)'
  <2>1. /\ UNCHANGED <<proc, buf, down, answered>> /\ up' = [up EXCEPT ![Fetch(b)] = Append(@, "action")]
        /\ asked' = [asked EXCEPT ![b] = @ + 1] /\ asked[b] < world.jobs[b]
        /\ proc[Fetch(b)] = "run"
    BY <1>12 DEF Ask, Says
  <2>2. CASE b # a
    BY <1>p, <1>q, <2>1, <2>2 DEF TypeOK
  <2>3. CASE b = a
    <3>1. Jobs(a)' = Jobs(a)
      BY <2>1 DEF Jobs, IsFetch
    <3>2. Unanswered(a)' = Unanswered(a)
      <4>1. \A d \in Jobs(a) : d \in Child /\ d # Fetch(a)
        BY <1>f DEF Jobs
      <4>2. \A d \in Jobs(a) : up'[d] = up[d]
        BY <1>p, <2>1, <2>3, <4>1
      <4> QED
        BY <2>1, <3>1, <4>2 DEF Unanswered, Count
    <3>3. Answers(a)' = Answers(a)
      BY <1>n, <1>m, <2>1
    <3>4. Requests(a)' = Requests(a) + 1
      <4>1. up'[Fetch(a)] = Append(up[Fetch(a)], "action")
        BY <1>p, <1>f, <2>1, <2>3
      <4>2. up[Fetch(a)] \in Seq(Message) /\ "action" \in Message
        BY <1>p, <1>f DEF Message
      <4>3. Count(Append(up[Fetch(a)], "action"), "action") = Count(up[Fetch(a)], "action") + 1
        BY <4>2, CountAppend
      <4> QED
        BY <1>n, <1>c, <2>1, <4>1, <4>3 DEF Requests
    <3>5. asked'[a] = asked[a] + 1
      BY <2>1, <2>3 DEF TypeOK
    <3>6. a \in DOMAIN world.jobs /\ world.jobs[a] \in Nat
      BY <2>1, <2>3, Worldly, ParentAssumption DEF SocketInv, None
    <3>7. Cardinality(Unanswered(a)') = Cardinality(Unanswered(a))
      BY <3>2
    <3>8. asked[a] < world.jobs[a] /\ answered'[a] = answered[a]
      BY <2>1, <2>3
    <3> QED
      BY <1>w, <1>b, <3>1, <3>3, <3>4, <3>5, <3>6, <3>7, <3>8 DEF CountOk
  <2> QED
    BY <2>2, <2>3
<1>13. ASSUME NEW b \in Account, Answer(b) PROVE CountOk(a)'
  <2>1. /\ UNCHANGED <<proc, buf, up, asked>> /\ down' = [down EXCEPT ![Fetch(b)] = Tail(@)]
        /\ answered' = [answered EXCEPT ![b] = @ + 1] /\ down[Fetch(b)] # <<>>
        /\ proc[Fetch(b)] = "run"
    BY <1>13 DEF Answer
  <2>2. CASE b # a
    BY <1>p, <1>q, <2>1, <2>2 DEF TypeOK
  <2>3. CASE b = a
    <3>1. Jobs(a)' = Jobs(a)
      BY <2>1 DEF Jobs, IsFetch
    <3>2. Unanswered(a)' = Unanswered(a)
      BY <2>1, <3>1 DEF Unanswered, Count
    <3>3. Requests(a)' = Requests(a)
      BY <1>n, <2>1 DEF Requests
    <3>4. Answers(a)' = Answers(a) - 1
      <4>1. down'[Fetch(a)] = Tail(down[Fetch(a)])
        BY <1>p, <1>f, <2>1, <2>3
      <4>2. down[Fetch(a)] \in Seq({"done"}) /\ down[Fetch(a)] # <<>>
        BY <1>f, <2>1, <2>3 DEF SocketInv, SocketsOk
      <4>3. Head(down[Fetch(a)]) = "done" /\ Tail(down[Fetch(a)]) \in Seq({"done"})
        BY <4>2
      <4>4. Count(down[Fetch(a)], "done") = Count(Tail(down[Fetch(a)]), "done") + 1
        BY <4>2, <4>3, CountTail
      <4>5. Count(Tail(down[Fetch(a)]), "done") \in Nat
        BY <4>3, CountType
      <4> QED
        BY <1>n, <1>m, <4>1, <4>4, <4>5
    <3>5. answered'[a] = answered[a] + 1
      BY <2>1, <2>3 DEF TypeOK
    <3>6. Cardinality(Unanswered(a)') = Cardinality(Unanswered(a))
      BY <3>2
    <3>7. asked'[a] = asked[a]
      BY <2>1
    <3> QED
      BY <1>w, <1>b, <3>1, <3>3, <3>4, <3>5, <3>6, <3>7 DEF CountOk
  <2> QED
    BY <2>2, <2>3
<1>14. ASSUME NEW b \in Account, Leave(b) PROVE CountOk(a)'
  <2>1. /\ UNCHANGED <<buf, down, asked, answered>> /\ up' = [up EXCEPT ![Fetch(b)] = Append(@, "exit")]
        /\ proc' = [proc EXCEPT ![Fetch(b)] = "leaving"] /\ proc[Fetch(b)] = "run"
    BY <1>14 DEF Leave, Says, Becomes
  <2>0. Fetch(b) \in Child
    BY Kinds
  <2>2. CASE b # a
    BY <1>p, <1>q, <2>0, <2>1, <2>2 DEF None
  <2>3. CASE b = a
    <3>0. \A d \in Child : ~IsFetch(d) => proc'[d] = proc[d] /\ up'[d] = up[d]
      BY <1>p, <2>1, Kinds
    <3>1. Jobs(a)' = Jobs(a) /\ Unanswered(a)' \subseteq Unanswered(a)
      BY <2>1, <3>0, CountParts DEF Jobs, IsFetch
    <3>2. Answers(a)' = Answers(a)
      BY <1>n, <1>m, <2>1
    <3>3. Requests(a)' = Requests(a)
      <4>1. up'[Fetch(a)] = Append(up[Fetch(a)], "exit")
        BY <1>p, <1>f, <2>1, <2>3
      <4>2. up[Fetch(a)] \in Seq(Message) /\ "exit" \in Message
        BY <1>p, <1>f DEF Message
      <4>3. Count(Append(up[Fetch(a)], "exit"), "action") = Count(up[Fetch(a)], "action") + 0
        BY <4>2, CountAppend
      <4> QED
        BY <1>n, <1>c, <2>1, <4>1, <4>3 DEF Requests
    <3> QED
      BY <1>w, <1>b, <2>1, <3>1, <3>2, <3>3, CountLess
  <2> QED
    BY <2>2, <2>3
<1>15. ASSUME NEW c \in Child, Deliver(c) PROVE CountOk(a)'
  <2>1. ~IsFetch(c) /\ UNCHANGED <<buf, down, asked, answered>> /\ proc[c] \in {"run", "sending"}
    BY <1>15 DEF Deliver
  <2>2. PICK m \in {"done", "tags"}, q \in {"sending", "leaving"} :
          /\ Says(c, m) /\ Becomes(c, q) /\ (proc[c] = "run" \/ m = "tags")
    BY <1>15 DEF Deliver
  <2>3. /\ up'[c] = Append(up[c], m) /\ \A d \in Child : d # c => up'[d] = up[d] /\ proc'[d] = proc[d]
        /\ proc'[c] \notin {None, "run"}
    BY <1>p, <2>2 DEF Says, Becomes, None
  <2>4. Fetch(a) # c
    BY <1>f, <2>1
  <2>5. Jobs(a)' = Jobs(a)
    BY <2>1, <2>3 DEF Jobs, IsFetch, None
  <2>6. Requests(a)' = Requests(a) /\ Answers(a)' = Answers(a)
    BY <1>n, <1>m, <1>f, <2>1, <2>3, <2>4 DEF Requests
  <2>7. Unanswered(a)' \subseteq Unanswered(a)
    <3> SUFFICES ASSUME NEW d \in Unanswered(a)' PROVE d \in Unanswered(a)
      OBVIOUS
    <3>1. d \in Jobs(a) /\ d \in Child
      BY <1>u, <2>5 DEF Unanswered
    <3>2. CASE d # c
      BY <1>u, <2>1, <2>3, <3>1, <3>2 DEF Unanswered
    <3>3. CASE d = c /\ proc[c] = "run"
      BY <3>1, <3>3 DEF Unanswered
    <3>4. CASE d = c /\ m = "tags"
      <4>1. up[c] \in Seq(Message) /\ "tags" \in Message
        BY <1>p DEF Message
      <4>a. Count(Append(up[c], "tags"), "done") = Count(up[c], "done") + 0
        BY <4>1, CountAppend
      <4>2. Count(Append(up[c], "tags"), "done") = Count(up[c], "done")
        <5>1. Count(up[c], "done") \in Nat
          BY <4>1, CountType
        <5> QED
          BY <4>a, <5>1
      <4>3. Count(up'[c], "done") = Count(up[c], "done") /\ buf'[c] = buf[c]
        BY <2>1, <2>3, <3>4, <4>2
      <4> QED
        BY <1>u, <2>3, <3>1, <3>4, <4>3 DEF Unanswered
    <3> QED
      BY <2>2, <3>2, <3>3, <3>4
  <2> QED
    BY <1>w, <1>b, <2>1, <2>5, <2>6, <2>7, CountLess
<1>16. ASSUME NEW c \in Child, Dismissed(c) PROVE CountOk(a)'
  <2>1. /\ UNCHANGED <<buf, up, asked, answered>> /\ down[c] # <<>> /\ proc[c] = "leaving"
        /\ down' = [down EXCEPT ![c] = Tail(@)] /\ (Becomes(c, "closing") \/ UNCHANGED proc)
    BY <1>16 DEF Dismissed
  <2>2. \A d \in Child : /\ proc'[d] = None <=> proc[d] = None
                         /\ proc'[d] = proc[d] \/ proc'[d] # "run"
    BY <1>p, <2>1 DEF Becomes, None
  <2>3. Jobs(a)' = Jobs(a) /\ Unanswered(a)' \subseteq Unanswered(a) /\ Requests(a)' <= Requests(a)
    BY <1>f, <2>1, <2>2, CountParts
  <2>4. Answers(a)' <= Answers(a)
    <3>1. CASE c # Fetch(a)
      BY <1>f, <1>p, <2>1, <3>1, CountParts
    <3>2. CASE c = Fetch(a)
      <4>1. Tail(down[c]) \in Seq(Message) /\ down'[c] = Tail(down[c])
        BY <1>p, <2>1
      <4>2. /\ Count(down[c], "done") = Count(Tail(down[c]), "done")
                                         + IF Head(down[c]) = "done" THEN 1 ELSE 0
            /\ Count(Tail(down[c]), "done") \in Nat
        BY <1>p, <2>1, <4>1, CountTail, CountType
      <4> QED
        BY <1>n, <1>m, <3>2, <4>1, <4>2
    <3> QED
      BY <3>1, <3>2
  <2> QED
    BY <1>w, <1>b, <2>1, <2>3, <2>4, CountLess
<1>17. ASSUME NEW c \in Child, Exit(c) \/ Terminated(c) \/ Dies(c) PROVE CountOk(a)'
  <2>1. proc[c] \in Alive /\ Becomes(c, "zombie") /\ UNCHANGED <<buf, up, asked, answered>>
        /\ down' = Without(down, {c})
    BY <1>17 DEF Exit, Terminated, Dies, Ends, Interrupted, Alive
  <2>2. \A d \in Child : /\ proc'[d] = proc[d] \/ (proc[d] # None /\ proc'[d] = "zombie")
                         /\ down'[d] \in {down[d], <<>>}
    BY <1>p, <2>1 DEF Becomes, Without, Alive, None
  <2> QED
    BY <1>l, <2>1, <2>2 DEF None
<1> QED
  BY <1>00, <1>1, <1>2, <1>3, <1>4, <1>5, <1>6, <1>7, <1>8, <1>9, <1>10, <1>11, <1>12,
     <1>13, <1>14, <1>15, <1>16, <1>17
     DEF Next, ParentStep, Handle, Works, Proceeds

-----------------------------------------------------------------------------
(* The theorems.                                                           *)

LEMMA Invariant == Spec => []IInv
<1>1. Init => IInv
  BY TypeInit, KinInit, SocketInit, CountInit DEF IInv
<1>2. IInv /\ [Next]_vars => IInv'
  BY TypeStep, KinStep, SocketStep, CountStep DEF IInv
<1> QED
  BY <1>1, <1>2, PTL DEF Spec

\* The children array never holds more deliver children than there were
\* requests, and no answer is passed on twice (parent-fetch.c, parent-deliver.c).
THEOREM TypeCorrect == Spec => []TypeOK
BY Invariant, PTL DEF IInv

\* A deliver child whose fetch child has been waited for is dead or has been
\* killed (fdm.c:250).
THEOREM OrphansAreKilled == Spec => []NoOrphans
<1>1. IInv => NoOrphans
  BY DEF IInv, KinInv
<1> QED
  BY <1>1, Invariant, PTL

\* When the parent has ended in order every child has been waited for
\* (fdm.c:838-880).
THEOREM NothingIsLeft == Spec => []NothingLeft
<1>1. IInv => NothingLeft
  BY DEF IInv, KinInv
<1> QED
  BY <1>1, Invariant, PTL

\* An account never has more answers than requests: none is passed on twice.
THEOREM AnsweredOnce == Spec => [](\A a \in Account : answered[a] <= asked[a])
<1>1. IInv => \A a \in Account : answered[a] <= asked[a]
  <2> SUFFICES ASSUME IInv, NEW a \in Account PROVE answered[a] <= asked[a]
    OBVIOUS
  <2>1. Counted /\ CountOk(a)
    BY Bounds DEF IInv, CountInv
  <2> QED
    BY <2>1, ParentAssumption DEF Counted, CountOk
<1> QED
  BY <1>1, Invariant, PTL

=============================================================================

----------------------------- MODULE Pop3Proofs -----------------------------
(***************************************************************************)
(* Proofs about the POP3 handler, for any mailbox and any number of runs,  *)
(* reconnections and purges: an index never comes to mean another message, *)
(* no message is fetched twice in a run, and none that is settled is       *)
(* fetched again.                                                          *)
(***************************************************************************)
EXTENDS Pop3, FiniteSetTheorems, SequenceTheorems, TLAPS

-----------------------------------------------------------------------------
(* The invariant.                                                          *)

\* While a connection is made, up to the list of what to fetch.
Ahead == {"connect", "login", "first", "uidl"}
Held  == flight \cup dropq

\* What fdm holds has the index of its message in this connection; what is
\* marked on the server was to be dropped.  While connections change nothing is
\* held.
IndexInv ==
  /\ st \in Ahead \cup {"reconnect"} \cup Over => Held = {}
  /\ \A x \in Held : /\ x.idx \in DOMAIN session /\ session[x.idx] = x.msg
                     /\ x.msg \in Message /\ taken[x.msg] # 0
  /\ \A x \in dropq : "drop" \in decided[x.msg]
  /\ st = "delete" => cur \in dropq
  /\ st = "retr" => cur \in wantq
  /\ \A i \in marked : i \in DOMAIN session /\ "drop" \in decided[session[i]]
  /\ DeletesOnlyDropped

\* With unique ids: a mail is wanted once, and not if it has been fetched; its
\* index is right once the list has been read, unless the list is empty.
WantInv ==
  /\ st = "uidl" => Uidl
  /\ Uidl =>
       /\ \A x, y \in wantq : x.uid = y.uid => x = y
       /\ \A x \in wantq : x.uid \in Message /\ taken[x.uid] = 0
       /\ \A x \in Held : x.uid = x.msg
       /\ st \notin Ahead /\ session # <<>> =>
            \A x \in wantq : x.idx \in DOMAIN session /\ session[x.idx] = x.uid
       /\ Ordered(session)
       /\ FetchedOnce

\* What is to be fetched and has been fetched is part of the total: the list is
\* made but once.
TotalInv ==
  Uidl =>
    /\ IsFiniteSet(wantq) /\ Cardinality(wantq) <= total
    /\ (\E m \in Message : taken[m] # 0) => Cardinality(wantq) < total

\* A settled message is not wanted: as long as it can be listed it is in the
\* cache file, and in the cache once that has been read.
KnownInv ==
  Uidl /\ Only = "new" =>
    /\ \A x \in wantq : x.uid \notin settled
    /\ box \cup ToSet(session) \cup settled \subseteq 1 .. arrived
    /\ st \notin {"connect"} \cup Over => box \cap settled \subseteq ToSet(session)
    /\ settled \cap (box \cup ToSet(session)) \subseteq disk
    /\ st \notin Over /\ total # 0 => settled \cap (box \cup ToSet(session)) \subseteq cacheq

IInv == TypeOK /\ IndexInv /\ WantInv /\ TotalInv /\ KnownInv

-----------------------------------------------------------------------------
(* Types.                                                                  *)

LEMMA Listed ==
  ASSUME NEW s \in Seq(Message)
  PROVE  /\ DOMAIN s = 1 .. Len(s) /\ Len(s) \in Nat
         /\ \A i \in DOMAIN s : s[i] \in Message /\ i \in Nat
         /\ ToSet(s) \subseteq Message
         /\ s = <<>> <=> DOMAIN s = {}
<1>1. DOMAIN s = 1 .. Len(s) /\ Len(s) \in Nat
  BY LenProperties
<1>2. \A i \in 1 .. Len(s) : s[i] \in Message /\ i \in Nat
  BY ElementOfSeq
<1>3. s = <<>> <=> Len(s) = 0
  BY EmptySeq
<1>4. s = <<>> <=> DOMAIN s = {}
  <2>1. 1 .. Len(s) = {} <=> Len(s) = 0
    <3>1. Len(s) # 0 => 1 \in 1 .. Len(s)
      BY <1>1
    <3>2. Len(s) = 0 => 1 .. Len(s) = {}
      BY <1>1
    <3> QED
      BY <3>1, <3>2
  <2> QED
    BY <1>1, <1>3, <2>1
<1>5. ToSet(s) \subseteq Message
  BY <1>1, <1>2 DEF ToSet
<1> QED
  BY <1>1, <1>2, <1>4, <1>5

\* What the server lists on a new connection.
LEMMA Lists ==
  ASSUME box \subseteq Message, NEW s \in [1 .. Cardinality(box) -> box]
  PROVE  s \in Seq(Message)
<1>1. IsFiniteSet(Message)
  BY Pop3Assumption, FS_Interval DEF Message
<1>2. Cardinality(box) \in Nat
  BY <1>1, FS_Subset, FS_CardinalityType
<1>3. s \in [1 .. Cardinality(box) -> Message]
  OBVIOUS
<1> QED
  BY <1>2, <1>3, SeqDef

LEMMA Messages == Message \subseteq Nat /\ 0 \notin Message /\ MaxMessages \in Nat
                  /\ Message \subseteq 0 .. MaxMessages /\ 0 \in 0 .. MaxMessages
                  /\ 0 .. MaxMessages \subseteq Message \cup {0}
BY Pop3Assumption DEF Message

LEMMA NoItemType == NoItem \in ItemType
BY Messages DEF NoItem, ItemType

LEMMA TypeInit == Init => TypeOK
<1> SUFFICES ASSUME Init PROVE TypeOK
  OBVIOUS
<1>1. <<>> \in Seq(Message)
  BY EmptySeq
<1>2. box \subseteq Message /\ arrived \in 0 .. MaxMessages
  BY Pop3Assumption DEF Init, Message
<1>3. /\ taken \in [Message -> Nat] /\ decided \in [Message -> SUBSET {"keep", "drop"}]
  BY DEF Init
<1> QED
  BY <1>1, <1>2, <1>3, NoItemType DEF Init, TypeOK

\* A turn of the loop.
LEMMA TurnType ==
  ASSUME TypeOK, PurgeCheck
  PROVE  lastTotal' \in Nat /\ lastDropped' \in Nat /\ Purging \in BOOLEAN
BY DEF TypeOK, PurgeCheck, Purging, PurgeDue

\* When everything is freed.
LEMMA FreedType ==
  ASSUME Freed
  PROVE  /\ cur' \in ItemType /\ wantq' \subseteq ItemType /\ dropq' \subseteq ItemType
         /\ flight' \subseteq ItemType /\ cacheq' \subseteq 0 .. MaxMessages
         /\ session' \in Seq(Message) /\ marked' \subseteq Nat
<1>1. <<>> \in Seq(Message)
  BY EmptySeq
<1> QED
  BY <1>1, NoItemType DEF Freed

LEMMA ExpungeType ==
  ASSUME TypeOK, Expunge
  PROVE  box' \subseteq box /\ gone' \subseteq Message
BY DEF TypeOK, Expunge

LEMMA TypeStep == IInv /\ [Next]_vars => TypeOK'
<1> SUFFICES ASSUME IInv, [Next]_vars PROVE TypeOK'
  OBVIOUS
<1>t. TypeOK /\ IndexInv /\ WantInv /\ TotalInv
  BY DEF IInv
<1> USE <1>t
<1>0. CASE UNCHANGED vars
  BY <1>0 DEF TypeOK, vars, queueVars, countVars, purgeVars, tallyVars, serverVars,
              outerVars, logVars
<1> USE DEF queueVars, countVars, purgeVars, tallyVars, serverVars, outerVars, logVars
<1>a. account' \in Accounts
  BY DEF Next, vars, TypeOK
<1>l. /\ DOMAIN session = 1 .. Len(session) /\ Len(session) \in Nat
      /\ \A i \in DOMAIN session : session[i] \in Message /\ i \in Nat
      /\ ToSet(session) \subseteq Message
  BY Listed DEF TypeOK
<1>m. /\ Message \subseteq Nat /\ 0 \notin Message /\ MaxMessages \in Nat
      /\ Message \subseteq 0 .. MaxMessages /\ 0 \in 0 .. MaxMessages
  BY Messages
<1>n. NoItem \in ItemType
  BY NoItemType
<1> USE <1>a
<1>1. CASE IdleTurn
  BY <1>1, TurnType DEF IdleTurn, TypeOK
<1>h. ASSUME NEW s, Handler(s), UNCHANGED outerVars
      PROVE  /\ lastTotal' \in Nat /\ lastDropped' \in Nat /\ Purging \in BOOLEAN
             /\ dropped' = dropped /\ kept' = kept /\ arrived' = arrived /\ runs' = runs
  BY <1>h, TurnType DEF Handler
<1>2. CASE Connect /\ UNCHANGED outerVars
  <2>1. session' \in Seq(Message)
    BY <1>2, Lists DEF Connect, TypeOK
  <2>2. conn' \in Nat /\ marked' \subseteq Nat
    BY <1>2 DEF Connect, TypeOK
  <2> QED
    BY <1>2, <1>h, <2>1, <2>2 DEF Connect, TypeOK
<1>3. CASE Login /\ UNCHANGED outerVars
  BY <1>3, <1>h DEF Login, TypeOK
<1>4. CASE First /\ UNCHANGED outerVars
  <2>1. Number \in Nat
    BY <1>l DEF Number
  <2>2. [uid : {0}, idx : 1 .. Number, born : {conn}, msg : {0}] \subseteq ItemType
    BY <1>m, <2>1 DEF ItemType, TypeOK
  <2>3. wantq' \subseteq ItemType /\ total' \in Nat
    BY <1>4, <2>1, <2>2 DEF First, TypeOK
  <2>4. st' \in {"next", "quit", "uidl"}
    BY <1>4 DEF First
  <2> QED
    BY <1>4, <1>h, <2>3, <2>4 DEF First, TypeOK
<1>5. CASE UidlFresh /\ UNCHANGED outerVars
  <2>1. /\ cacheq' \subseteq 0 .. MaxMessages /\ IsFiniteSet(wantq') /\ wantq' \subseteq ItemType
        /\ total' = Cardinality(wantq')
    <3> DEFINE W == {i \in DOMAIN session : Wanted(session[i], cacheq')}
               N == {[uid |-> session[i], idx |-> i, born |-> conn, msg |-> 0] : i \in W}
    <3>1. IsFiniteSet(W)
      <4>1. IsFiniteSet(1 .. Len(session)) /\ W \subseteq 1 .. Len(session)
        BY <1>l, FS_Interval
      <4> QED
        BY <4>1, FS_Subset
    <3>2. IsFiniteSet(N)
      <4> DEFINE f == [i \in W |-> [uid |-> session[i], idx |-> i, born |-> conn, msg |-> 0]]
      <4>1. f \in Surjection(W, N)
        BY DEF Surjection
      <4> QED
        BY <3>1, <4>1, FS_Surjection
    <3>3. N \subseteq ItemType
      <4>1. \A i \in W : session[i] \in 0 .. MaxMessages /\ i \in Nat /\ conn \in Nat
        BY <1>l, <1>m DEF TypeOK
      <4>2. \A i \in W : [uid |-> session[i], idx |-> i, born |-> conn, msg |-> 0] \in ItemType
        BY <1>m, <4>1 DEF ItemType
      <4> QED
        BY <4>2
    <3>4. wantq' = wantq \cup N /\ total' = Cardinality(wantq')
      BY <1>5 DEF UidlFresh
    <3>5. IsFiniteSet(wantq)
      BY <1>5 DEF UidlFresh, Handler, WantInv, TotalInv
    <3>6. cacheq' \subseteq 0 .. MaxMessages
      BY <1>5, <1>l, <1>m DEF UidlFresh
    <3> QED
      BY <3>2, <3>3, <3>4, <3>5, <3>6, FS_Union DEF TypeOK
  <2>2. total' \in Nat
    BY <2>1, FS_CardinalityType
  <2>3. st' \in {"quit", "next"}
    BY <1>5 DEF UidlFresh
  <2> QED
    BY <1>5, <1>h, <2>1, <2>2, <2>3 DEF UidlFresh, TypeOK
<1>6. CASE UidlAgain /\ UNCHANGED outerVars
  <2> DEFINE here == {x \in wantq : x.uid \in ToSet(session)}
             at(x) == CHOOSE i \in DOMAIN session : session[i] = x.uid
  <2>1. \A x \in here : at(x) \in Nat
    BY <1>l DEF ToSet
  <2>2. wantq' = {[x EXCEPT !.idx = at(x)] : x \in here}
    BY <1>6 DEF UidlAgain
  <2> HIDE DEF at
  <2>3. wantq' \subseteq ItemType
    <3>1. \A x \in here : x \in ItemType
      BY DEF TypeOK
    <3>2. \A x \in here : [x EXCEPT !.idx = at(x)] \in ItemType
      BY <2>1, <3>1 DEF ItemType
    <3> QED
      BY <2>2, <3>2
  <2>4. IsFiniteSet(wantq) /\ Cardinality(wantq) <= total
    BY <1>6 DEF UidlAgain, Handler, WantInv, TotalInv
  <2>5. /\ Cardinality(wantq \ here) \in Nat /\ Cardinality(wantq) \in Nat
        /\ Cardinality(wantq \ here) <= Cardinality(wantq)
    BY <2>4, FS_CardinalityType, FS_Subset
  <2>6. total' = total - Cardinality(wantq \ here)
    BY <1>6 DEF UidlAgain
  <2>7. total' \in Nat
    BY <2>4, <2>5, <2>6 DEF TypeOK
  <2> QED
    BY <1>6, <1>h, <2>3, <2>7 DEF UidlAgain, TypeOK
<1>7. CASE NextDelete /\ UNCHANGED outerVars
  BY <1>7, <1>h DEF NextDelete, TypeOK
<1>8. CASE NextQuit /\ UNCHANGED outerVars
  BY <1>8, <1>h DEF NextQuit, TypeOK
<1>9. CASE NextPurge /\ UNCHANGED outerVars
  BY <1>9, <1>h DEF NextPurge, TypeOK
<1>10. CASE NextRetrieve /\ UNCHANGED outerVars
  <2>1. Heads \subseteq ItemType
    BY DEF Heads, TypeOK
  <2> QED
    BY <1>10, <1>h, <2>1 DEF NextRetrieve, TypeOK
<1>11. CASE Deleted /\ UNCHANGED outerVars
  <2>1. /\ cur.idx \in Nat /\ cur.uid \in 0 .. MaxMessages /\ cur.msg \in Message
    BY <1>11 DEF Deleted, Handler, IndexInv, Held, TypeOK, ItemType
  <2>2. /\ marked' \subseteq Nat /\ cacheq' \subseteq 0 .. MaxMessages
        /\ settled' \subseteq Message /\ dropq' \subseteq ItemType
    BY <1>11, <2>1 DEF Deleted, TypeOK
  <2>4. committed' \in Nat /\ st' = "next" /\ cur' \in ItemType
    BY <1>11, <1>n DEF Deleted, TypeOK
  <2>3. disk' \subseteq 0 .. MaxMessages
    BY <1>11, <2>2 DEF Deleted, Save, TypeOK
  <2> QED
    BY <1>11, <1>h, <2>2, <2>3, <2>4 DEF Deleted, TypeOK
<1>12. CASE Reconnect /\ UNCHANGED outerVars
  <2>1. session' \in Seq(Message)
    BY <1>12, EmptySeq DEF Reconnect
  <2> QED
    BY <1>12, <1>h, <2>1, ExpungeType DEF Reconnect, TypeOK
<1>13. CASE Retrieved /\ UNCHANGED outerVars
  <2>1. session[cur.idx] \in Message
    BY <1>13, <1>l DEF Retrieved, Live
  <2> DEFINE x == [cur EXCEPT !.msg = session[cur.idx]]
  <2>2. x \in ItemType /\ x.msg \in Message
    BY <1>m, <2>1 DEF TypeOK, ItemType
  <2>3. /\ wantq' \subseteq ItemType
        /\ \/ flight' = flight \cup {x} /\ dropq' = dropq /\ decided' = decided
           \/ /\ dropq' = dropq \cup {x} /\ flight' = flight
              /\ decided' = [decided EXCEPT ![x.msg] = @ \cup {"drop"}]
        /\ taken' = [taken EXCEPT ![x.msg] = @ + 1]
    BY <1>13 DEF Retrieved, TypeOK
  <2> HIDE DEF x
  <2>4. /\ flight' \subseteq ItemType /\ dropq' \subseteq ItemType
        /\ decided' \in [Message -> SUBSET {"keep", "drop"}]
        /\ taken' \in [Message -> Nat]
    BY <2>2, <2>3 DEF TypeOK
  <2> QED
    BY <1>13, <1>h, <1>n, <2>3, <2>4 DEF Retrieved, TypeOK
<1>14. CASE Quit /\ UNCHANGED outerVars
  BY <1>14, <1>h, FreedType, ExpungeType DEF Quit, TypeOK, Over
<1>15. CASE Refused /\ UNCHANGED outerVars
  BY <1>15, <1>h, FreedType DEF Refused, TypeOK, Over
<1>16. ASSUME NEW x \in flight, CommitDrop(x) PROVE TypeOK'
  <2>1. x \in ItemType /\ x.msg \in Message
    BY DEF IndexInv, Held, TypeOK
  <2>2. decided' \in [Message -> SUBSET {"keep", "drop"}]
    BY <1>16, <2>1 DEF CommitDrop, TypeOK
  <2> QED
    BY <1>16, <2>1, <2>2 DEF CommitDrop, TypeOK
<1>17. ASSUME NEW x \in flight, CommitKeep(x) PROVE TypeOK'
  <2>1. x \in ItemType /\ x.msg \in Message /\ x.uid \in 0 .. MaxMessages
    BY DEF IndexInv, Held, TypeOK, ItemType
  <2>2. /\ decided' \in [Message -> SUBSET {"keep", "drop"}]
        /\ cacheq' \subseteq 0 .. MaxMessages
    BY <1>17, <2>1 DEF CommitKeep, TypeOK
  <2>3. disk' \subseteq 0 .. MaxMessages
    BY <1>17, <2>2 DEF CommitKeep, Save, TypeOK
  <2> QED
    BY <1>17, <2>1, <2>2, <2>3 DEF CommitKeep, TypeOK
<1>18. CASE Stops
  <2>1. box' \subseteq Message /\ gone' \subseteq Message
    BY <1>18, ExpungeType DEF Stops, TypeOK
  <2> QED
    BY <1>18, <2>1, FreedType DEF Stops, TypeOK, Over
<1>19. CASE Restart
  <2>1. session' \in Seq(Message)
    BY <1>19, EmptySeq DEF Restart
  <2>2. taken' \in [Message -> Nat]
    BY <1>19 DEF Restart
  <2>3. /\ st' = "connect" /\ cur' = NoItem
        /\ wantq' = {} /\ dropq' = {} /\ flight' = {} /\ cacheq' = {} /\ marked' = {}
        /\ total' = 0 /\ committed' = 0 /\ dropped' = 0 /\ kept' = 0
        /\ lastTotal' = 0 /\ lastDropped' = 0 /\ conn' = 0 /\ purge' = FALSE
        /\ runs' = runs + 1
    BY <1>19 DEF Restart, Fresh
  <2>4. /\ disk' = disk /\ box' = box /\ gone' = gone /\ arrived' = arrived
        /\ decided' = decided /\ settled' = settled
    BY <1>19 DEF Restart
  <2>5. /\ disk' \subseteq 0 .. MaxMessages /\ box' \subseteq Message
        /\ gone' \subseteq Message /\ arrived' \in 0 .. MaxMessages
        /\ decided' \in [Message -> SUBSET {"keep", "drop"}]
        /\ settled' \subseteq Message /\ runs' \in Nat
    BY <2>3, <2>4 DEF TypeOK
  <2>6. /\ wantq' \subseteq ItemType /\ dropq' \subseteq ItemType
        /\ flight' \subseteq ItemType /\ cacheq' \subseteq 0 .. MaxMessages
        /\ marked' \subseteq Nat
    BY <2>3
  <2> QED
    BY <1>n, <2>1, <2>2, <2>3, <2>5, <2>6 DEF TypeOK
<1>20. CASE Arrives
  BY <1>20, <1>m DEF Arrives, TypeOK, Message
<1>21. CASE Vanishes
  BY <1>21 DEF Vanishes, TypeOK
<1>22. CASE Rest
  BY <1>0, <1>22 DEF Rest
<1> QED
  BY <1>0, <1>1, <1>2, <1>3, <1>4, <1>5, <1>6, <1>7, <1>8, <1>9, <1>10, <1>11, <1>12,
     <1>13, <1>14, <1>15, <1>16, <1>17, <1>18, <1>19, <1>20, <1>21, <1>22
     DEF Next, HandlerStep, CommitStep

-----------------------------------------------------------------------------
(* Indexes.                                                                *)

\* A step that changes neither what is held nor the connection.
LEMMA IndexSame ==
  ASSUME IndexInv,
         session' = session, marked' = marked, gone' = gone, taken' = taken,
         decided' = decided, flight' = flight, dropq' = dropq,
         st' \in Ahead \cup {"reconnect"} \cup Over => Held = {},
         st' = "delete" => cur' \in dropq,
         st' = "retr" => cur' \in wantq'
  PROVE  IndexInv'
<1>1. Held' = Held
  BY DEF Held
<1> QED
  BY <1>1 DEF IndexInv, DeletesOnlyDropped

\* A message that is decided to be dropped stays so.
LEMMA DecidedStays ==
  ASSUME TypeOK, NEW n, NEW d \in {"keep", "drop"},
         decided' = [decided EXCEPT ![n] = @ \cup {d}]
  PROVE  /\ \A m \in Message : decided[m] \subseteq decided'[m]
         /\ n \in Message => d \in decided'[n]
BY DEF TypeOK

\* What the server removes was to be dropped.
LEMMA ExpungeDrops ==
  ASSUME TypeOK, IndexInv, decided' = decided, Expunge
  PROVE  DeletesOnlyDropped'
BY DEF TypeOK, IndexInv, Expunge, DeletesOnlyDropped

\* When everything is freed nothing is held.
LEMMA IndexFreed ==
  ASSUME Freed, DeletesOnlyDropped', st' \notin {"delete", "retr"}
  PROVE  IndexInv'
<1>1. Held' = {} /\ dropq' = {} /\ marked' = {}
  BY DEF Freed, Held
<1> QED
  BY <1>1 DEF IndexInv

LEMMA IndexInit == Init => IndexInv
BY DEF Init, IndexInv, Held, DeletesOnlyDropped

LEMMA IndexStep == IInv /\ [Next]_vars => IndexInv'
<1> SUFFICES ASSUME IInv, [Next]_vars PROVE IndexInv'
  OBVIOUS
<1>t. TypeOK /\ IndexInv
  BY DEF IInv
<1> USE <1>t
<1> USE DEF queueVars, countVars, purgeVars, tallyVars, serverVars, outerVars, logVars
<1>s. /\ st \in Ahead \cup {"reconnect"} \cup Over => Held = {}
      /\ st = "delete" => cur \in dropq
      /\ st = "retr" => cur \in wantq
      /\ DeletesOnlyDropped
  BY DEF IndexInv
<1>0. CASE UNCHANGED vars
  BY <1>0, <1>s, IndexSame DEF vars
<1>1. CASE IdleTurn
  BY <1>1, <1>s, IndexSame DEF IdleTurn
<1>2. CASE Connect
  <2>1. Held' = {} /\ dropq' = {} /\ marked' = {}
    BY <1>2, <1>s DEF Connect, Handler, Held, Ahead
  <2>2. st' = "login" /\ DeletesOnlyDropped'
    BY <1>2, <1>s DEF Connect, DeletesOnlyDropped
  <2> QED
    BY <2>1, <2>2 DEF IndexInv
<1>3. CASE Login
  BY <1>3, <1>s, IndexSame DEF Login, Handler, Ahead
<1>4. CASE First
  <2>1. /\ session' = session /\ marked' = marked /\ gone' = gone /\ taken' = taken
        /\ decided' = decided /\ flight' = flight /\ dropq' = dropq
        /\ st' \in {"next", "quit", "uidl"} /\ st = "first"
    BY <1>4 DEF First, Handler
  <2> QED
    BY <2>1, <1>s, IndexSame DEF Ahead
<1>5. CASE UidlFresh
  <2>1. /\ session' = session /\ marked' = marked /\ gone' = gone /\ taken' = taken
        /\ decided' = decided /\ flight' = flight /\ dropq' = dropq
        /\ st' \in {"next", "quit"}
    BY <1>5 DEF UidlFresh
  <2> QED
    BY <2>1, IndexSame DEF Ahead, Over
<1>6. CASE UidlAgain
  <2>1. /\ session' = session /\ marked' = marked /\ gone' = gone /\ taken' = taken
        /\ decided' = decided /\ flight' = flight /\ dropq' = dropq
        /\ st' = "next"
    BY <1>6 DEF UidlAgain
  <2> QED
    BY <2>1, IndexSame DEF Ahead, Over
<1>7. CASE NextDelete
  BY <1>7, IndexSame DEF NextDelete, Ahead, Over
<1>8. CASE NextQuit
  BY <1>8, IndexSame DEF NextQuit, Ahead, Over
<1>9. CASE NextPurge
  <2>1. Held = {}
    BY <1>9 DEF NextPurge, Held
  <2> QED
    BY <1>9, <2>1, IndexSame DEF NextPurge
<1>10. CASE NextRetrieve
  <2>1. cur' \in wantq'
    BY <1>10 DEF NextRetrieve, Heads
  <2> QED
    BY <1>10, <2>1, IndexSame DEF NextRetrieve, Ahead, Over
<1>11. CASE Deleted
  <2>1. /\ cur \in dropq /\ cur.idx \in DOMAIN session /\ session[cur.idx] = cur.msg
        /\ "drop" \in decided[session[cur.idx]]
    BY <1>11 DEF Deleted, Handler, Live, IndexInv, Held
  <2>2. /\ session' = session /\ decided' = decided /\ taken' = taken /\ gone' = gone
        /\ flight' = flight /\ dropq' \subseteq dropq /\ Held' \subseteq Held
        /\ marked' = marked \cup {cur.idx} /\ st' = "next"
    BY <1>11 DEF Deleted, Held
  <2>3. \A x \in Held' : /\ x.idx \in DOMAIN session' /\ session'[x.idx] = x.msg
                         /\ x.msg \in Message /\ taken'[x.msg] # 0
    BY <2>2 DEF IndexInv
  <2>4. \A i \in marked' : i \in DOMAIN session' /\ "drop" \in decided'[session'[i]]
    BY <2>1, <2>2 DEF IndexInv
  <2>5. /\ \A x \in dropq' : "drop" \in decided'[x.msg]
        /\ DeletesOnlyDropped'
    BY <2>2 DEF IndexInv, DeletesOnlyDropped
  <2> QED
    BY <2>2, <2>3, <2>4, <2>5 DEF IndexInv, Ahead, Over
<1>12. CASE Reconnect
  <2>1. Held' = {} /\ dropq' = {} /\ marked' = {} /\ st' = "connect"
    BY <1>12, <1>s DEF Reconnect, Handler, Held
  <2>2. DeletesOnlyDropped'
    BY <1>12, ExpungeDrops DEF Reconnect
  <2> QED
    BY <2>1, <2>2 DEF IndexInv
<1>13. CASE Retrieved
  <2> DEFINE x == [cur EXCEPT !.msg = session[cur.idx]]
  <2>1. /\ cur.idx \in DOMAIN session /\ cur \in ItemType
    BY <1>13 DEF Retrieved, Live, TypeOK
  <2>2. session[cur.idx] \in Message
    BY <2>1, Listed DEF TypeOK
  <2>3. x.msg = session[x.idx] /\ x.idx \in DOMAIN session /\ x.msg \in Message
    BY <2>1, <2>2 DEF ItemType
  <2>4. /\ \/ flight' = flight \cup {x} /\ dropq' = dropq /\ decided' = decided
           \/ /\ dropq' = dropq \cup {x} /\ flight' = flight
              /\ decided' = [decided EXCEPT ![x.msg] = @ \cup {"drop"}]
        /\ taken' = [taken EXCEPT ![x.msg] = @ + 1]
        /\ session' = session /\ marked' = marked /\ gone' = gone /\ st' = "next"
    BY <1>13 DEF Retrieved
  <2> HIDE DEF x
  <2>5. \A m \in Message : taken[m] # 0 \/ m = x.msg => taken'[m] # 0
    BY <2>3, <2>4 DEF TypeOK
  <2>6. Held' = Held \cup {x}
    BY <2>4 DEF Held
  <2>7. \A y \in Held' : /\ y.idx \in DOMAIN session' /\ session'[y.idx] = y.msg
                         /\ y.msg \in Message /\ taken'[y.msg] # 0
    BY <2>3, <2>4, <2>5, <2>6 DEF IndexInv
  <2>8. \A m \in Message : decided[m] \subseteq decided'[m]
    BY <2>4, DecidedStays
  <2>9. \A y \in dropq' : "drop" \in decided'[y.msg]
    <3>1. \A y \in dropq : y.msg \in Message /\ "drop" \in decided[y.msg]
      BY DEF IndexInv, Held
    <3>2. dropq' # dropq => dropq' = dropq \cup {x} /\ "drop" \in decided'[x.msg]
      BY <2>3, <2>4, DecidedStays
    <3> QED
      BY <2>8, <3>1, <3>2
  <2>10. \A i \in marked' : i \in DOMAIN session' /\ "drop" \in decided'[session'[i]]
    BY <2>4, <2>8, Listed DEF IndexInv, TypeOK
  <2>11. DeletesOnlyDropped'
    BY <2>4, <2>8, <1>s DEF DeletesOnlyDropped, TypeOK
  <2> QED
    BY <2>4, <2>7, <2>9, <2>10, <2>11 DEF IndexInv, Ahead, Over
<1>14. CASE Quit
  <2>1. DeletesOnlyDropped'
    BY <1>14, ExpungeDrops DEF Quit
  <2> QED
    BY <1>14, <2>1, IndexFreed DEF Quit
<1>15. CASE Refused
  <2>1. DeletesOnlyDropped'
    BY <1>15, <1>s DEF Refused, DeletesOnlyDropped
  <2> QED
    BY <1>15, <2>1, IndexFreed DEF Refused
<1>16. ASSUME NEW x \in flight, CommitDrop(x) PROVE IndexInv'
  <2>1. x \in Held /\ x.msg \in Message
    BY DEF IndexInv, Held
  <2>2. /\ flight' = flight \ {x} /\ dropq' = dropq \cup {x} /\ st' = st /\ cur' = cur
        /\ decided' = [decided EXCEPT ![x.msg] = @ \cup {"drop"}]
        /\ taken' = taken /\ session' = session /\ marked' = marked /\ gone' = gone
        /\ wantq' = wantq
    BY <1>16 DEF CommitDrop
  <2>3. Held' = Held /\ Held # {}
    BY <2>1, <2>2 DEF Held
  <2>4. /\ \A m \in Message : decided[m] \subseteq decided'[m]
        /\ "drop" \in decided'[x.msg]
    BY <2>1, <2>2, DecidedStays
  <2>5. \A y \in dropq' : "drop" \in decided'[y.msg]
    <3>1. \A y \in dropq : y.msg \in Message /\ "drop" \in decided[y.msg]
      BY DEF IndexInv, Held
    <3> QED
      BY <2>2, <2>4, <3>1
  <2>6. \A i \in marked' : i \in DOMAIN session' /\ "drop" \in decided'[session'[i]]
    BY <2>2, <2>4, Listed DEF IndexInv, TypeOK
  <2>7. DeletesOnlyDropped'
    BY <2>2, <2>4, <1>s DEF DeletesOnlyDropped, TypeOK
  <2>8. \A y \in Held' : /\ y.idx \in DOMAIN session' /\ session'[y.idx] = y.msg
                         /\ y.msg \in Message /\ taken'[y.msg] # 0
    BY <2>2, <2>3 DEF IndexInv
  <2> QED
    BY <1>s, <2>2, <2>3, <2>5, <2>6, <2>7, <2>8 DEF IndexInv
<1>17. ASSUME NEW x \in flight, CommitKeep(x) PROVE IndexInv'
  <2>1. x \in Held /\ x.msg \in Message
    BY DEF IndexInv, Held
  <2>2. /\ flight' = flight \ {x} /\ dropq' = dropq /\ st' = st /\ cur' = cur
        /\ decided' = [decided EXCEPT ![x.msg] = @ \cup {"keep"}]
        /\ taken' = taken /\ session' = session /\ marked' = marked /\ gone' = gone
        /\ wantq' = wantq
    BY <1>17 DEF CommitKeep
  <2>3. Held' \subseteq Held /\ Held # {} /\ dropq \subseteq Held
    BY <2>1, <2>2 DEF Held
  <2>4. \A m \in Message : decided[m] \subseteq decided'[m]
    BY <2>2, DecidedStays
  <2>5. \A y \in dropq' : "drop" \in decided'[y.msg]
    BY <2>2, <2>3, <2>4 DEF IndexInv
  <2>6. \A i \in marked' : i \in DOMAIN session' /\ "drop" \in decided'[session'[i]]
    BY <2>2, <2>4, Listed DEF IndexInv, TypeOK
  <2>7. DeletesOnlyDropped'
    BY <2>2, <2>4, <1>s DEF DeletesOnlyDropped, TypeOK
  <2>8. \A y \in Held' : /\ y.idx \in DOMAIN session' /\ session'[y.idx] = y.msg
                         /\ y.msg \in Message /\ taken'[y.msg] # 0
    BY <2>2, <2>3 DEF IndexInv
  <2> QED
    BY <1>s, <2>2, <2>3, <2>5, <2>6, <2>7, <2>8 DEF IndexInv
<1>18. CASE Stops
  <2>1. DeletesOnlyDropped'
    <3>1. decided' = decided
      BY <1>18 DEF Stops
    <3>2. CASE gone' = gone
      BY <1>s, <3>1, <3>2 DEF DeletesOnlyDropped
    <3>3. CASE Expunge
      BY <3>1, <3>3, ExpungeDrops
    <3> QED
      BY <1>18, <3>2, <3>3 DEF Stops
  <2> QED
    BY <1>18, <2>1, IndexFreed DEF Stops
<1>19. CASE Restart
  <2>1. Held' = {} /\ dropq' = {} /\ marked' = {} /\ st' = "connect"
    BY <1>19 DEF Restart, Fresh, Held
  <2>2. DeletesOnlyDropped'
    BY <1>19, <1>s DEF Restart, DeletesOnlyDropped
  <2> QED
    BY <2>1, <2>2 DEF IndexInv
<1>20. CASE Arrives
  BY <1>20, <1>s, IndexSame DEF Arrives
<1>21. CASE Vanishes
  BY <1>21, <1>s, IndexSame DEF Vanishes
<1>22. CASE Rest
  BY <1>0, <1>22 DEF Rest
<1> QED
  BY <1>0, <1>1, <1>2, <1>3, <1>4, <1>5, <1>6, <1>7, <1>8, <1>9, <1>10, <1>11, <1>12,
     <1>13, <1>14, <1>15, <1>16, <1>17, <1>18, <1>19, <1>20, <1>21, <1>22
     DEF Next, HandlerStep, CommitStep

-----------------------------------------------------------------------------
(* The want queue.                                                         *)

\* A step on the same connection that fetches nothing.
LEMMA WantSame ==
  ASSUME WantInv, account' = account, session' = session, taken' = taken,
         wantq' \subseteq wantq, Held' \subseteq Held,
         st' = "uidl" => Uidl,
         st' \notin Ahead => st \notin Ahead \/ session = <<>>
  PROVE  WantInv'
<1>1. Uidl' = Uidl
  BY DEF Uidl
<1>2. Ordered(session)' = Ordered(session)
  BY DEF Ordered
<1>3. FetchedOnce' = FetchedOnce
  BY <1>1 DEF FetchedOnce
<1> QED
  BY <1>1, <1>2, <1>3 DEF WantInv

\* A step to another connection, before its list has been read.
LEMMA WantLinked ==
  ASSUME WantInv, account' = account, Ordered(session'), taken' = taken,
         wantq' \subseteq wantq, Held' \subseteq Held,
         st' \in Ahead \ {"uidl"}
  PROVE  WantInv'
<1>1. Uidl' = Uidl
  BY DEF Uidl
<1>2. FetchedOnce' = FetchedOnce
  BY <1>1 DEF FetchedOnce
<1> QED
  BY <1>1, <1>2 DEF WantInv

LEMMA NothingListed == Ordered(<<>>) /\ ToSet(<<>>) = {}
<1>1. <<>> \in Seq(Message)
  BY EmptySeq
<1>2. DOMAIN <<>> = {}
  BY <1>1, Listed
<1> QED
  BY <1>2 DEF Ordered, ToSet

\* When nothing is wanted or held any more.
LEMMA WantFreed ==
  ASSUME account' = account, session' = <<>>, FetchedOnce',
         wantq' = {}, flight' = {}, dropq' = {}, st' # "uidl"
  PROVE  WantInv'
<1>1. Held' = {}
  BY DEF Held
<1>2. Ordered(session')
  BY NothingListed
<1> QED
  BY <1>1, <1>2 DEF WantInv

\* In an ordered list a message has one index.
LEMMA OneIndex ==
  ASSUME NEW s \in Seq(Message), Ordered(s)
  PROVE  \A i, j \in DOMAIN s : s[i] = s[j] => i = j
<1>1. /\ \A i \in DOMAIN s : s[i] \in Message /\ i \in Nat
  BY Listed
<1>2. \A i, j \in DOMAIN s : i < j => s[i] < s[j]
  BY DEF Ordered
<1>3. ASSUME NEW i \in DOMAIN s, NEW j \in DOMAIN s, s[i] = s[j] PROVE i = j
  <2>1. s[i] \in Nat /\ s[j] \in Nat /\ i \in Nat /\ j \in Nat
    BY <1>1, Messages
  <2>2. ~(i < j) /\ ~(j < i)
    BY <1>2, <1>3, <2>1
  <2> QED
    BY <2>1, <2>2
<1> QED
  BY <1>3

\* The first list: the queue was empty and nothing has been fetched.
LEMMA FirstList ==
  ASSUME TypeOK, TotalInv, Uidl, total = 0
  PROVE  wantq = {} /\ \A m \in Message : taken[m] = 0
<1>1. IsFiniteSet(wantq) /\ Cardinality(wantq) \in Nat /\ Cardinality(wantq) <= 0
  BY FS_CardinalityType DEF TotalInv
<1>2. wantq = {}
  BY <1>1, FS_EmptySet
<1>3. ~(Cardinality(wantq) < total)
  BY <1>1
<1> QED
  BY <1>2, <1>3 DEF TotalInv

LEMMA WantInit == Init => WantInv
<1> SUFFICES ASSUME Init PROVE WantInv
  OBVIOUS
<1>1. Held = {} /\ wantq = {} /\ st = "connect" /\ session = <<>>
      /\ \A m \in Message : taken[m] = 0
  BY DEF Init, Held
<1>2. FetchedOnce
  BY <1>1 DEF FetchedOnce
<1> QED
  BY <1>1, <1>2, NothingListed DEF WantInv, Ahead

LEMMA WantStep == IInv /\ [Next]_vars => WantInv'
<1> SUFFICES ASSUME IInv, [Next]_vars PROVE WantInv'
  OBVIOUS
<1>t. TypeOK /\ IndexInv /\ WantInv /\ TotalInv
  BY DEF IInv
<1> USE <1>t
<1> USE DEF queueVars, countVars, purgeVars, tallyVars, serverVars, outerVars, logVars
<1>a. account' = account
  BY DEF Next, vars
<1> USE <1>a
<1>u. st = "uidl" => Uidl
  BY DEF WantInv
<1>w. FetchedOnce
  BY DEF WantInv, FetchedOnce
<1>0. CASE UNCHANGED vars
  BY <1>0, <1>u, WantSame DEF vars, Held
<1>1. CASE IdleTurn
  BY <1>1, <1>u, WantSame DEF IdleTurn, Held
<1>2. CASE Connect
  <2>1. Ordered(session') /\ wantq' = wantq /\ st' = "login" /\ Held' = Held /\ taken' = taken
    BY <1>2 DEF Connect, Held
  <2> QED
    BY <2>1, WantLinked DEF Ahead
<1>3. CASE Login
  BY <1>3, WantSame DEF Login, Held, Ahead
<1>4. CASE First
  <2>1. session' = session /\ taken' = taken /\ Held' = Held /\ st = "first"
    BY <1>4 DEF First, Handler, Held
  <2>2. CASE Number = 0
    <3>1. session = <<>>
      BY <2>2, EmptySeq DEF Number, TypeOK
    <3>2. wantq' = wantq /\ st' \in {"next", "quit"}
      BY <1>4, <2>2 DEF First
    <3> QED
      BY <2>1, <3>1, <3>2, WantSame
  <2>3. CASE Number # 0 /\ Uidl
    <3>1. wantq' = wantq /\ st' = "uidl"
      BY <1>4, <2>3 DEF First
    <3> QED
      BY <2>1, <2>3, <3>1, WantSame DEF Ahead
  <2>4. CASE Number # 0 /\ ~Uidl
    <3>1. ~Uidl' /\ st' = "next"
      BY <1>4, <2>4 DEF First, Uidl
    <3> QED
      BY <3>1 DEF WantInv
  <2> QED
    BY <2>2, <2>3, <2>4
<1>5. CASE UidlFresh
  <2>1. Uidl /\ total = 0
    BY <1>5, <1>u DEF UidlFresh, Handler
  <2>2. wantq = {} /\ \A m \in Message : taken[m] = 0
    BY <2>1, FirstList
  <2>3. \A x \in wantq' : \E i \in DOMAIN session :
          x = [uid |-> session[i], idx |-> i, born |-> conn, msg |-> 0]
    BY <1>5, <2>2 DEF UidlFresh
  <2>4. /\ session' = session /\ taken' = taken /\ Held' = Held /\ st' \in {"next", "quit"}
    BY <1>5 DEF UidlFresh, Held
  <2>5. \A i \in DOMAIN session : session[i] \in Message
    BY Listed DEF TypeOK
  <2>6. \A x \in wantq' : /\ x.uid \in Message /\ taken'[x.uid] = 0
                          /\ x.idx \in DOMAIN session' /\ session'[x.idx] = x.uid
    BY <2>2, <2>3, <2>4, <2>5
  <2>7. \A x, y \in wantq' : x.uid = y.uid => x = y
    <3>1. Ordered(session)
      BY <2>1 DEF WantInv
    <3>2. \A i, j \in DOMAIN session : session[i] = session[j] => i = j
      BY <3>1, OneIndex DEF TypeOK
    <3>3. ASSUME NEW x \in wantq', NEW y \in wantq', x.uid = y.uid PROVE x = y
      <4>1. PICK i \in DOMAIN session :
              x = [uid |-> session[i], idx |-> i, born |-> conn, msg |-> 0]
        BY <2>3
      <4>2. PICK j \in DOMAIN session :
              y = [uid |-> session[j], idx |-> j, born |-> conn, msg |-> 0]
        BY <2>3
      <4>3. session[i] = session[j]
        BY <3>3, <4>1, <4>2
      <4> QED
        BY <3>2, <4>1, <4>2, <4>3
    <3> QED
      BY <3>3
  <2>8. FetchedOnce' /\ Ordered(session')
    BY <2>1, <2>4, <1>w DEF FetchedOnce, Uidl, WantInv
  <2>9. Uidl' /\ \A x \in Held' : x.uid = x.msg
    BY <2>1, <2>4 DEF WantInv, Uidl
  <2> QED
    BY <2>4, <2>6, <2>7, <2>8, <2>9 DEF WantInv
<1>6. CASE UidlAgain
  <2> DEFINE here == {x \in wantq : x.uid \in ToSet(session)}
             at(x) == CHOOSE i \in DOMAIN session : session[i] = x.uid
  <2>1. Uidl
    BY <1>6, <1>u DEF UidlAgain, Handler
  <2>2. wantq' = {[x EXCEPT !.idx = at(x)] : x \in here}
    BY <1>6 DEF UidlAgain
  <2>3. \A x \in here : at(x) \in DOMAIN session /\ session[at(x)] = x.uid
    BY DEF ToSet
  <2> HIDE DEF at
  <2>4. \A x \in wantq : x \in ItemType
    BY DEF TypeOK
  <2>5. \A y \in wantq' : \E x \in wantq : /\ y = [x EXCEPT !.idx = at(x)]
                                           /\ y.uid = x.uid /\ y.idx = at(x)
                                           /\ at(x) \in DOMAIN session
                                           /\ session[at(x)] = x.uid
    BY <2>2, <2>3, <2>4 DEF ItemType
  <2>6. /\ session' = session /\ taken' = taken /\ Held' = Held /\ st' = "next"
    BY <1>6 DEF UidlAgain, Held
  <2>7. \A x \in wantq' : /\ x.uid \in Message /\ taken'[x.uid] = 0
                          /\ x.idx \in DOMAIN session' /\ session'[x.idx] = x.uid
    BY <2>1, <2>5, <2>6 DEF WantInv
  <2>8. \A x, y \in wantq' : x.uid = y.uid => x = y
    <3>1. \A x, y \in wantq : x.uid = y.uid => x = y
      BY <2>1 DEF WantInv
    <3> QED
      BY <2>5, <3>1
  <2>9. FetchedOnce' /\ Ordered(session')
    BY <2>1, <2>6, <1>w DEF FetchedOnce, Uidl, WantInv
  <2>10. Uidl' /\ \A x \in Held' : x.uid = x.msg
    BY <2>1, <2>6 DEF WantInv, Uidl
  <2> QED
    BY <2>6, <2>7, <2>8, <2>9, <2>10 DEF WantInv
<1>7. CASE NextDelete
  BY <1>7, WantSame DEF NextDelete, Handler, Held, Ahead
<1>8. CASE NextQuit
  BY <1>8, WantSame DEF NextQuit, Handler, Held, Ahead
<1>9. CASE NextPurge
  BY <1>9, WantSame DEF NextPurge, Handler, Held, Ahead
<1>10. CASE NextRetrieve
  BY <1>10, WantSame DEF NextRetrieve, Handler, Held, Ahead
<1>11. CASE Deleted
  BY <1>11, WantSame DEF Deleted, Handler, Held, Ahead
<1>12. CASE Reconnect
  <2>1. Ordered(session') /\ wantq' = wantq /\ st' = "connect" /\ Held' = Held /\ taken' = taken
    BY <1>12, NothingListed DEF Reconnect, Held
  <2> QED
    BY <2>1, WantLinked DEF Ahead
<1>13. CASE Retrieved
  <2> DEFINE x == [cur EXCEPT !.msg = session[cur.idx]]
  <2>1. cur \in wantq /\ cur \in ItemType /\ cur.idx \in DOMAIN session /\ st = "retr"
    BY <1>13 DEF Retrieved, Live, Handler, IndexInv, TypeOK
  <2>2. session # <<>>
    <3>1. DOMAIN session # {}
      BY <2>1
    <3> QED
      BY <3>1, Listed DEF TypeOK
  <2>3. x.msg = session[cur.idx] /\ x.uid = cur.uid
    BY <2>1 DEF ItemType
  <2>4. /\ wantq' = wantq \ {cur} /\ Held' = Held \cup {x} /\ st' = "next"
        /\ taken' = [taken EXCEPT ![x.msg] = @ + 1]
        /\ session' = session
    BY <1>13 DEF Retrieved, Held
  <2> HIDE DEF x
  <2>5. CASE ~Uidl
    <3>1. ~Uidl' /\ st' # "uidl"
      BY <2>4, <2>5 DEF Uidl
    <3> QED
      BY <3>1 DEF WantInv
  <2>6. CASE Uidl
    <3>1. x.msg = cur.uid /\ x.msg \in Message /\ taken[x.msg] = 0
      BY <2>1, <2>2, <2>3, <2>6 DEF WantInv, Ahead
    <3>2. \A y \in wantq' : y.uid # x.msg
      BY <2>1, <2>4, <2>6, <3>1 DEF WantInv
    <3>3. \A m \in Message : taken'[m] = IF m = x.msg THEN 1 ELSE taken[m]
      BY <2>4, <3>1 DEF TypeOK
    <3>4. FetchedOnce'
      BY <1>w, <2>6, <3>3 DEF FetchedOnce
    <3>5. \A y \in wantq' : /\ y.uid \in Message /\ taken'[y.uid] = 0
                            /\ y.idx \in DOMAIN session' /\ session'[y.idx] = y.uid
      BY <2>1, <2>2, <2>4, <2>6, <3>2, <3>3 DEF WantInv, Ahead
    <3>6. \A y \in Held' : y.uid = y.msg
      BY <2>3, <2>4, <2>6, <3>1 DEF WantInv
    <3>7. /\ \A y, z \in wantq' : y.uid = z.uid => y = z
          /\ Ordered(session')
      BY <2>4, <2>6 DEF WantInv
    <3> QED
      BY <2>4, <3>4, <3>5, <3>6, <3>7 DEF WantInv
  <2> QED
    BY <2>5, <2>6
<1>f. ASSUME taken' = taken PROVE FetchedOnce'
  BY <1>f, <1>w DEF FetchedOnce, Uidl
<1>14. CASE Quit
  BY <1>14, <1>f, WantFreed DEF Quit, Freed
<1>15. CASE Refused
  BY <1>15, <1>f, WantFreed DEF Refused, Freed
<1>16. ASSUME NEW x \in flight, CommitDrop(x) PROVE WantInv'
  BY <1>16, <1>u, WantSame DEF CommitDrop, Held
<1>17. ASSUME NEW x \in flight, CommitKeep(x) PROVE WantInv'
  BY <1>17, <1>u, WantSame DEF CommitKeep, Held
<1>18. CASE Stops
  BY <1>18, <1>f, WantFreed DEF Stops, Freed
<1>19. CASE Restart
  <2>1. FetchedOnce'
    BY <1>19 DEF Restart, FetchedOnce
  <2> QED
    BY <1>19, <2>1, WantFreed DEF Restart, Fresh
<1>20. CASE Arrives
  BY <1>20, <1>u, WantSame DEF Arrives, Held
<1>21. CASE Vanishes
  BY <1>21, <1>u, WantSame DEF Vanishes, Held
<1>22. CASE Rest
  BY <1>0, <1>22 DEF Rest
<1> QED
  BY <1>0, <1>1, <1>2, <1>3, <1>4, <1>5, <1>6, <1>7, <1>8, <1>9, <1>10, <1>11, <1>12,
     <1>13, <1>14, <1>15, <1>16, <1>17, <1>18, <1>19, <1>20, <1>21, <1>22
     DEF Next, HandlerStep, CommitStep

-----------------------------------------------------------------------------
(* The total.                                                              *)

\* A step that fetches nothing and leaves the want queue alone.
LEMMA TotalSame ==
  ASSUME TotalInv, account' = account, taken' = taken, wantq' = wantq, total' = total
  PROVE  TotalInv'
BY DEF TotalInv, Uidl

\* When the want queue is freed.
LEMMA TotalFreed ==
  ASSUME TypeOK, TotalInv, account' = account, taken' = taken, wantq' = {},
         total' = total
  PROVE  TotalInv'
<1>1. IsFiniteSet(wantq') /\ Cardinality(wantq') = 0
  BY FS_EmptySet
<1>2. Uidl => Cardinality(wantq) \in Nat
  BY FS_CardinalityType DEF TotalInv
<1> QED
  BY <1>1, <1>2 DEF TotalInv, Uidl, TypeOK

\* What the first list asks for is finite.
LEMMA FreshFinite ==
  ASSUME TypeOK, UidlFresh, IsFiniteSet(wantq)
  PROVE  IsFiniteSet(wantq')
<1> DEFINE W == {i \in DOMAIN session : Wanted(session[i], cacheq')}
           N == {[uid |-> session[i], idx |-> i, born |-> conn, msg |-> 0] : i \in W}
           f == [i \in W |-> [uid |-> session[i], idx |-> i, born |-> conn, msg |-> 0]]
<1>1. IsFiniteSet(W)
  <2>1. DOMAIN session = 1 .. Len(session) /\ Len(session) \in Nat
    BY Listed DEF TypeOK
  <2>2. IsFiniteSet(1 .. Len(session)) /\ W \subseteq 1 .. Len(session)
    BY <2>1, FS_Interval
  <2> QED
    BY <2>2, FS_Subset
<1>2. f \in Surjection(W, N)
  BY DEF Surjection
<1>3. IsFiniteSet(N)
  BY <1>1, <1>2, FS_Surjection
<1>4. wantq' = wantq \cup N
  BY DEF UidlFresh
<1> QED
  BY <1>3, <1>4, FS_Union

\* After a reconnection the queue and the total lose the same mails.
LEMMA AgainShrinks ==
  ASSUME TypeOK, UidlAgain, IsFiniteSet(wantq)
  PROVE  /\ IsFiniteSet(wantq')
         /\ total' - Cardinality(wantq') >= total - Cardinality(wantq)
         /\ Cardinality(wantq') \in Nat /\ Cardinality(wantq) \in Nat
<1> DEFINE here == {x \in wantq : x.uid \in ToSet(session)}
           at(x) == CHOOSE i \in DOMAIN session : session[i] = x.uid
           f == [x \in here |-> [x EXCEPT !.idx = at(x)]]
<1>1. wantq' = {[x EXCEPT !.idx = at(x)] : x \in here}
      /\ total' = total - Cardinality(wantq \ here)
  BY DEF UidlAgain
<1> HIDE DEF at
<1>2. f \in Surjection(here, wantq')
  BY <1>1 DEF Surjection
<1>3. IsFiniteSet(here) /\ IsFiniteSet(wantq \ here)
  BY FS_Subset
<1>4. IsFiniteSet(wantq') /\ Cardinality(wantq') <= Cardinality(here)
  BY <1>2, <1>3, FS_Surjection
<1>5. Cardinality(wantq) = Cardinality(here) + Cardinality(wantq \ here)
  <2> DEFINE left == wantq \ here
  <2>1. wantq = here \cup left /\ here \cap left = {} /\ IsFiniteSet(left)
    BY <1>3
  <2> HIDE DEF here, left
  <2>2. Cardinality(here \cap left) = 0
    BY <2>1, FS_EmptySet
  <2>3. Cardinality(here \cup left) =
          Cardinality(here) + Cardinality(left) - Cardinality(here \cap left)
    BY <1>3, <2>1, FS_Union
  <2>4. Cardinality(here) \in Nat /\ Cardinality(left) \in Nat
    BY <1>3, <2>1, FS_CardinalityType
  <2>5. Cardinality(wantq) = Cardinality(here) + Cardinality(left)
    BY <2>1, <2>2, <2>3, <2>4
  <2> QED
    BY <2>5 DEF left
<1>6. /\ Cardinality(wantq') \in Nat /\ Cardinality(here) \in Nat
      /\ Cardinality(wantq \ here) \in Nat /\ Cardinality(wantq) \in Nat
  BY <1>3, <1>4, FS_CardinalityType
<1>7. total \in Nat
  BY DEF TypeOK
<1> HIDE DEF here
<1> QED
  BY <1>1, <1>4, <1>5, <1>6, <1>7

LEMMA TotalInit == Init => TotalInv
<1> SUFFICES ASSUME Init PROVE TotalInv
  OBVIOUS
<1>1. IsFiniteSet(wantq) /\ Cardinality(wantq) = 0 /\ total = 0
  BY FS_EmptySet DEF Init
<1>2. \A m \in Message : taken[m] = 0
  BY DEF Init
<1> QED
  BY <1>1, <1>2 DEF TotalInv

LEMMA TotalStep == IInv /\ [Next]_vars => TotalInv'
<1> SUFFICES ASSUME IInv, [Next]_vars PROVE TotalInv'
  OBVIOUS
<1>t. TypeOK /\ IndexInv /\ WantInv /\ TotalInv
  BY DEF IInv
<1> USE <1>t
<1> USE DEF queueVars, countVars, purgeVars, tallyVars, serverVars, outerVars, logVars
<1>a. account' = account
  BY DEF Next, vars
<1> USE <1>a
<1>u. st = "uidl" => Uidl
  BY DEF WantInv
<1>0. CASE UNCHANGED vars
  BY <1>0, TotalSame DEF vars
<1>1. CASE IdleTurn
  BY <1>1, TotalSame DEF IdleTurn
<1>2. CASE Connect
  BY <1>2, TotalSame DEF Connect
<1>3. CASE Login
  BY <1>3, TotalSame DEF Login
<1>4. CASE First
  <2>1. CASE Uidl
    BY <1>4, <2>1, TotalSame DEF First
  <2>2. CASE ~Uidl
    BY <2>2 DEF TotalInv, Uidl
  <2> QED
    BY <2>1, <2>2
<1>5. CASE UidlFresh
  <2>1. Uidl /\ total = 0
    BY <1>5, <1>u DEF UidlFresh, Handler
  <2>2. \A m \in Message : taken[m] = 0
    BY <2>1, FirstList
  <2>3. IsFiniteSet(wantq')
    BY <1>5, <2>1, FreshFinite DEF TotalInv
  <2>4. Cardinality(wantq') \in Nat
    BY <2>3, FS_CardinalityType
  <2>5. total' = Cardinality(wantq') /\ taken' = taken
    BY <1>5 DEF UidlFresh
  <2> QED
    BY <2>2, <2>3, <2>4, <2>5 DEF TotalInv
<1>6. CASE UidlAgain
  <2>1. Uidl
    BY <1>6, <1>u DEF UidlAgain, Handler
  <2>2. /\ IsFiniteSet(wantq')
        /\ total' - Cardinality(wantq') >= total - Cardinality(wantq)
        /\ Cardinality(wantq') \in Nat /\ Cardinality(wantq) \in Nat
    BY <1>6, <2>1, AgainShrinks DEF TotalInv
  <2>3. taken' = taken /\ total \in Nat
    BY <1>6 DEF UidlAgain, TypeOK
  <2>4. total' = total - Cardinality(wantq \ {x \in wantq : x.uid \in ToSet(session)})
    BY <1>6 DEF UidlAgain
  <2>5. Cardinality(wantq \ {x \in wantq : x.uid \in ToSet(session)}) \in Nat
    BY <2>1, FS_Subset, FS_CardinalityType DEF TotalInv
  <2>6. total' \in Int
    BY <2>3, <2>4, <2>5
  <2>7. Cardinality(wantq) <= total => Cardinality(wantq') <= total'
    BY <2>2, <2>3, <2>6
  <2>8. Cardinality(wantq) < total => Cardinality(wantq') < total'
    BY <2>2, <2>3, <2>6
  <2> QED
    BY <2>1, <2>2, <2>3, <2>7, <2>8 DEF TotalInv
<1>7. CASE NextDelete
  BY <1>7, TotalSame DEF NextDelete
<1>8. CASE NextQuit
  BY <1>8, TotalSame DEF NextQuit
<1>9. CASE NextPurge
  BY <1>9, TotalSame DEF NextPurge
<1>10. CASE NextRetrieve
  BY <1>10, TotalSame DEF NextRetrieve
<1>11. CASE Deleted
  BY <1>11, TotalSame DEF Deleted
<1>12. CASE Reconnect
  BY <1>12, TotalSame DEF Reconnect
<1>13. CASE Retrieved
  <2>1. cur \in wantq /\ wantq' = wantq \ {cur} /\ total' = total /\ total \in Nat
    BY <1>13 DEF Retrieved, Handler, IndexInv, TypeOK
  <2>2. CASE Uidl
    <3>1. IsFiniteSet(wantq) /\ Cardinality(wantq) \in Nat /\ Cardinality(wantq) <= total
      BY <2>2, FS_CardinalityType DEF TotalInv
    <3>2. IsFiniteSet(wantq') /\ Cardinality(wantq') = Cardinality(wantq) - 1
      BY <2>1, <3>1, FS_RemoveElement
    <3>3. Cardinality(wantq') < total' /\ Cardinality(wantq') <= total'
      BY <2>1, <3>1, <3>2
    <3> QED
      BY <3>2, <3>3 DEF TotalInv
  <2>3. CASE ~Uidl
    BY <2>3 DEF TotalInv, Uidl
  <2> QED
    BY <2>2, <2>3
<1>14. CASE Quit
  BY <1>14, TotalFreed DEF Quit, Freed
<1>15. CASE Refused
  BY <1>15, TotalFreed DEF Refused, Freed
<1>16. ASSUME NEW x \in flight, CommitDrop(x) PROVE TotalInv'
  BY <1>16, TotalSame DEF CommitDrop
<1>17. ASSUME NEW x \in flight, CommitKeep(x) PROVE TotalInv'
  BY <1>17, TotalSame DEF CommitKeep
<1>18. CASE Stops
  BY <1>18, TotalFreed DEF Stops, Freed
<1>19. CASE Restart
  <2>1. IsFiniteSet(wantq') /\ Cardinality(wantq') = 0 /\ total' = 0
    BY <1>19, FS_EmptySet DEF Restart, Fresh
  <2>2. \A m \in Message : taken'[m] = 0
    BY <1>19 DEF Restart
  <2> QED
    BY <2>1, <2>2 DEF TotalInv
<1>20. CASE Arrives
  BY <1>20, TotalSame DEF Arrives
<1>21. CASE Vanishes
  BY <1>21, TotalSame DEF Vanishes
<1>22. CASE Rest
  BY <1>0, <1>22 DEF Rest
<1> QED
  BY <1>0, <1>1, <1>2, <1>3, <1>4, <1>5, <1>6, <1>7, <1>8, <1>9, <1>10, <1>11, <1>12,
     <1>13, <1>14, <1>15, <1>16, <1>17, <1>18, <1>19, <1>20, <1>21, <1>22
     DEF Next, HandlerStep, CommitStep

-----------------------------------------------------------------------------
(* What is settled.                                                        *)

Listable == box \cup ToSet(session)

\* A step on the same connection that settles nothing.
LEMMA KnownSame ==
  ASSUME KnownInv, account' = account, settled' = settled, disk' = disk,
         wantq' \subseteq wantq, box' \subseteq box, session' = session,
         arrived' = arrived,
         st' \notin {"connect"} \cup Over => st \notin {"connect"} \cup Over,
         st' \notin Over /\ total' # 0 => st \notin Over /\ total # 0 /\ cacheq' = cacheq
  PROVE  KnownInv'
<1>1. Uidl' = Uidl /\ Only' = Only
  BY DEF Uidl, Only
<1>2. ToSet(session)' = ToSet(session)
  BY DEF ToSet
<1> QED
  BY <1>1, <1>2 DEF KnownInv

\* A step that gives the connection up.
LEMMA KnownGone ==
  ASSUME KnownInv, account' = account, settled' = settled, disk' = disk,
         wantq' \subseteq wantq, box' \subseteq box, session' = <<>>,
         arrived' = arrived,
         st' \in {"connect"} \cup Over,
         st' \notin Over /\ total' # 0 => st \notin Over /\ total # 0 /\ cacheq' = cacheq
  PROVE  KnownInv'
<1>1. Uidl' = Uidl /\ Only' = Only
  BY DEF Uidl, Only
<1>2. ToSet(session') = {}
  BY NothingListed
<1> QED
  BY <1>1, <1>2 DEF KnownInv

\* The commit of a mail that fdm holds, to be remembered.
LEMMA KnownSettled ==
  ASSUME IInv, NEW x \in Held, st' \notin Over \cup {"connect"},
         account' = account, wantq' = wantq, box' = box, session' = session,
         arrived' = arrived, total' = total,
         settled' = settled \cup {x.msg}, cacheq' = cacheq \cup {x.uid}, Save(cacheq')
  PROVE  KnownInv'
<1>1. Uidl' = Uidl /\ Only' = Only
  BY DEF Uidl, Only
<1> SUFFICES ASSUME Uidl, Only = "new" PROVE KnownInv'
  BY <1>1 DEF KnownInv
<1>2. /\ st \notin Ahead \cup {"reconnect"} \cup Over
      /\ x.idx \in DOMAIN session /\ session[x.idx] = x.msg
      /\ x.msg \in Message /\ taken[x.msg] # 0
  BY DEF IInv, IndexInv
<1>3. x.uid = x.msg /\ \A y \in wantq : taken[y.uid] = 0
  BY DEF IInv, WantInv
<1>4. total # 0
  <2>1. Cardinality(wantq) < total /\ Cardinality(wantq) \in Nat
    BY <1>2, FS_CardinalityType DEF IInv, TotalInv
  <2> QED
    BY <2>1
<1>5. disk' = cacheq'
  BY Pop3Assumption DEF Save, IInv, TypeOK, HasCache, Only, AccountType
<1>6. x.msg \in ToSet(session) /\ ToSet(session') = ToSet(session)
  BY <1>2 DEF ToSet
<1>7. /\ \A y \in wantq : y.uid \notin settled
      /\ Listable \cup settled \subseteq 1 .. arrived
      /\ box \cap settled \subseteq ToSet(session)
      /\ settled \cap Listable \subseteq cacheq
  BY <1>2, <1>4 DEF IInv, KnownInv, Ahead, Listable
<1>8. \A y \in wantq' : y.uid \notin settled'
  BY <1>2, <1>3, <1>7
<1>9. Listable' = Listable
  BY <1>6 DEF Listable
<1>10. Listable' \cup settled' \subseteq 1 .. arrived'
  BY <1>6, <1>7, <1>9 DEF Listable
<1>11. box' \cap settled' \subseteq ToSet(session')
  BY <1>6, <1>7
<1>12. settled' \cap Listable' \subseteq cacheq'
  BY <1>3, <1>7, <1>9
<1> QED
  BY <1>5, <1>8, <1>10, <1>11, <1>12 DEF KnownInv, Listable

LEMMA KnownInit == Init => KnownInv
<1> SUFFICES ASSUME Init PROVE KnownInv
  OBVIOUS
<1>1. wantq = {} /\ settled = {} /\ session = <<>> /\ box = 1 .. arrived
  BY DEF Init
<1> QED
  BY <1>1, NothingListed DEF KnownInv

LEMMA KnownStep == IInv /\ [Next]_vars => KnownInv'
<1> SUFFICES ASSUME IInv, [Next]_vars PROVE KnownInv'
  OBVIOUS
<1>t. TypeOK /\ IndexInv /\ WantInv /\ TotalInv /\ KnownInv
  BY DEF IInv
<1> USE <1>t
<1> USE DEF queueVars, countVars, purgeVars, tallyVars, serverVars, outerVars, logVars
<1>a. account' = account
  BY DEF Next, vars
<1> USE <1>a
<1>b. Uidl' = Uidl /\ Only' = Only
  BY DEF Uidl, Only
<1>u. st = "uidl" => Uidl
  BY DEF WantInv
<1>0. CASE UNCHANGED vars
  BY <1>0, KnownSame DEF vars
<1>1. CASE IdleTurn
  BY <1>1, KnownSame DEF IdleTurn
<1>2. CASE Connect /\ UNCHANGED outerVars
  <2>1. /\ ToSet(session') = box /\ box' = box /\ wantq' = wantq /\ settled' = settled
        /\ disk' = disk /\ cacheq' = cacheq /\ total' = total /\ st = "connect" /\ st' = "login"
    BY <1>2 DEF Connect, Handler
  <2> QED
    BY <1>2, <1>b, <2>1 DEF KnownInv, Over
<1>3. CASE Login /\ UNCHANGED outerVars
  BY <1>3, KnownSame DEF Login, Handler, Over
<1>4. CASE First /\ UNCHANGED outerVars
  <2>1. CASE ~Uidl
    BY <2>1, <1>b DEF KnownInv
  <2>2. CASE Uidl
    <3>1. wantq' = wantq /\ total' = total /\ st = "first"
      BY <1>4, <2>2 DEF First, Handler
    <3> QED
      BY <1>4, <3>1, KnownSame DEF First, Over
  <2> QED
    BY <2>1, <2>2
<1>5. CASE UidlFresh /\ UNCHANGED outerVars
  <2> SUFFICES ASSUME Uidl, Only = "new" PROVE KnownInv'
    BY <1>b DEF KnownInv
  <2>1. wantq = {}
    BY <1>5, FirstList DEF UidlFresh
  <2>2. HasCache
    BY Pop3Assumption DEF TypeOK, HasCache, Only, AccountType
  <2>3. cacheq' = (cacheq \cup disk) \cap ToSet(session)
    BY <1>5, <2>2 DEF UidlFresh
  <2>4. \A x \in wantq' : x.uid \in ToSet(session) /\ x.uid \notin cacheq'
    <3>1. wantq' = {[uid |-> session[i], idx |-> i, born |-> conn, msg |-> 0] :
                      i \in {i \in DOMAIN session : Wanted(session[i], cacheq')}}
      BY <1>5, <2>1 DEF UidlFresh
    <3>2. \A i \in DOMAIN session : session[i] \in ToSet(session)
      BY DEF ToSet
    <3>3. \A i \in DOMAIN session : Wanted(session[i], cacheq') => session[i] \notin cacheq'
      BY DEF Wanted
    <3> QED
      BY <3>1, <3>2, <3>3
  <2>5. /\ box \cap settled \subseteq ToSet(session)
        /\ settled \cap Listable \subseteq disk
        /\ Listable \cup settled \subseteq 1 .. arrived
    BY <1>5 DEF UidlFresh, Handler, KnownInv, Over, Listable
  <2>6. /\ settled' = settled /\ box' = box /\ ToSet(session') = ToSet(session)
        /\ arrived' = arrived /\ disk' = disk
    BY <1>5 DEF UidlFresh
  <2>7. settled \cap Listable \subseteq cacheq'
    BY <2>3, <2>5 DEF Listable
  <2>8. \A x \in wantq' : x.uid \notin settled
    BY <2>4, <2>7 DEF Listable
  <2> QED
    BY <2>5, <2>6, <2>7, <2>8 DEF KnownInv, Listable
<1>6. CASE UidlAgain /\ UNCHANGED outerVars
  <2> DEFINE here == {x \in wantq : x.uid \in ToSet(session)}
             at(x) == CHOOSE i \in DOMAIN session : session[i] = x.uid
  <2>1. wantq' = {[x EXCEPT !.idx = at(x)] : x \in here}
    BY <1>6 DEF UidlAgain
  <2> HIDE DEF at
  <2>2. \A y \in wantq' : \E x \in wantq : y.uid = x.uid
    <3>1. \A x \in here : x \in ItemType
      BY DEF TypeOK
    <3>2. \A x \in here : [x EXCEPT !.idx = at(x)].uid = x.uid
      BY <3>1 DEF ItemType
    <3> QED
      BY <2>1, <3>2
  <2>3. /\ settled' = settled /\ box' = box /\ session' = session /\ arrived' = arrived
        /\ disk' = disk /\ cacheq' = cacheq /\ total # 0 /\ st = "uidl"
    BY <1>6 DEF UidlAgain, Handler
  <2>4. ToSet(session') = ToSet(session)
    BY <2>3
  <2> QED
    BY <1>b, <2>2, <2>3, <2>4 DEF KnownInv, Over
<1>7. CASE NextDelete /\ UNCHANGED outerVars
  BY <1>7, KnownSame DEF NextDelete, Handler, Over
<1>8. CASE NextQuit /\ UNCHANGED outerVars
  BY <1>8, KnownSame DEF NextQuit, Handler, Over
<1>9. CASE NextPurge /\ UNCHANGED outerVars
  BY <1>9, KnownSame DEF NextPurge, Handler, Over
<1>10. CASE NextRetrieve /\ UNCHANGED outerVars
  BY <1>10, KnownSame DEF NextRetrieve, Handler, Over
<1>11. CASE Deleted /\ UNCHANGED outerVars
  <2>1. cur \in Held
    BY <1>11 DEF Deleted, Handler, IndexInv, Held
  <2> QED
    BY <1>11, <2>1, KnownSettled DEF Deleted, Over
<1>12. CASE Reconnect /\ UNCHANGED outerVars
  <2>1. box' \subseteq box
    BY <1>12 DEF Reconnect, Expunge
  <2> QED
    BY <1>12, <2>1, KnownGone DEF Reconnect, Handler, Over
<1>13. CASE Retrieved /\ UNCHANGED outerVars
  BY <1>13, KnownSame DEF Retrieved, Handler, Over
<1>14. CASE Quit /\ UNCHANGED outerVars
  <2>1. box' \subseteq box
    BY <1>14 DEF Quit, Expunge
  <2> QED
    BY <1>14, <2>1, KnownGone DEF Quit, Freed, Over
<1>15. CASE Refused /\ UNCHANGED outerVars
  BY <1>15, KnownGone DEF Refused, Freed, Over
<1>16. ASSUME NEW x \in flight, CommitDrop(x) PROVE KnownInv'
  BY <1>16, KnownSame DEF CommitDrop
<1>17. ASSUME NEW x \in flight, CommitKeep(x) PROVE KnownInv'
  <2>1. x \in Held /\ st' = st
    BY <1>17 DEF Held, CommitKeep
  <2>2. st \notin Ahead \cup Over
    BY <2>1 DEF IndexInv
  <2> QED
    BY <1>17, <2>1, <2>2, KnownSettled DEF CommitKeep, Ahead
<1>18. CASE Stops
  <2>1. box' \subseteq box
    BY <1>18 DEF Stops, Expunge
  <2> QED
    BY <1>18, <2>1, KnownGone DEF Stops, Freed, Over
<1>19. CASE Restart
  <2>1. wantq' = {} /\ session' = <<>> /\ st' = "connect" /\ total' = 0
    BY <1>19 DEF Restart, Fresh
  <2>2. /\ settled' = settled /\ box' = box /\ disk' = disk /\ arrived' = arrived
    BY <1>19 DEF Restart
  <2> QED
    BY <2>1, <2>2, KnownGone
<1>20. CASE Arrives
  <2>1. /\ wantq' = wantq /\ settled' = settled /\ disk' = disk /\ cacheq' = cacheq
        /\ total' = total /\ st' = st /\ ToSet(session') = ToSet(session)
        /\ box' = box \cup {arrived + 1} /\ arrived' = arrived + 1
    BY <1>20 DEF Arrives
  <2> SUFFICES ASSUME Uidl, Only = "new" PROVE KnownInv'
    BY <1>b DEF KnownInv
  <2>2. Listable \cup settled \subseteq 1 .. arrived /\ arrived \in Nat
    BY DEF KnownInv, Listable, TypeOK
  <2>3. arrived + 1 \notin settled
    BY <2>2
  <2>4. Listable' \cup settled' \subseteq 1 .. arrived'
    BY <2>1, <2>2 DEF Listable
  <2>5. settled' \cap Listable' = settled \cap Listable
    BY <2>1, <2>3 DEF Listable
  <2>6. box' \cap settled' = box \cap settled
    BY <2>1, <2>3
  <2> QED
    BY <2>1, <2>4, <2>5, <2>6 DEF KnownInv, Listable
<1>21. CASE Vanishes
  <2>1. box' \subseteq box
    BY <1>21 DEF Vanishes
  <2> QED
    BY <1>21, <2>1, KnownSame DEF Vanishes
<1>22. CASE Rest
  BY <1>0, <1>22 DEF Rest
<1> QED
  BY <1>0, <1>1, <1>2, <1>3, <1>4, <1>5, <1>6, <1>7, <1>8, <1>9, <1>10, <1>11, <1>12,
     <1>13, <1>14, <1>15, <1>16, <1>17, <1>18, <1>19, <1>20, <1>21, <1>22
     DEF Next, HandlerStep, CommitStep

-----------------------------------------------------------------------------
(* The theorems.                                                           *)

LEMMA Invariant == Spec => []IInv
<1>1. Init => IInv
  BY TypeInit, IndexInit, WantInit, TotalInit, KnownInit DEF IInv
<1>2. IInv /\ [Next]_vars => IInv'
  BY TypeStep, IndexStep, WantStep, TotalStep, KnownStep DEF IInv
<1> QED
  BY <1>1, <1>2, PTL DEF Spec

\* Every variable keeps its type: the total never falls below zero though
\* pop3_state_cache3 takes off it what has left the mailbox.
THEOREM TypeCorrect == Spec => []TypeOK
<1>1. IInv => TypeOK
  BY DEF IInv
<1> QED
  BY <1>1, Invariant, PTL

\* Only a message that fdm decided to drop is deleted from the mailbox, with or
\* without unique ids: pop3_state_next purges when no mail is held
\* (pop3-common.c:756-772), and pop3_state_quit is entered when all is committed.
THEOREM DroppedDeleted == Spec => []DeletesOnlyDropped
<1>1. IInv => DeletesOnlyDropped
  BY DEF IInv, IndexInv
<1> QED
  BY <1>1, Invariant, PTL

\* With unique ids no message is retrieved twice in a run, however often
\* pop3_state_reconnect goes round and whatever other clients do meanwhile.
THEOREM OnceARun == Spec => []FetchedOnce
<1>1. IInv => FetchedOnce
  BY DEF IInv, WantInv, FetchedOnce
<1> QED
  BY <1>1, Invariant, PTL

\* With unique ids the mails that are still wanted have the indexes of the
\* connection once pop3_state_cache3 has matched them with its list.
THEOREM IndexesFollow == Spec => []IndexesCurrent
<1>1. IInv => IndexesCurrent
  BY DEF IInv, WantInv, IndexesCurrent, Ahead
<1> QED
  BY <1>1, Invariant, PTL

\* With new-only and unique ids a message that pop3_save has recorded is never
\* retrieved again, by this run or by a later one, wherever either is cut short.
THEOREM SettledStay == Spec => SettledNotFetchedAgain
<1>1. IInv /\ [Next]_vars =>
        [Uidl /\ Only = "new" => \A m \in settled : taken'[m] <= taken[m]]_vars
  <2> SUFFICES ASSUME IInv, [Next]_vars, Uidl, Only = "new", NEW m \in settled
               PROVE  taken'[m] <= taken[m]
    OBVIOUS
  <2>1. m \in Message /\ taken[m] \in Nat
    BY DEF IInv, TypeOK
  <2>2. CASE taken' = taken
    BY <2>1, <2>2
  <2>3. CASE Retrieved
    <3>1. cur \in wantq /\ cur.idx \in DOMAIN session /\ st = "retr" /\ cur \in ItemType
      BY <2>3 DEF IInv, IndexInv, TypeOK, Retrieved, Handler, Live
    <3>2. session # <<>>
      <4>1. DOMAIN session # {}
        BY <3>1
      <4> QED
        BY <4>1, Listed DEF IInv, TypeOK
    <3>3. session[cur.idx] = cur.uid
      BY <3>1, <3>2 DEF IInv, WantInv, Ahead
    <3>4. cur.uid \notin settled
      BY <3>1 DEF IInv, KnownInv
    <3>5. taken' = [taken EXCEPT ![session[cur.idx]] = @ + 1]
      BY <2>3, <3>1 DEF Retrieved, ItemType
    <3> QED
      BY <2>1, <3>3, <3>4, <3>5 DEF IInv, TypeOK
  <2>4. CASE Restart
    BY <2>1, <2>4 DEF Restart
  <2>5. taken' = taken \/ Retrieved \/ Restart
    <3> USE DEF queueVars, countVars, purgeVars, tallyVars, serverVars, outerVars, logVars
    <3>1. \A x : CommitDrop(x) \/ CommitKeep(x) => taken' = taken
      BY DEF CommitDrop, CommitKeep
    <3>2. Connect \/ Login \/ First \/ UidlFresh \/ UidlAgain => taken' = taken
      BY DEF Connect, Login, First, UidlFresh, UidlAgain
    <3>3. NextDelete \/ NextQuit \/ NextPurge \/ NextRetrieve => taken' = taken
      BY DEF NextDelete, NextQuit, NextPurge, NextRetrieve
    <3>4. Deleted \/ Reconnect \/ Quit \/ Refused => taken' = taken
      BY DEF Deleted, Reconnect, Quit, Refused
    <3>5. IdleTurn \/ Stops \/ Arrives \/ Vanishes => taken' = taken
      BY DEF IdleTurn, Stops, Arrives, Vanishes
    <3>6. Rest \/ UNCHANGED vars => taken' = taken
      BY DEF Rest, vars
    <3> QED
      BY <3>1, <3>2, <3>3, <3>4, <3>5, <3>6 DEF Next, HandlerStep, CommitStep
  <2> QED
    BY <2>2, <2>3, <2>4, <2>5
<1> QED
  BY <1>1, Invariant, PTL DEF Spec, SettledNotFetchedAgain

=============================================================================

------------------------------- MODULE Parent -------------------------------
(***************************************************************************)
(* The parent process (fdm.c, parent-fetch.c, parent-deliver.c, child.c)   *)
(* with its children: a fetch child for each account and the deliver       *)
(* children it forks for their requests.                                   *)
(*                                                                         *)
(* The parent is one loop: look at the signals, start fetch children, poll *)
(* the sockets, handle every message, reap, close a dead socket.  Its      *)
(* children, their deaths and the signals come at any point of the loop.   *)
(*                                                                         *)
(* A fetch child is reduced to its requests and its end; what it does with *)
(* the answers is in FetchLoop.  The header of a message is followed by    *)
(* its tags; the two are apart only in the answer of a deliver child,      *)
(* which the parent may kill between them.  The order of the children      *)
(* array is left open.  The mail's shared memory, the privileges dropped,  *)
(* the reading of the configuration, and what the children do when the     *)
(* parent has gone are left out.                                           *)
(***************************************************************************)
EXTENDS Naturals, Sequences, FiniteSets

CONSTANTS
  Account,      \* conf.accounts
  MaxJobs,      \* bound: requests of a fetch child
  Worlds        \* what may happen to fdm, see WorldType

\* May fetches and deliveries fail?  May SIGINT or SIGTERM come?  How many
\* accounts may be fetched at once, conf.max_accts?  And how many requests does
\* each of the accounts in use make?
WorldType == [aborts : BOOLEAN, signals : BOOLEAN, accts : Nat \ {0},
              jobs : UNION {[S -> 0 .. MaxJobs] : S \in SUBSET Account}]

ASSUME ParentAssumption ==
  /\ MaxJobs \in Nat
  /\ Worlds \subseteq WorldType

VARIABLE world   \* one of Worlds, never changed

Aborts == world.aborts
Signals == world.signals
MaxAccts == world.accts

\* A child: number 0 is the fetch child of the account, the others are its
\* deliver children (child->parent).
Child    == Account \X (0 .. MaxJobs)
Fetch(a) == <<a, 0>>
Owner(c) == Fetch(c[1])
IsFetch(c) == c[2] = 0

None    == "none"    \* no process
NoChild == << >>

VARIABLES
  pc,           \* the place in the parent's loop
  actaq,        \* the accounts not started yet
  children,     \* the children array
  open,         \* the children whose io the parent holds
  closed,       \* those whose io has been found closed
  buf,          \* what the parent has read from a child
  dead_io,      \* the child whose io io_polln returned
  sigchld, sigterm,   \* set by the signal handler
  lock, res,    \* the lock file; the exit status
  proc,         \* the processes of the children
  up, down,     \* the sockets, to the parent and from it
  term,         \* the children that have been sent SIGTERM
  asked, answered,    \* the requests of a fetch child and their answers
  failed        \* has a child ended badly?

parentVars == <<actaq, children, open, closed, buf, dead_io, lock, res>>
sigVars    == <<sigchld, sigterm>>
childVars  == <<proc, up, down, term, asked, answered, failed>>
vars == <<world, pc, parentVars, sigVars, childVars>>

Ended == {"done", "fatal", "crashed"}
Alive == {"run", "sending", "leaving", "closing"}

\* The other end of the socket is closed.
Gone(c) == proc[c] \in {"closing", "zombie", "reaped"}

Init ==
  /\ world \in Worlds
  /\ pc = "top" /\ actaq = DOMAIN world.jobs /\ children = {} /\ open = {} /\ closed = {}
  /\ buf = [c \in Child |-> <<>>] /\ dead_io = NoChild
  /\ sigchld = FALSE /\ sigterm = FALSE
  /\ lock = TRUE /\ res = 0
  /\ proc = [c \in Child |-> None]
  /\ up = [c \in Child |-> <<>>] /\ down = [c \in Child |-> <<>>]
  /\ term = {}
  /\ asked = [a \in Account |-> 0] /\ answered = [a \in Account |-> 0]
  /\ failed = FALSE

At(p) == pc = p

-----------------------------------------------------------------------------
(* The parent's loop.                                                      *)

\* child_start
Forked(c) ==
  /\ children' = children \cup {c}
  /\ open' = open \cup {c}
  /\ proc' = [proc EXCEPT ![c] = "run"]

\* Stop on a signal or when everything is done, and remove the lock file.
Top ==
  /\ At("top")
  /\ IF sigterm
     THEN pc' = "stop" /\ UNCHANGED lock
     ELSE IF actaq = {} /\ children = {}
          THEN pc' = "done" /\ lock' = FALSE
          ELSE pc' = "start" /\ UNCHANGED lock
  /\ UNCHANGED <<actaq, children, open, closed, buf, dead_io, res, sigVars, childVars>>

\* While there is space, start another fetch child.
Start ==
  /\ At("start")
  /\ IF actaq # {} /\ Cardinality(children) < MaxAccts
     THEN \E a \in actaq : actaq' = actaq \ {a} /\ Forked(Fetch(a)) /\ UNCHANGED pc
     ELSE pc' = "poll" /\ UNCHANGED <<actaq, children, open, proc>>
  /\ UNCHANGED <<closed, buf, dead_io, lock, res, sigVars,
                 up, down, term, asked, answered, failed>>

\* A closed io makes io_polln return before it polls.
BeforePoll ==
  /\ At("poll")
  /\ \/ open = {} /\ pc' = "sleep" /\ UNCHANGED dead_io
     \/ \E c \in open \cap closed : dead_io' = c /\ pc' = "messages"
     \/ open # {} /\ open \cap closed = {} /\ pc' = "polling" /\ UNCHANGED dead_io
  /\ UNCHANGED <<actaq, children, open, closed, buf, lock, res, sigVars, childVars>>

\* poll returns, and every io is read up to its end.
Poll ==
  /\ At("polling")
  /\ \E c \in open : up[c] # <<>> \/ Gone(c)
  /\ buf' = [c \in Child |-> IF c \in open THEN buf[c] \o up[c] ELSE buf[c]]
  /\ up' = [c \in Child |-> IF c \in open THEN <<>> ELSE up[c]]
  /\ closed' = closed \cup {c \in open : Gone(c)}
  /\ dead_io' = NoChild
  /\ pc' = "messages"
  /\ UNCHANGED <<actaq, children, open, lock, res, sigVars,
                 proc, down, term, asked, answered, failed>>

Zombies == {c \in children : proc[c] = "zombie"}

\* The io of a child is freed with what it holds and what its socket holds.
Without(q, cs) == [c \in Child |-> IF c \in cs THEN <<>> ELSE q[c]]

\* wait_children takes the dead out of the array and kills their children.  It
\* returns 0 whatever they returned.
Reaped ==
  /\ children' = children \ Zombies
  /\ open' = open \ Zombies
  /\ closed' = closed \ Zombies
  /\ proc' = [c \in Child |-> IF c \in Zombies THEN "reaped" ELSE proc[c]]
  /\ buf' = Without(buf, Zombies) /\ up' = Without(up, Zombies)
  /\ term' = term \cup {c \in children \ Zombies : ~IsFetch(c) /\ Owner(c) \in Zombies}
  /\ UNCHANGED res

\* No sockets are left: sleep until all children are waited for.
Sleep ==
  /\ At("sleep")
  /\ Zombies = children
  /\ Reaped
  /\ pc' = "messages"
  /\ UNCHANGED <<actaq, dead_io, lock, sigVars, down, asked, answered, failed>>

Ready == {c \in children \cap open : buf[c] # <<>>}
Received(c, m) == At("messages") /\ c \in Ready /\ Head(buf[c]) = m
Take(c) == buf' = [buf EXCEPT ![c] = Tail(@)]

\* privsep_send to a child that has closed its end fails, and so is fatal.
SendOrDie(c, m, d) ==
  IF Gone(c)
  THEN pc' = "fatal" /\ down' = d
  ELSE UNCHANGED pc /\ down' = [d EXCEPT ![c] = Append(@, m)]

Jobs(a) == {c \in Child : c[1] = a /\ ~IsFetch(c) /\ proc[c] # None}

\* MSG_ACTION or MSG_COMMAND: fork a deliver child.
Request(c) ==
  /\ Received(c, "action")
  /\ Forked(<<c[1], Cardinality(Jobs(c[1])) + 1>>)
  /\ Take(c)
  /\ UNCHANGED <<pc, actaq, closed, dead_io, lock, res, sigVars,
                 up, down, term, asked, answered, failed>>

\* The mail cannot be taken over: parent_fetch_error.
Refuse(c) ==
  /\ Aborts
  /\ Received(c, "action")
  /\ SendOrDie(c, "done", down)
  /\ Take(c)
  /\ UNCHANGED <<actaq, children, open, closed, dead_io, lock, res, sigVars,
                 proc, up, term, asked, answered, failed>>

\* A fetch child is ready to exit.
Release(c) ==
  /\ Received(c, "exit")
  /\ SendOrDie(c, "exit", down)
  /\ Take(c)
  /\ UNCHANGED <<actaq, children, open, closed, dead_io, lock, res, sigVars,
                 proc, up, term, asked, answered, failed>>

\* The answer for a fetch child o is sent if its socket takes it.
PassedOn(o) ==
  IF o \in open /\ ~Gone(o) THEN [down EXCEPT ![o] = Append(@, "done")] ELSE down

\* MSG_DONE of a deliver child is forwarded, which may fail, and the deliver
\* child is told to exit, which must not.  privsep_recv waits for the tags.
Forward(c) ==
  /\ Received(c, "done")
  /\ Len(buf[c] \o up[c]) > 1 \/ Gone(c)
  /\ buf' = [buf EXCEPT ![c] = <<>>]
  /\ up' = [up EXCEPT ![c] = <<>>]
  /\ IF Len(buf[c] \o up[c]) = 1
     THEN pc' = "fatal" /\ UNCHANGED <<down, closed>>
     ELSE /\ SendOrDie(c, "exit", PassedOn(Owner(c)))
          /\ closed' = closed \cup {o \in open : o = Owner(c) /\ Gone(o)}
  /\ UNCHANGED <<actaq, children, open, dead_io, lock, res, sigVars,
                 proc, term, asked, answered, failed>>

NoMessages ==
  /\ At("messages") /\ Ready = {}
  /\ pc' = "reap"
  /\ UNCHANGED <<parentVars, sigVars, childVars>>

\* A slip: the children of a dead child are let live.
ReapOnly ==
  /\ At("reap")
  /\ IF sigchld
     THEN /\ children' = children \ Zombies
          /\ open' = open \ Zombies /\ closed' = closed \ Zombies
          /\ proc' = [c \in Child |-> IF c \in Zombies THEN "reaped" ELSE proc[c]]
          /\ buf' = Without(buf, Zombies) /\ up' = Without(up, Zombies)
     ELSE UNCHANGED <<children, open, closed, proc, buf, up>>
  /\ pc' = "clear"
  /\ UNCHANGED <<actaq, dead_io, lock, res, sigVars, down, term, asked, answered, failed>>

\* Collect the dead children if SIGCHLD has come.
Reap ==
  /\ At("reap")
  /\ IF sigchld THEN Reaped ELSE UNCHANGED <<children, open, closed, proc, buf, up, term, res>>
  /\ pc' = "clear"
  /\ UNCHANGED <<actaq, dead_io, lock, sigVars, down, asked, answered, failed>>

\* Forget SIGCHLD, one that has come after the last waitpid too.
Clear ==
  /\ At("clear")
  /\ sigchld' = FALSE
  /\ pc' = "close"
  /\ UNCHANGED <<parentVars, sigterm, childVars>>

\* A slip: the child is killed but its io is kept.
CloseNot ==
  /\ At("close")
  /\ term' = term \cup (open \cap {dead_io})
  /\ pc' = "top"
  /\ UNCHANGED <<actaq, children, open, closed, buf, dead_io, lock, res, sigVars,
                 proc, up, down, asked, answered, failed>>

\* Close the dead io and kill its child.
Close ==
  /\ At("close")
  /\ IF dead_io \in open
     THEN /\ term' = term \cup {dead_io}
          /\ open' = open \ {dead_io} /\ closed' = closed \ {dead_io}
          /\ buf' = Without(buf, {dead_io}) /\ up' = Without(up, {dead_io})
     ELSE UNCHANGED <<term, open, closed, buf, up>>
  /\ pc' = "top"
  /\ UNCHANGED <<actaq, children, dead_io, lock, res, sigVars,
                 proc, down, asked, answered, failed>>

\* After a signal every child is killed and its io closed, also one the parent
\* no longer holds.
Stop ==
  /\ At("stop")
  /\ IF open # children
     THEN pc' = "crashed" /\ UNCHANGED <<children, open, term>>
     ELSE /\ term' = term \cup children
          /\ children' = {} /\ open' = {}
          /\ pc' = "waiting"
  /\ UNCHANGED <<actaq, closed, buf, dead_io, lock, res, sigVars,
                 proc, up, down, asked, answered, failed>>

Running == {c \in Child : proc[c] \in Alive}

\* A slip: the parent does not wait for the children it has killed.
WaitForNone ==
  /\ At("waiting")
  /\ lock' = FALSE /\ res' = 1 /\ pc' = "done"
  /\ UNCHANGED <<actaq, children, open, closed, buf, dead_io, sigVars, childVars>>

\* And the parent waits for them.
WaitForAll ==
  /\ At("waiting") /\ Running = {}
  /\ proc' = [c \in Child |-> IF proc[c] = "zombie" THEN "reaped" ELSE proc[c]]
  /\ lock' = FALSE /\ res' = 1 /\ pc' = "done"
  /\ UNCHANGED <<actaq, children, open, closed, buf, dead_io, sigVars,
                 up, down, term, asked, answered, failed>>

-----------------------------------------------------------------------------
(* The children and the signals.                                           *)

\* A signal sets its flag and interrupts poll.
Interrupted ==
  /\ pc' = IF At("polling") THEN "messages" ELSE pc
  /\ dead_io' = IF At("polling") THEN NoChild ELSE dead_io
  /\ UNCHANGED <<actaq, children, open, closed, buf, lock, res>>

Signal ==
  /\ Signals /\ ~sigterm /\ pc \notin {"stop", "waiting"} \cup Ended
  /\ sigterm' = TRUE
  /\ Interrupted
  /\ UNCHANGED <<sigchld, childVars>>

Says(c, m) == up' = [up EXCEPT ![c] = Append(@, m)]
Becomes(c, p) == proc' = [proc EXCEPT ![c] = p]

\* The parent still has its children.
Served == pc \notin {"waiting"} \cup Ended

\* A fetch child sends a request.
Ask(a) ==
  /\ Served /\ proc[Fetch(a)] = "run" /\ asked[a] < world.jobs[a]
  /\ asked' = [asked EXCEPT ![a] = @ + 1]
  /\ Says(Fetch(a), "action")
  /\ UNCHANGED <<pc, parentVars, sigVars, proc, down, term, answered, failed>>

\* It takes an answer.
Answer(a) ==
  /\ Served /\ proc[Fetch(a)] = "run" /\ down[Fetch(a)] # <<>>
  /\ answered' = [answered EXCEPT ![a] = @ + 1]
  /\ down' = [down EXCEPT ![Fetch(a)] = Tail(@)]
  /\ UNCHANGED <<pc, parentVars, sigVars, proc, up, term, asked, failed>>

\* It has finished, or has given up: MSG_EXIT.
Leave(a) ==
  /\ Served /\ proc[Fetch(a)] = "run"
  /\ \/ answered[a] = asked[a] /\ UNCHANGED failed
     \/ Aborts /\ failed' = TRUE
  /\ Says(Fetch(a), "exit")
  /\ Becomes(Fetch(a), "leaving")
  /\ UNCHANGED <<pc, parentVars, sigVars, down, term, asked, answered>>

\* A deliver child has delivered: MSG_DONE, then the tags.
Deliver(c) ==
  /\ Served /\ ~IsFetch(c)
  /\ \/ proc[c] = "run" /\ Says(c, "done") /\ Becomes(c, "sending")
     \/ proc[c] = "sending" /\ Says(c, "tags") /\ Becomes(c, "leaving")
  /\ UNCHANGED <<pc, parentVars, sigVars, down, term, asked, answered, failed>>

\* A child waits for MSG_EXIT, passing over everything else, and closes its
\* socket.
Dismissed(c) ==
  /\ Served /\ proc[c] = "leaving" /\ down[c] # <<>>
  /\ down' = [down EXCEPT ![c] = Tail(@)]
  /\ IF Head(down[c]) = "exit" THEN Becomes(c, "closing") ELSE UNCHANGED proc
  /\ UNCHANGED <<pc, parentVars, sigVars, up, term, asked, answered, failed>>

Ends(c) ==
  /\ pc \notin Ended
  /\ Becomes(c, "zombie")
  /\ sigchld' = TRUE
  /\ Interrupted
  /\ down' = Without(down, {c})
  /\ UNCHANGED <<sigterm, up, term, asked, answered>>

Exit(c) == proc[c] = "closing" /\ Ends(c) /\ UNCHANGED failed

\* SIGTERM arrives at a child.
Terminated(c) ==
  /\ c \in term /\ proc[c] \in Alive
  /\ failed' = TRUE
  /\ Ends(c)

\* A child dies of itself.
Dies(c) ==
  /\ Aborts /\ proc[c] \in Alive
  /\ failed' = TRUE
  /\ Ends(c)

Rest == pc \in Ended /\ UNCHANGED vars

-----------------------------------------------------------------------------
Handle == \E c \in children : Request(c) \/ Refuse(c) \/ Release(c) \/ Forward(c)

ParentStep ==
  Top \/ Start \/ BeforePoll \/ Poll \/ Sleep \/ Handle \/ NoMessages
  \/ Reap \/ Clear \/ Close \/ Stop \/ WaitForAll

Works(a) == Answer(a) \/ Leave(a)
Proceeds(c) == Deliver(c) \/ Dismissed(c) \/ Exit(c) \/ Terminated(c)

Next ==
  /\ UNCHANGED world
  /\ \/ ParentStep \/ Signal \/ Rest
     \/ \E a \in Account : Ask(a) \/ Works(a)
     \/ \E c \in Child : Proceeds(c) \/ Dies(c)

Spec == Init /\ [][Next]_vars

\* Processes run; a fetch comes to an end and so does a delivery, if only by a
\* timeout.
FairSpec ==
  /\ Spec /\ WF_vars(ParentStep /\ UNCHANGED world)
  /\ \A a \in Account : WF_vars(Works(a) /\ UNCHANGED world)
  /\ \A c \in Child : WF_vars(Proceeds(c) /\ UNCHANGED world)

-----------------------------------------------------------------------------
(* Properties.                                                             *)

Message == {"action", "done", "tags", "exit"}

\* Every variable keeps its type; the parent holds sockets of its children only.
TypeOK ==
  /\ world \in Worlds
  /\ pc \in {"top", "start", "poll", "polling", "sleep", "messages", "reap",
             "clear", "close", "stop", "waiting"} \cup Ended
  /\ actaq \subseteq Account /\ open \subseteq children /\ children \subseteq Child
  /\ closed \subseteq Child /\ dead_io \in Child \cup {NoChild}
  /\ sigchld \in BOOLEAN /\ sigterm \in BOOLEAN /\ lock \in BOOLEAN /\ failed \in BOOLEAN
  /\ res \in {0, 1}
  /\ proc \in [Child -> Alive \cup {None, "zombie", "reaped"}]
  /\ buf \in [Child -> Seq(Message)]
  /\ up \in [Child -> Seq(Message)] /\ down \in [Child -> Seq(Message)]
  /\ term \subseteq Child
  /\ asked \in [Account -> 0 .. MaxJobs] /\ answered \in [Account -> 0 .. MaxJobs]

\* A deliver child does not outlive its fetch child: when that has been reaped
\* it is dead or has been killed.  fdm.c:250 says "If this child was the parent
\* of any others, kill them too."
NoOrphans ==
  \A c \in children :
    ~IsFetch(c) /\ proc[Owner(c)] = "reaped" => c \in term \/ proc[c] = "zombie"

\* When the parent has ended in order no child is left, neither running nor as
\* a zombie.
NothingLeft == pc = "done" => \A c \in Child : proc[c] \in {None, "reaped"}

\* If nothing fails every request of a fetch child is answered.
EveryRequestAnswered ==
  \A a \in Account : \A n \in 1 .. MaxJobs :
    ~Aborts /\ ~Signals /\ asked[a] = n ~> answered[a] >= n

\* The parent comes to an end.
ParentEnds == <>(pc \in Ended)

\* Passing on the result of a delivery never ends the parent, also when the fetch
\* child has gone and the deliver child has been killed with it.
\* parent-deliver.c:58 says "Try to send to child. Ignore failures which mean the
\* fetch child has exited - not much can do about it now."
DeliverySurvives ==
  [][\A c \in children : Forward(c) => pc' # "fatal"]_vars

\* The lock file is there only while the parent runs.  MANUAL.in:400 says "fdm
\* makes use of a lock file to prevent two instances running simultaneously."
LockedWhileRunning == pc \in Ended => ~lock

\* fdm fails if a fetch has failed.  regress/tests/test.subr takes it so: "cat
\* $TEST.in|$FDM $FLAGS -f $TEST.conf f || exit 1".
FailureReported == pc = "done" /\ failed => res # 0
=============================================================================

------------------------------ MODULE LoopTurn ------------------------------
(***************************************************************************)
(* One turn of the fetch loop as a protocol handler sees it: fetch_purge   *)
(* counts the mails that are done with, and the handler is called unless   *)
(* the loop already holds too many (child-fetch.c).  Pop3 and Imap, the    *)
(* handlers that purge, build on it; FetchLoop is the whole loop.          *)
(***************************************************************************)
EXTENDS Integers, FiniteSets

CONSTANTS
  PurgeAfter,   \* conf.purge_after, 0 for never
  QueueHigh     \* conf.queue_high

ASSUME LoopTurnAssumption == PurgeAfter \in Nat /\ QueueHigh \in Nat \ {0}

VARIABLES
  st,                     \* fctx.state, with the answer it waits for
  flight,                 \* the mails in the loop's queues
  purge,                  \* FETCH_PURGE in fctx.flags
  dropped, kept,          \* fetch_dropped, fetch_kept
  lastTotal, lastDropped  \* last_total and last_dropped of fetch_purge

purgeVars == <<purge, lastTotal, lastDropped>>
tallyVars == <<dropped, kept>>

\* The fetch is over: FETCH_EXIT, or goto abort.
Over == {"done", "aborted"}

\* A purge is looked at when the number of mails done with has come to a
\* multiple, once; and asked for if any of them was dropped.
PurgeDue == /\ PurgeAfter # 0
            /\ dropped + kept # lastTotal
            /\ (dropped + kept) % PurgeAfter = 0

Purging == purge \/ (PurgeDue /\ lastDropped # dropped)

PurgeCheck ==
  /\ lastTotal' = IF PurgeDue THEN dropped + kept ELSE lastTotal
  /\ lastDropped' = IF PurgeDue THEN dropped ELSE lastDropped

\* The handler is called in state s.
Handler(s) ==
  /\ st = s
  /\ Cardinality(flight) < QueueHigh
  /\ PurgeCheck
  /\ UNCHANGED tallyVars
=============================================================================

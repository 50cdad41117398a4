------------------------------- MODULE Poller -------------------------------
(***************************************************************************)
(* internal/listener/poller.go: the polling listener of one chain, with    *)
(* the handler it feeds, the store it writes and the chain it reads.       *)
(*                                                                         *)
(* pc is where Run is: "dial" and "load" before its loop, "wait" in its    *)
(* select, "filter" before FilterLogs, "handle" in the loop over the logs  *)
(* and before SaveCheckpoint, "stopped" once it has returned.              *)
(***************************************************************************)
EXTENDS Listener

\* A confirmed block is final: the operator chose Confirmations for that.
ASSUME FinalityAssumption == MaxReorg <= Confirmations

vars == listenerVars

TypeOK ==
  /\ ListenerTypeOK
  /\ pc \in {"dial", "load", "wait", "filter", "handle", "stopped"}

Init == ListenerInit

-----------------------------------------------------------------------------
(* Run up to its loop.  Any error returns from Run: main.go logs it and    *)
(* nothing starts the listener again.                                      *)

DialOk == ~cancelled /\ Goto("dial", "load")

SetupFails == Goto("dial", "stopped") \/ Goto("load", "stopped")

Setup == DialOk \/ Load("wait") \/ SetupFails

-----------------------------------------------------------------------------
(* The loop.  A tick whose BlockNumber fails or that finds no confirmed    *)
(* block to read changes nothing.                                          *)

\* Mutant of PollHead: a head below Confirmations is not left out.
PollHeadYoung ==
  /\ pc = "wait"
  /\ ~cancelled
  /\ cursor <= Safe
  /\ to' = RangeEnd(cursor, Safe)
  /\ pc' = "filter"
  /\ UNCHANGED <<chainVars, storeVars, cursor, pending, cancelled, failed>>

PollHead ==
  /\ pc = "wait"
  /\ ~cancelled
  /\ head >= Confirmations
  /\ cursor <= Safe
  /\ to' = RangeEnd(cursor, Safe)
  /\ pc' = "filter"
  /\ UNCHANGED <<chainVars, storeVars, cursor, pending, cancelled, failed>>

FilterOk ==
  /\ pc = "filter"
  /\ ~cancelled
  /\ pending' = LogsIn(cursor, to)
  /\ pc' = "handle"
  /\ UNCHANGED <<chainVars, storeVars, cursor, to, cancelled, failed>>

\* Mutant of FilterFails: a range that cannot be read is left out.
FilterFailsSkips ==
  /\ pc = "filter"
  /\ pc' = "wait"
  /\ cursor' = to + 1
  /\ UNCHANGED <<chainVars, storeVars, to, pending, cancelled, failed>>

\* Mutant of FilterFails: ask again at once, whatever the context says.
FilterFailsRetries == pc = "filter" /\ UNCHANGED vars

FilterFails == Goto("filter", "wait")

Done == cancelled /\ Goto("wait", "stopped")

\* The service was shut down, and is started again.
Restart == pc = "stopped" /\ cancelled /\ FreshProcess

\* The process dies anywhere and is started again.
Crash == FreshProcess

Next ==
  \/ Setup
  \/ PollHead
  \/ FilterOk
  \/ FilterFails
  \/ HandleNext
  \/ Mark("wait")
  \/ Done
  \/ Cancel
  \/ Restart
  \/ Crash
  \/ ChainStep
  \/ SettleStep

Spec == Init /\ [][Next]_vars

(***************************************************************************)
(* Fairness.  Run's own goroutine is scheduled: it takes its steps (weak   *)
(* fairness).  A range whose FilterLogs fails is asked for again at the    *)
(* next tick; the node does not refuse it for ever (strong fairness).      *)
(***************************************************************************)
Fairness ==
  /\ WF_vars(Setup)
  /\ WF_vars(PollHead)
  /\ SF_vars(FilterOk)
  /\ WF_vars(FilterOk \/ FilterFails)
  /\ WF_vars(HandleNext)
  /\ WF_vars(Mark("wait"))
  /\ WF_vars(Done)

FairSpec == Spec /\ Fairness

-----------------------------------------------------------------------------
(* Safety, beyond what Listener promises.                                  *)

(***************************************************************************)
(* Only final logs reach the table: each row stays true of the canonical   *)
(* chain through every reorganisation (poller.go:80-90).                   *)
(***************************************************************************)
RowsCanonical == \A i \in DOMAIN events : events[i] = LogRow(events[i].log)

\* The checkpoint stays Confirmations blocks behind the head (poller.go:83-90).
CheckpointConfirmed == checkpoint + Confirmations <= head \/ checkpoint = NoRow

-----------------------------------------------------------------------------
(* What makes the safety properties inductive.                             *)

\* Block b is as deep as the operator asked a block to be.
Deep(b) == b + Confirmations <= head

\* The range being read lies below the newest confirmed block.
RangeDeep == pc \in {"filter", "handle"} => cursor <= to /\ Deep(to)

\* Every row in flight, in memory or in the table is final and canonical; only
\* accepted logs are ever sent to the database.
Final(r) == r = LogRow(r.log) /\ Deep(r.block)

RowsFinal ==
  /\ \A r \in pending \cup lateRows : Final(r)
  /\ \A r \in lateRows : r.log \in Accepted
  /\ \A i \in DOMAIN events : Final(events[i])

\* The table's checkpoint, and any that may still arrive late, are safe.
MarksCovered ==
  /\ CheckpointConfirmed
  /\ Covered(checkpoint)
  /\ \A b \in lateMarks : Deep(b) /\ Covered(b)

\* A live listener has dealt with every block below its cursor ...
CursorCovered ==
  (pc \in {"wait", "filter", "handle"} /\ ~cancelled) =>
    /\ cursor = MinStart \/ Deep(cursor - 1)
    /\ Covered(cursor - 1)

\* ... and, inside a range, with every log but the pending ones.
RangeCovered ==
  (pc = "handle" /\ ~cancelled) =>
    \A l \in Accepted :
      (Mined(l) /\ blockOf[l] \in cursor..to) =>
        l \in Recorded \cup failed \/ LogRow(l) \in pending

(***************************************************************************)
(* The inductive invariant: what the listener holds in memory between two  *)
(* calls agrees with the tables well enough that neither a crash, a late   *)
(* statement nor a reorganisation at that point can make Coverage fail.    *)
(***************************************************************************)
IInv ==
  /\ TypeOK
  /\ RangeDeep
  /\ RowsFinal
  /\ NoDuplicateRows
  /\ MarksCovered
  /\ CursorCovered
  /\ RangeCovered

-----------------------------------------------------------------------------
(* The abstract feed this listener implements.                             *)

Confirmed(l) == Mined(l) /\ blockOf[l] + Confirmations <= head

FeedHorizon == IF head >= Confirmations THEN head - Confirmations ELSE 0

FeedSettled == [l \in Log |-> IF Confirmed(l) THEN blockOf[l] ELSE 0]

Feed == INSTANCE EventFeed WITH
          horizon <- FeedHorizon, settled <- FeedSettled, refused <- failed

(***************************************************************************)
(* Every step of the listener, of its process and of its database is a     *)
(* step of the feed or changes nothing its readers see.                    *)
(***************************************************************************)
ImplementsFeed == Feed!Spec

-----------------------------------------------------------------------------
(* Liveness.                                                               *)

\* The process is not killed or restarted for ever.
EventuallyUndisturbed == <>[][~FreshProcess]_vars

(***************************************************************************)
(* A confirmed log is stored or reported as failed, unless the listener    *)
(* has stopped (a signal, or an error before its loop: poller.go:28-46).   *)
(***************************************************************************)
EveryLogHandled ==
  EventuallyUndisturbed =>
    \A l \in Accepted :
      (Confirmed(l) /\ blockOf[l] >= MinStart)
        ~> (l \in Recorded \cup failed \/ pc = "stopped")

(***************************************************************************)
(* A cancelled listener returns from Run, wherever it was, so that main's  *)
(* wg.Wait ends (poller.go:72, main.go:66-67); or it crashes first.        *)
(***************************************************************************)
ShutdownCompletes ==
  EventuallyUndisturbed => (cancelled ~> (pc = "stopped" \/ ~cancelled))
=============================================================================

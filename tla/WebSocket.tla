----------------------------- MODULE WebSocket -----------------------------
(***************************************************************************)
(* internal/listener/websocket.go: the subscribing listener of one chain.  *)
(* Run calls runOnce until the context is done; runOnce reads the blocks   *)
(* between the checkpoint and the newest confirmed one, then subscribes    *)
(* and handles the logs the node pushes, marking the block of each.        *)
(*                                                                         *)
(* pc is where the goroutine is: "dial", "load", "head", "filter" and      *)
(* "handle" (backfill), "subscribe", "live" in runOnce's select, "mark"    *)
(* before its SaveCheckpoint, "backoff" in Run's five seconds, "stopped".  *)
(***************************************************************************)
EXTENDS Listener

CONSTANT MaxReorgs  \* bound of the model: reorganisations in one behaviour

ASSUME ReorgAssumption == MaxReorgs \in Nat

\* Blocks are finite, and MaxBlock bounds their number.
ASSUME LogAssumption == IsFiniteSet(Log)

VARIABLES
  last,       \* backfill's parameter to, the newest confirmed block it knew
  connected,  \* the subscription is alive at the node
  queue,      \* logs pushed and not taken yet: client buffer and logsCh
  window,     \* history: logs mined at or above the cursor when it subscribed
  torn,       \* history: logs pushed, or about to be, and dropped unhandled
  moved,      \* history: logs a reorganisation moved behind a listener's back
  reorgs      \* how many reorganisations there have been

socketVars == <<last, connected, queue, window, torn, moved, reorgs>>
vars == <<listenerVars, socketVars>>

TypeOK ==
  /\ ListenerTypeOK
  /\ pc \in {"dial", "load", "head", "filter", "handle", "subscribe",
             "live", "mark", "backoff", "stopped"}
  /\ last \in 0..MaxBlock
  /\ connected \in BOOLEAN
  /\ queue \in Seq(Row)
  /\ window \cup torn \cup moved \subseteq Log
  /\ reorgs \in 0..MaxReorgs

Init ==
  /\ ListenerInit
  /\ last = 0
  /\ connected = FALSE
  /\ queue = << >>
  /\ window = {}
  /\ torn = {}
  /\ moved = {}
  /\ reorgs = 0

QueuedLogs == {queue[i].log : i \in DOMAIN queue}

-----------------------------------------------------------------------------
(* runOnce up to its subscription.                                         *)

DialOk == ~cancelled /\ Goto("dial", "load") /\ UNCHANGED socketVars

LoadOk == Load("head") /\ UNCHANGED socketVars

\* if head > confirmations { safe := head - confirmations; if cursor <= safe ...
NeedsBackfill == head > Confirmations /\ cursor <= Safe

HeadOk ==
  /\ ~cancelled
  /\ \/ NeedsBackfill /\ last' = Safe /\ Goto("head", "filter")
     \/ ~NeedsBackfill /\ last' = last /\ Goto("head", "subscribe")
  /\ UNCHANGED <<connected, queue, window, torn, moved, reorgs>>

FilterOk ==
  /\ pc = "filter"
  /\ ~cancelled
  /\ to' = RangeEnd(cursor, last)
  /\ pending' = LogsIn(cursor, to')
  /\ pc' = "handle"
  /\ UNCHANGED <<chainVars, storeVars, cursor, cancelled, failed, socketVars>>

HandleBackfilled == HandleNext /\ UNCHANGED socketVars

MarkBackfilled ==
  /\ Mark(IF to < last THEN "filter" ELSE "subscribe")
  /\ UNCHANGED socketVars

\* The node pushes the logs of later blocks only: those mined so far at or
\* above the cursor are never asked for.
SubscribeOk ==
  /\ ~cancelled
  /\ Goto("subscribe", "live")
  /\ connected' = TRUE
  /\ queue' = << >>
  /\ window' = window \cup {l \in Log : Mined(l) /\ blockOf[l] >= cursor}
  /\ UNCHANGED <<last, torn, moved, reorgs>>

\* runOnce returns an error: Run returns if the context is done, else waits.
AfterRunOnce == IF cancelled THEN "stopped" ELSE "backoff"

\* Mutant of SetupFails: Run returns, as the poller's does.
SetupFailsForGood ==
  /\ \E p \in {"dial", "load", "head", "filter", "subscribe"} : Goto(p, "stopped")
  /\ UNCHANGED socketVars

SetupFails ==
  /\ \E p \in {"dial", "load", "head", "filter", "subscribe"} : Goto(p, AfterRunOnce)
  /\ UNCHANGED socketVars

-----------------------------------------------------------------------------
(* The subscription.                                                       *)

\* Mutant of Take: a log waits in the channel until its block is confirmed.
TakeConfirmed(r) ==
  /\ pc = "live"
  /\ queue # << >>
  /\ r = Head(queue)
  /\ head >= r.block + Confirmations
  /\ queue' = Tail(queue)
  /\ UNCHANGED <<chainVars, cursor, pending, last, connected, window, moved, reorgs>>

\* Take the next log of the channel.
Take(r) ==
  /\ pc = "live"
  /\ queue # << >>
  /\ r = Head(queue)
  /\ queue' = Tail(queue)
  /\ UNCHANGED <<chainVars, cursor, pending, last, connected, window, moved, reorgs>>

\* Handle returned nil: the block of this log is the next checkpoint.
LiveHandled ==
  \E r \in Row :
    /\ Take(r)
    /\ HandleReturnsNil(r)
    /\ to' = r.block
    /\ pc' = "mark"
    /\ UNCHANGED torn

\* Handle returned an error: continue, without SaveCheckpoint.
LiveFailed ==
  \E r \in Row :
    /\ Take(r)
    /\ HandleReturnsError(r)
    /\ torn' = IF cancelled' THEN torn \cup {r.log} ELSE torn
    /\ UNCHANGED <<to, pc>>

\* Mutant of LiveMarked: the next block to read is saved instead.
LiveMarkedNext ==
  /\ pc = "mark"
  /\ pc' = "live"
  /\ SaveCheckpoint(to + 1)
  /\ UNCHANGED <<chainVars, cursor, to, pending, cancelled, failed, socketVars>>

\* Mutant of LiveMarked: the head of the chain is saved instead.
LiveMarkedHead ==
  /\ pc = "mark"
  /\ pc' = "live"
  /\ SaveCheckpoint(head)
  /\ UNCHANGED <<chainVars, cursor, to, pending, cancelled, failed, socketVars>>

\* SaveCheckpoint(lg.BlockNumber): the whole block counts as read.
LiveMarked ==
  /\ pc = "mark"
  /\ pc' = "live"
  /\ \/ ~cancelled /\ SaveCheckpoint(to) /\ UNCHANGED cancelled
     \/ UNCHANGED <<storeVars, cancelled>>
     \/ ~cancelled /\ AbandonCheckpoint(to) /\ cancelled' \in BOOLEAN
  /\ UNCHANGED <<chainVars, cursor, to, pending, failed, socketVars>>

DropQueue ==
  /\ queue' = << >>
  /\ torn' = torn \cup QueuedLogs
  /\ connected' = FALSE
  /\ UNCHANGED <<last, window, moved, reorgs>>

\* sub.Err() is chosen: what the channel still holds is dropped with runOnce.
LiveEnds == ~connected /\ Goto("live", AfterRunOnce) /\ DropQueue

\* Mutant of Done: runOnce's select without its ctx.Done case.
DoneInBackoff == cancelled /\ Goto("backoff", "stopped") /\ UNCHANGED socketVars

Done ==
  /\ cancelled
  /\ \/ Goto("live", "stopped") /\ DropQueue
     \/ Goto("backoff", "stopped") /\ UNCHANGED socketVars

RetryLater == Goto("backoff", "dial") /\ UNCHANGED socketVars

-----------------------------------------------------------------------------
(* The node, the connection and the process.                               *)

\* The lists that have each element of S once.
Orders(S) == {s \in [1..Cardinality(S) -> S] : \A r \in S : \E i \in DOMAIN s : s[i] = r}

Changed == {l \in Log : blockOf'[l] # blockOf[l]}

\* The rows of the logs that leave their block, and of those that come into one.
Removed == {LogRow(l) : l \in {k \in Changed : Mined(k)}}
Added == {LogRow(l)' : l \in {k \in Changed : Mined(k)'}}

\* What a live subscription pushes when the chain changes: the logs that left
\* their block (sent again, marked as removed, which nobody looks at) and then
\* the logs of the new blocks in block order.
Pushed ==
  {r \o a : r \in Orders(Removed),
            a \in {o \in Orders(Added) :
                     \A i, j \in DOMAIN o : i < j => o[i].block <= o[j].block}}

\* A live subscription learns of every change, a dead or future one of none.
Notify ==
  \/ connected /\ \E s \in Pushed : queue' = queue \o s
  \/ ~connected /\ queue' = queue

ChainGrows ==
  /\ Mine
  /\ Notify
  /\ UNCHANGED <<storeVars, procVars, failed, last, connected, window, torn, moved, reorgs>>

ChainReorganises ==
  /\ reorgs < MaxReorgs
  /\ reorgs' = reorgs + 1
  /\ Reorg
  /\ Notify
  /\ moved' = IF connected THEN moved ELSE moved \cup Changed
  /\ UNCHANGED <<storeVars, procVars, failed, last, connected, window, torn>>

\* The connection breaks; logs not yet in the channel are lost with it.
Break ==
  /\ connected
  /\ connected' = FALSE
  /\ \E n \in 0..Len(queue) :
       /\ queue' = SubSeq(queue, 1, n)
       /\ torn' = torn \cup {queue[i].log : i \in (n + 1)..Len(queue)}
  /\ UNCHANGED <<listenerVars, last, window, moved, reorgs>>

Restart == pc = "stopped" /\ cancelled /\ FreshProcess /\ DropQueue

Crash == FreshProcess /\ DropQueue

CancelRun == Cancel /\ UNCHANGED socketVars

SettleLate == SettleStep /\ UNCHANGED socketVars

Setup == DialOk \/ LoadOk \/ HeadOk \/ SubscribeOk \/ SetupFails

Backfill == FilterOk \/ HandleBackfilled \/ MarkBackfilled

Live == LiveHandled \/ LiveFailed \/ LiveMarked \/ LiveEnds

Next ==
  \/ Setup
  \/ Backfill
  \/ Live
  \/ Done
  \/ RetryLater
  \/ ChainGrows
  \/ ChainReorganises
  \/ Break
  \/ CancelRun
  \/ Restart
  \/ Crash
  \/ SettleLate

Spec == Init /\ [][Next]_vars

(***************************************************************************)
(* Fairness.  The goroutine is scheduled (weak fairness).  The node and    *)
(* the database do not refuse the same call for ever (strong fairness: a   *)
(* failure sends the goroutine round through backoff); FilterLogs is the   *)
(* same call if it asks for the same range.  select picks every ready case *)
(* sooner or later.                                                        *)
(***************************************************************************)
Fairness ==
  /\ SF_vars(DialOk) /\ SF_vars(LoadOk) /\ SF_vars(HeadOk) /\ SF_vars(SubscribeOk)
  /\ \A first \in MinStart..(MaxBlock - Confirmations) : SF_vars(FilterOk /\ cursor = first)
  /\ WF_vars(Setup)
  /\ WF_vars(Backfill \/ SetupFails)
  /\ WF_vars(LiveHandled \/ LiveFailed \/ LiveMarked)
  /\ SF_vars(LiveEnds)
  /\ SF_vars(Done)
  /\ WF_vars(RetryLater \/ Done)

FairSpec == Spec /\ Fairness

-----------------------------------------------------------------------------
(* Safety.                                                                 *)

AccountedLogs == Recorded \cup failed \cup QueuedLogs \cup window \cup torn \cup moved

AccountedTo(b) ==
  \A l \in Accepted : (Mined(l) /\ blockOf[l] \in MinStart..b) => l \in AccountedLogs

(***************************************************************************)
(* An accounting of every log the listener can lose.  An accepted log at   *)
(* or below the checkpoint is in the table, failed in the handler, still   *)
(* in the channel, or is lost for one of three reasons: it was in the      *)
(* unconfirmed window when the listener subscribed (websocket.go:75-86),   *)
(* it was pushed and dropped when the connection or the process ended      *)
(* (websocket.go:96-99), or a reorganisation moved it while nobody was     *)
(* subscribed.  A backfilled block never loses a log.                      *)
(***************************************************************************)
LossAccounted == AccountedTo(checkpoint)

\* Log l was dealt with, or there is a log of its block that was.
Excused(l) ==
  \/ l \in Recorded \cup failed \cup window
  \/ \E k \in (Recorded \cup Ignored) \ {l} : blockOf[k] = blockOf[l]

(***************************************************************************)
(* The checkpoint moves by whole blocks but logs arrive one by one, so a   *)
(* disconnection can lose logs of the block it tears, never another: a     *)
(* log lost that way shares its block with one that was handled            *)
(* (websocket.go:100-107), unless a reorganisation moves one of them.      *)
(***************************************************************************)
TornSharesBlock ==
  reorgs = 0 => \A l \in Accepted \cap torn :
    (Mined(l) /\ blockOf[l] \in MinStart..checkpoint) =>
      l \in QueuedLogs \/ Excused(l)

(***************************************************************************)
(* The checkpoint never passes the block of a log that is still in the     *)
(* channel: what a disconnection drops can be no older than it.  After a   *)
(* reorganisation, logs of blocks that were passed are sent again.         *)
(***************************************************************************)
ChannelNotPassed ==
  reorgs = 0 => \A i \in DOMAIN queue : queue[i].block >= checkpoint

(***************************************************************************)
(* What the comment at websocket.go:59-61 says of the catch-up step: what  *)
(* was mined before the listener subscribed is not missed.  A log that was *)
(* there when it subscribed is not below the checkpoint, where no later    *)
(* run looks, without having been handled.                                 *)
(***************************************************************************)
CaughtUp ==
  \A l \in Accepted \cap window :
    (Mined(l) /\ blockOf[l] \in MinStart..checkpoint) => l \in Recorded \cup failed

-----------------------------------------------------------------------------
(* An inductive invariant.  Known and Shared are the blocks of which one   *)
(* may say what LossAccounted and TornSharesBlock say of the checkpoint;   *)
(* the rest follows them through memory, late statements and the channel.  *)

Marks == lateMarks \cup {checkpoint}

\* No log of these blocks or lower ones is unaccounted for, nor can one turn up.
Known == {b \in Int : (b <= head \/ b < MinStart) /\ AccountedTo(b)}

Shared ==
  {b \in Known :
     \A l \in Accepted \cap (torn \cup QueuedLogs) :
       (Mined(l) /\ blockOf[l] \in MinStart..b) => Excused(l)}

InRunOnce == pc \in {"head", "filter", "handle", "subscribe"} /\ ~cancelled

PendingLogs == {r.log : r \in pending}

\* Only a live run has a channel, and a range to read ends on the chain.
Situated ==
  /\ pc \notin {"live", "mark"} => queue = << >> /\ ~connected
  /\ last <= head
  /\ pc = "filter" => cursor <= last
  /\ pc = "handle" => to <= head

\* In the range at hand, all is accounted for but the pending logs.
RangeKnown ==
  (pc = "handle" /\ ~cancelled) =>
    \A l \in Accepted :
      (Mined(l) /\ blockOf[l] \in MinStart..to) => l \in AccountedLogs \cup PendingLogs

\* A live subscription sees everything, and what it has seen stays known.
ChannelKnown ==
  /\ connected => head \in Known
  /\ \A i \in DOMAIN queue : queue[i].block \in Known /\ queue[i].block <= head
  /\ pc = "mark" => to \in Known /\ to <= head

KnowledgeOK ==
  /\ Marks \subseteq Known
  /\ \A b \in Marks : b <= head
  /\ InRunOnce => cursor - 1 \in Known
  /\ RangeKnown
  /\ ChannelKnown

\* The channel holds mined logs in the order of the chain, each once, and the
\* marks are behind it.
ChannelOrdered ==
  /\ \A i \in DOMAIN queue : Mined(queue[i].log) /\ queue[i].block = blockOf[queue[i].log]
  /\ \A i, j \in DOMAIN queue : i < j => /\ queue[i].block <= queue[j].block
                                        /\ queue[i].log # queue[j].log
  /\ \A i \in DOMAIN queue : \A b \in Marks : b <= queue[i].block
  /\ pc = "mark" => \A i \in DOMAIN queue : to <= queue[i].block

RangeShared ==
  (pc = "handle" /\ ~cancelled) =>
    \A l \in Accepted \cap torn :
      (Mined(l) /\ blockOf[l] \in MinStart..to) => Excused(l) \/ l \in PendingLogs

\* What a broken connection has torn is no older than what it has left.
TornLast ==
  (pc \in {"live", "mark"} /\ ~cancelled) =>
    \A l \in Accepted \cap torn :
      (Mined(l) /\ blockOf[l] >= MinStart) =>
        \/ Excused(l)
        \/ ~connected /\ \A i \in DOMAIN queue : queue[i].block <= blockOf[l]

\* The rest holds as long as there is no reorganisation.
OrderOK ==
  /\ ChannelOrdered
  /\ \A l \in torn : Mined(l)
  /\ Marks \subseteq Shared
  /\ InRunOnce => cursor - 1 \in Shared
  /\ (pc = "mark" /\ ~cancelled) => to \in Shared
  /\ RangeShared
  /\ TornLast

IInv ==
  /\ TypeOK
  /\ Situated
  /\ KnowledgeOK
  /\ reorgs = 0 => OrderOK

-----------------------------------------------------------------------------
(* Liveness.                                                               *)

\* The process is not killed or restarted for ever.
EventuallyUndisturbed == <>[][~FreshProcess]_vars

\* Whatever ends a run of runOnce, a listener nobody cancels subscribes again
\* (websocket.go:28-41).
Reconnects ==
  EventuallyUndisturbed => (pc \notin {"live", "mark"} ~> (pc = "live" \/ cancelled))

\* A log in the channel of a live listener is handled, unless it is dropped
\* with its connection (websocket.go:94-107).
ChannelDrains ==
  EventuallyUndisturbed =>
    \A l \in Accepted : l \in QueuedLogs ~> l \in Recorded \cup failed \cup torn

\* A cancelled listener returns from Run, whichever call or wait it was in, so
\* that main's wg.Wait ends (websocket.go:33-39, 96-97); or it crashes first.
ShutdownCompletes ==
  EventuallyUndisturbed => (cancelled ~> (pc = "stopped" \/ ~cancelled))
=============================================================================

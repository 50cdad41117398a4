------------------------------ MODULE Listener ------------------------------
(***************************************************************************)
(* What the two listeners of internal/listener share: the configuration of *)
(* one chain, the point a run resumes from, and the loop that reads a      *)
(* range of blocks, hands its logs to the handler one by one and marks the *)
(* range as read (poller.go:87-109, websocket.go:118-141).                 *)
(*                                                                         *)
(* One action per remote call and per outcome of that call, so that        *)
(* blocks, reorganisations, late statements, a shutdown signal and crashes *)
(* fall between any two of them.                                           *)
(***************************************************************************)
EXTENDS Blockchain, Store

CONSTANTS
  StartBlocks,     \* start_block of each contract of the chain
  Confirmations,   \* confirmations
  BlockBatchSize,  \* block_batch_size, 0 when it is not configured
  DefaultBatch,    \* what the listener falls back to: 1000 polling, 2000 on a socket
  MaxUint64,       \* the largest uint64
  Ignored,         \* logs Handle drops without an error (unknown event, filtered)
  Undecodable      \* logs Handle cannot unpack: it always returns an error

ASSUME ConfigAssumption ==
  /\ StartBlocks \subseteq Nat
  /\ \E m \in StartBlocks : \A n \in StartBlocks : m <= n
  /\ Confirmations \in Nat
  /\ BlockBatchSize \in Nat
  /\ DefaultBatch \in Nat \ {0}
  /\ MaxUint64 \in Nat
  /\ Ignored \subseteq Log
  /\ Undecodable \subseteq Log

MinStart == CHOOSE m \in StartBlocks : \A n \in StartBlocks : m <= n

Batch == IF BlockBatchSize = 0 THEN DefaultBatch ELSE BlockBatchSize

\* Nothing in config.Load rejects a batch size that makes cursor + batch wrap.
ASSUME BatchAssumption == MaxBlock + Batch <= MaxUint64

VARIABLES
  pc,         \* where the listener's goroutine is
  cursor,     \* the next block to read
  to,         \* the last block of the current range
  pending,    \* the logs of the current range not handled yet
  cancelled,  \* the process's context is done
  failed      \* history: logs whose Handle returned an error in a live context

procVars == <<pc, cursor, to, pending, cancelled>>
listenerVars == <<chainVars, storeVars, procVars, failed>>

Accepted == Log \ Ignored

ListenerTypeOK ==
  /\ ChainTypeOK
  /\ events \in Seq(Row)
  /\ checkpoint \in 0..MaxBlock \cup {NoRow}
  /\ lateRows \subseteq Row
  /\ lateMarks \subseteq 0..MaxBlock
  /\ cursor \in Nat
  /\ to \in 0..MaxBlock
  /\ pending \subseteq Row
  /\ cancelled \in BOOLEAN
  /\ failed \subseteq Log

ListenerInit ==
  /\ ChainInit
  /\ StoreInit
  /\ pc = "dial"
  /\ cursor = 0
  /\ to = 0
  /\ pending = {}
  /\ cancelled = FALSE
  /\ failed = {}

\* The listener's goroutine goes from one point to another and nothing else changes.
Goto(from, next) ==
  /\ pc = from
  /\ pc' = next
  /\ UNCHANGED <<chainVars, storeVars, cursor, to, pending, cancelled, failed>>

-----------------------------------------------------------------------------
(* Resuming.                                                               *)

\* Mutant of Resume: one block too far.
ResumeSkips(cp) == IF cp # NoRow /\ cp + 2 > MinStart THEN cp + 2 ELSE MinStart

\* cursor := minStart; if ok && cp+1 > cursor { cursor = cp + 1 }
Resume(cp) == IF cp # NoRow /\ cp + 1 > MinStart THEN cp + 1 ELSE MinStart

Load(next) ==
  /\ pc = "load"
  /\ ~cancelled
  /\ cursor' = Resume(checkpoint)
  /\ pc' = next
  /\ UNCHANGED <<chainVars, storeVars, to, pending, cancelled, failed>>

-----------------------------------------------------------------------------
(* Handing a log to the handler (handler.go:75-135).                       *)

Ignores(r) ==
  /\ r.log \in Ignored
  /\ UNCHANGED <<storeVars, cancelled, failed>>

Stores(r) ==
  /\ r.log \in Accepted \ Undecodable
  /\ ~cancelled
  /\ SaveEvent(r)
  /\ UNCHANGED <<cancelled, failed>>

\* The caller logs the error and goes on.
AfterError(l) == IF cancelled' THEN failed ELSE failed \cup {l}

\* Mutant of Fails: an error that nobody reports.
FailsSilently(r) == r.log \in Accepted /\ UNCHANGED <<storeVars, cancelled, failed>>

Fails(r) ==
  /\ r.log \in Accepted
  /\ UNCHANGED <<storeVars, cancelled>>
  /\ failed' = AfterError(r.log)

\* The statement was sent, and then its connection broke or the context ended.
Abandons(r) ==
  /\ r.log \in Accepted \ Undecodable
  /\ ~cancelled
  /\ AbandonEvent(r)
  /\ cancelled' \in BOOLEAN
  /\ failed' = AfterError(r.log)

HandleReturnsNil(r) == Ignores(r) \/ Stores(r)

HandleReturnsError(r) == Fails(r) \/ Abandons(r)

-----------------------------------------------------------------------------
(* Reading a range.                                                        *)

\* Mutant of Safe: no confirmations.
SafeIsHead == head

\* head - confirmations in uint64.
Safe == IF head >= Confirmations THEN head - Confirmations
        ELSE head - Confirmations + MaxUint64 + 1

\* from + batch - 1 in uint64, clamped to the last block wanted.
RangeEnd(from, last) ==
  LET sum == from + Batch - 1
      end == IF sum <= MaxUint64 THEN sum ELSE sum - MaxUint64 - 1
  IN IF end > last THEN last ELSE end

\* The logs arrive in block order; within a block any order may be theirs.
NextLog(r) ==
  /\ pc = "handle"
  /\ r \in pending
  /\ \A s \in pending : r.block <= s.block
  /\ pending' = pending \ {r}
  /\ UNCHANGED <<pc, cursor, to, chainVars>>

HandleNext == \E r \in pending : NextLog(r) /\ (HandleReturnsNil(r) \/ HandleReturnsError(r))

\* Mutant of EndRange: the range is marked before its logs are handled.
EndRangeEarly(next) ==
  /\ pc = "handle"
  /\ cursor' = to + 1
  /\ pc' = next
  /\ UNCHANGED <<chainVars, to, pending, failed>>

\* Every log of the range has been handled: the range is over, come what may.
EndRange(next) ==
  /\ pc = "handle"
  /\ pending = {}
  /\ cursor' = to + 1
  /\ pc' = next
  /\ UNCHANGED <<chainVars, to, pending, failed>>

MarkOk(next) ==
  /\ EndRange(next)
  /\ ~cancelled
  /\ SaveCheckpoint(to)
  /\ UNCHANGED cancelled

MarkFails(next) ==
  /\ EndRange(next)
  /\ UNCHANGED <<storeVars, cancelled>>

MarkAbandons(next) ==
  /\ EndRange(next)
  /\ ~cancelled
  /\ AbandonCheckpoint(to)
  /\ cancelled' \in BOOLEAN

Mark(next) == MarkOk(next) \/ MarkFails(next) \/ MarkAbandons(next)

-----------------------------------------------------------------------------
(* The process around the listener.                                        *)

\* main.go: SIGINT or SIGTERM arrives and cancel() is called.
Cancel ==
  /\ ~cancelled
  /\ cancelled' = TRUE
  /\ UNCHANGED <<chainVars, storeVars, pc, cursor, to, pending, failed>>

FreshProcess ==
  /\ pc' = "dial"
  /\ cursor' = 0
  /\ to' = 0
  /\ pending' = {}
  /\ cancelled' = FALSE
  /\ UNCHANGED <<chainVars, storeVars, failed>>

ChainStep == ChainNext /\ UNCHANGED <<storeVars, procVars, failed>>

SettleStep == Settle /\ UNCHANGED <<chainVars, procVars, failed>>

-----------------------------------------------------------------------------
(* Promises about the tables.                                              *)

\* Every log of the blocks MinStart..b is dealt with for good: stored, or
\* dropped on purpose, or reported as failed.
Covered(b) ==
  \A l \in Accepted :
    (Mined(l) /\ blockOf[l] \in MinStart..b) => l \in Recorded \cup failed

(***************************************************************************)
(* The checkpoint never runs ahead of the events table: whatever crashed,  *)
(* was cancelled, failed or committed late, a log at or below last_block   *)
(* is in the table or had its Handle error logged.  A restart resumes      *)
(* above last_block (poller.go:47-50), so anything else would be lost.     *)
(***************************************************************************)
Coverage == Covered(checkpoint)

(***************************************************************************)
(* Ranges are read again after a crash, a failed SaveCheckpoint or a late  *)
(* statement; the table still holds a log at most once (db.go:57).         *)
(***************************************************************************)
NoDuplicateRows ==
  \A i, j \in DOMAIN events : events[i].log = events[j].log => i = j

\* No step takes the checkpoint back, late statements included (db.go:82).
CheckpointMonotone == [][checkpoint' >= checkpoint]_checkpoint
=============================================================================

---------------------------- MODULE VaultMonitor ----------------------------
(***************************************************************************)
(* contracts/abi/sampleExample.go, the vault listener kept there as the    *)
(* sample the service was derived from: StartMonitoringChain and the loop  *)
(* of monitorVaultEvents for one chain, with its sync state in MongoDB,    *)
(* its adaptive batch size and its recovery from being stuck.              *)
(*                                                                         *)
(* What the handlers do with the logs of a batch is not modelled here:     *)
(* they swallow every error, so a batch that was fetched is processed.     *)
(*                                                                         *)
(* pc is where the goroutine is: "down" before StartMonitoringChain,       *)
(* "loop" at the top of its loop, "filter" before FilterLogs, "process"    *)
(* and "save" after it, "stopped" when it has returned, "unmonitored" when *)
(* StartMonitoringChain failed and Start went on without the chain.        *)
(***************************************************************************)
EXTENDS Integers

CONSTANTS
  Confirmations,          \* block_confirmations of the chain
  VaultDefaultBatchSize,
  VaultMaxBatchSize,
  VaultMinBatchSize,
  Lookback,               \* where a chain without sync state starts: 1000 blocks ago
  StepBack,               \* how far a stuck loop goes back: 10 blocks
  NamedBlocks,            \* how many negative numbers name a block (pending, latest, ...)
  FirstHead,              \* the height of the chain at first
  MaxBlock                \* bound of the model: the chain stops growing at this height

ASSUME MonitorAssumption ==
  /\ Confirmations \in Nat \ {0}
  /\ VaultMinBatchSize \in Nat \ {0}
  /\ VaultDefaultBatchSize \in Nat /\ VaultMinBatchSize <= VaultDefaultBatchSize
  /\ VaultMaxBatchSize \in Nat /\ VaultDefaultBatchSize <= VaultMaxBatchSize
  /\ Lookback \in Nat
  /\ StepBack \in Nat
  /\ NamedBlocks \in Nat
  /\ FirstHead \in Nat
  /\ MaxBlock \in Nat /\ FirstHead <= MaxBlock

\* No vault_sync_states document: below every block that can be stored.
NoState == -StepBack - 2

VARIABLES
  head,       \* the height BlockNumber answers
  synced,     \* last_block_processed of the chain
  pc,
  current,    \* currentBlock
  batch,      \* batchSize
  end,        \* endBlock
  stuck,      \* more than two minutes have passed since lastProgressTime
  stopping,   \* the stop channel is closed
  read,       \* history: blocks whose logs have been processed
  origin,     \* history: the block the first start began at
  skipped,    \* history: blocks left behind by a start without sync state, or
              \* by a range that began at a negative number
  announced   \* history: the batch size the loop said it reduced to, or 0

vars == <<head, synced, pc, current, batch, end, stuck, stopping,
          read, origin, skipped, announced>>

loopVars == <<current, batch, end, stuck, announced>>
history == <<read, origin, skipped>>

TypeOK ==
  /\ head \in 0..MaxBlock
  /\ synced \in NoState..MaxBlock
  /\ pc \in {"down", "loop", "filter", "process", "save", "stopped", "unmonitored"}
  /\ current \in -StepBack..MaxBlock
  /\ batch \in 1..VaultMaxBatchSize
  /\ end \in -StepBack..MaxBlock
  /\ stuck \in BOOLEAN
  /\ stopping \in BOOLEAN
  /\ read \subseteq 0..MaxBlock
  /\ origin \in 0..MaxBlock \cup {NoState}
  /\ skipped \subseteq 0..MaxBlock
  /\ announced \in 0..VaultMaxBatchSize

Init ==
  /\ head = FirstHead
  /\ synced = NoState
  /\ pc = "down"
  /\ current = 0
  /\ batch = VaultDefaultBatchSize
  /\ end = 0
  /\ stuck = FALSE
  /\ stopping = FALSE
  /\ read = {}
  /\ origin = NoState
  /\ skipped = {}
  /\ announced = 0

Goto(from, next) == pc = from /\ pc' = next

-----------------------------------------------------------------------------
(* StartMonitoringChain.                                                   *)

EnterLoop(from) ==
  /\ Goto("down", "loop")
  /\ current' = from
  /\ batch' = VaultDefaultBatchSize
  /\ end' = 0
  /\ stuck' = FALSE
  /\ announced' = 0
  /\ origin' = IF origin = NoState THEN from ELSE origin
  /\ UNCHANGED <<head, stopping, read>>

\* Mutant of ResumeAfter: the block after the next.
ResumeAfterNext(block) == block + 2

\* getLastProcessedVaultBlock: "Start from the NEXT block after the last processed one".
ResumeAfter(block) == block + 1

StartResumes ==
  /\ synced # NoState
  /\ EnterLoop(ResumeAfter(synced))
  /\ UNCHANGED <<synced, skipped>>

\* There is no sync state, or reading it failed, which is taken for the same.
\* A document that exists stays the one FindOne and Upsert see.
StartAfresh ==
  LET from == IF head > Lookback THEN head - Lookback ELSE 0
  IN /\ EnterLoop(from)
     /\ synced' \in IF synced = NoState THEN {NoState, from - 1} ELSE {synced}
     /\ skipped' = IF origin = NoState THEN skipped
                   ELSE skipped \cup (origin..(from - 1) \ read)

\* Dialing fails, or BlockNumber does: Start warns and continues.
StartFails ==
  /\ Goto("down", "unmonitored")
  /\ UNCHANGED <<head, synced, stopping, loopVars, history>>

Start == StartResumes \/ StartAfresh \/ StartFails

-----------------------------------------------------------------------------
(* The loop of monitorVaultEvents.                                         *)

\* Mutant of Confirmed: the head itself.
ConfirmedIsHead == head

Confirmed == head - Confirmations

\* blocksAvailable caps batchSize, or resets it to the maximum.
BatchFor(available) ==
  CASE available < batch             -> available
    [] available > VaultMaxBatchSize -> VaultMaxBatchSize
    [] OTHER                         -> batch

NextBatch ==
  /\ Goto("loop", "filter")
  /\ ~stopping
  /\ Confirmed > 0
  /\ current < Confirmed
  /\ stuck' = FALSE
  /\ batch' = BatchFor(Confirmed - current)
  /\ LET last == current + batch' - 1
     IN end' = IF last > Confirmed THEN Confirmed ELSE last
  /\ UNCHANGED <<head, synced, current, stopping, announced, history>>

\* Nothing to read for two minutes: go back and read the last blocks again.
GoBack ==
  /\ Goto("loop", "loop")
  /\ ~stopping
  /\ Confirmed > 0
  /\ current >= Confirmed
  /\ stuck
  /\ current' = Confirmed - StepBack
  /\ stuck' = FALSE
  /\ UNCHANGED <<head, synced, batch, end, stopping, announced, history>>

\* A negative number is the name of a block, or an error to the node.
FilterOk ==
  /\ Goto("filter", "process")
  /\ current >= -NamedBlocks
  /\ announced' = 0
  /\ UNCHANGED <<head, synced, current, batch, end, stuck, stopping, history>>

\* Mutant of FilterFails: go on to the next range.
FilterFailsSkips ==
  /\ Goto("filter", "loop")
  /\ current' = end + 1
  /\ UNCHANGED <<head, synced, batch, end, stuck, stopping, announced, history>>

\* Mutant of FilterFails: try again in place, without looking at the stop channel.
FilterFailsInPlace == pc = "filter" /\ UNCHANGED vars

FilterFails ==
  /\ Goto("filter", "loop")
  /\ IF batch > VaultMinBatchSize
     THEN batch' = batch \div 2 /\ announced' = batch'
     ELSE UNCHANGED <<batch, announced>>
  /\ UNCHANGED <<head, synced, current, end, stuck, stopping, history>>

\* Every log is handed to its handler; a range from a named block holds none of
\* the blocks it counts as read.
Process ==
  /\ Goto("process", "save")
  /\ \/ current >= 0 /\ read' = read \cup current..end /\ UNCHANGED skipped
     \/ current < 0 /\ skipped' = skipped \cup (0..end \ read) /\ UNCHANGED read
  /\ UNCHANGED <<head, synced, loopVars, stopping, origin>>

Least(a, b) == IF a < b THEN a ELSE b

\* Mutant of Grown: twice the size, whatever the maximum.
GrownUnbounded(size) == IF size < VaultMaxBatchSize THEN 2 * size ELSE size

Grown(size) ==
  IF size < VaultDefaultBatchSize
  THEN Least(Least(2 * size, VaultMaxBatchSize), VaultDefaultBatchSize)
  ELSE size

\* An upsert; its error is only logged.
updateLastProcessedVaultBlock(block) == synced' \in {block, synced}

Save ==
  /\ Goto("save", "loop")
  /\ updateLastProcessedVaultBlock(end)
  /\ current' = end + 1
  /\ batch' = Grown(batch)
  /\ UNCHANGED <<head, end, stuck, stopping, announced, history>>

\* The stop channel is looked at once per turn of the loop.
StopSeen ==
  /\ Goto("loop", "stopped")
  /\ stopping
  /\ UNCHANGED <<head, synced, stopping, loopVars, history>>

-----------------------------------------------------------------------------
(* The chain, the clock, the process.                                      *)

NewBlock ==
  /\ head < MaxBlock
  /\ head' = head + 1
  /\ UNCHANGED <<synced, pc, stopping, loopVars, history>>

Running == pc \in {"loop", "filter", "process", "save"}

TwoMinutesPass ==
  /\ Running
  /\ stuck' = TRUE
  /\ UNCHANGED <<head, synced, pc, current, batch, end, stopping, announced, history>>

Stop ==
  /\ Running
  /\ stopping' = TRUE
  /\ UNCHANGED <<head, synced, pc, loopVars, history>>

\* The process ends, or dies, and is started again.
Restart ==
  /\ pc # "down"
  /\ pc' = "down"
  /\ stopping' = FALSE
  /\ UNCHANGED <<head, synced, loopVars, history>>

Next ==
  \/ Start
  \/ NextBatch
  \/ GoBack
  \/ FilterOk
  \/ FilterFails
  \/ Process
  \/ Save
  \/ StopSeen
  \/ NewBlock
  \/ TwoMinutesPass
  \/ Stop
  \/ Restart

Spec == Init /\ [][Next]_vars

(***************************************************************************)
(* Fairness.  The goroutine is scheduled (weak fairness), and the node     *)
(* does not refuse a range it can answer for ever (strong fairness).       *)
(***************************************************************************)
Fairness ==
  /\ WF_vars(Start)
  /\ WF_vars(NextBatch)
  /\ SF_vars(FilterOk)
  /\ WF_vars(FilterOk \/ FilterFails)
  /\ WF_vars(Process)
  /\ WF_vars(Save)
  /\ WF_vars(StopSeen)

FairSpec == Spec /\ Fairness

-----------------------------------------------------------------------------
(* Safety.                                                                 *)

(***************************************************************************)
(* The sync state never claims a block nobody read: between the first      *)
(* block and last_block_processed every block has been processed, through  *)
(* halved batches, steps back, failed saves and restarts, unless a start   *)
(* that could not read the sync state jumped over it (lines 1777-1806), or *)
(* a step back on a young chain made the range begin below 0 (line 2025).  *)
(***************************************************************************)
NothingUnread ==
  origin # NoState => \A b \in origin..synced : b \in read \cup skipped

(***************************************************************************)
(* Only blocks strictly below the newest confirmed one are read or being   *)
(* read, however the batch size was computed (lines 2040-2058).            *)
(***************************************************************************)
ReadConfirmed ==
  /\ \A b \in read : b + Confirmations < head
  /\ pc \in {"filter", "process", "save"} => end + Confirmations < head

-----------------------------------------------------------------------------
(* What makes the safety properties inductive.                             *)

Dealt(b) == b \in read \cup skipped

\* Everything from the first block to b has been read or skipped.
DealtUpTo(b) == origin # NoState /\ \A a \in origin..b : Dealt(a)

\* A sync state is only written by a loop, which has an origin.
SyncedAfterOrigin == synced # NoState => DealtUpTo(synced)

\* A restart resumes at the head or below it.
SyncedBelowHead == synced < head

\* The loop stands right above what it has dealt with, ...
CurrentAboveDealt == Running => DealtUpTo(current - 1)

\* ... holds a range that is not empty, ...
RangeNotEmpty == pc \in {"filter", "process", "save"} => current <= end

\* ... and saves it after it has dealt with it.
SavesDealt == pc = "save" => DealtUpTo(end)

IInv ==
  /\ TypeOK
  /\ ReadConfirmed
  /\ SyncedAfterOrigin
  /\ SyncedBelowHead
  /\ CurrentAboveDealt
  /\ RangeNotEmpty
  /\ SavesDealt

-----------------------------------------------------------------------------
(* What its log says.                                                      *)

(***************************************************************************)
(* "Reduced batch size to %d" (line 2105): after FilterLogs has failed,    *)
(* the next range asked for is no longer than the size it was reduced to.  *)
(***************************************************************************)
ReducedIsAsked ==
  (pc = "filter" /\ announced > 0) => end - current + 1 <= announced

-----------------------------------------------------------------------------
(* Liveness.                                                               *)

\* The process is not restarted for ever.
EventuallyUndisturbed == <>[][~Restart]_vars

\* A step back on a young chain has led below the named blocks: the node
\* refuses every range from there.
Refused == current < -NamedBlocks

(***************************************************************************)
(* Every block that gets confirmed is read, unless it was jumped over, the *)
(* goroutine has ended, or a step back on a chain lower than StepBack took *)
(* it where every range is refused (lines 1967-2282).                      *)
(***************************************************************************)
KeepsUp ==
  EventuallyUndisturbed =>
    \A b \in 0..MaxBlock :
      (origin # NoState /\ b >= origin /\ b + Confirmations < head)
        ~> (b \in read \cup skipped \/ Refused \/ pc \in {"stopped", "unmonitored"})

\* Stop's wg.Wait ends: a closed stop channel is seen, or the process restarts
\* first (lines 1825-1836, 1967-1971).
StopCompletes ==
  EventuallyUndisturbed => (stopping ~> (pc = "stopped" \/ ~stopping))
=============================================================================

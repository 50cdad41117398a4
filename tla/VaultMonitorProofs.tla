------------------------- MODULE VaultMonitorProofs -------------------------
(***************************************************************************)
(* Proofs about VaultMonitor, for every chain, batch size, confirmation    *)
(* depth, look-back and step back: its types, that only confirmed blocks   *)
(* are read, and that the sync state never claims a block nobody read.     *)
(***************************************************************************)
EXTENDS VaultMonitor, TLAPS

-----------------------------------------------------------------------------
(* The arithmetic of a batch.                                              *)

LEMMA NoStateIsBelow == NoState \in Int /\ NoState < -1 /\ NoState < -StepBack
BY MonitorAssumption DEF NoState

\* The next batch is not empty, fits the maximum and what is available.
LEMMA BatchForFits ==
  ASSUME NEW available \in Nat \ {0}, batch \in 1..VaultMaxBatchSize
  PROVE  /\ BatchFor(available) \in 1..VaultMaxBatchSize
         /\ BatchFor(available) <= available
BY MonitorAssumption DEF BatchFor

\* The size after a success stays within bounds.
LEMMA GrownFits ==
  ASSUME NEW size \in 1..VaultMaxBatchSize
  PROVE  Grown(size) \in 1..VaultMaxBatchSize
BY MonitorAssumption DEF Grown, Least

\* The range NextBatch asks for: not empty and strictly below the newest
\* confirmed block (sampleExample.go:2040-2058).
LEMMA NextBatchRange ==
  ASSUME TypeOK, NextBatch
  PROVE  \E size \in 1..VaultMaxBatchSize, last \in Int :
           /\ batch' = size
           /\ end' = last
           /\ current <= last
           /\ last + Confirmations < head
<1> DEFINE size == BatchFor(Confirmed - current)
<1>1. /\ head \in Nat /\ current \in Int /\ batch \in 1..VaultMaxBatchSize
      /\ Confirmations \in Nat \ {0} /\ VaultMaxBatchSize \in Nat
  BY MonitorAssumption DEF TypeOK
<1>2. Confirmed - current \in Nat \ {0}
  BY <1>1 DEF NextBatch, Confirmed
<1>3. size \in 1..VaultMaxBatchSize /\ size <= Confirmed - current
  BY <1>1, <1>2, BatchForFits
<1>4. batch' = size
  BY DEF NextBatch
<1> HIDE DEF size
<1>5. /\ current + size - 1 \in Int
      /\ current <= current + size - 1
      /\ current + size - 1 + Confirmations < head
      /\ ~(current + size - 1 > Confirmed)
  BY <1>1, <1>3 DEF Confirmed
<1>6. end' = current + size - 1
  BY <1>4, <1>5 DEF NextBatch
<1> QED
  BY <1>3, <1>4, <1>5, <1>6

-----------------------------------------------------------------------------
(* The invariant at the start.                                             *)

LEMMA InitIInv == Init => IInv
<1> SUFFICES ASSUME Init PROVE IInv
  OBVIOUS
<1>1. /\ FirstHead \in 0..MaxBlock /\ 0 \in -StepBack..MaxBlock /\ 0 \in 0..VaultMaxBatchSize
      /\ VaultDefaultBatchSize \in 1..VaultMaxBatchSize /\ NoState \in NoState..MaxBlock
      /\ NoState < FirstHead
  BY MonitorAssumption, NoStateIsBelow
<1>2. TypeOK
  BY <1>1 DEF Init, TypeOK
<1>3. /\ ReadConfirmed /\ SyncedAfterOrigin /\ SyncedBelowHead /\ CurrentAboveDealt
      /\ RangeNotEmpty /\ SavesDealt
  BY <1>1 DEF Init, ReadConfirmed, SyncedAfterOrigin, SyncedBelowHead, CurrentAboveDealt,
              Running, RangeNotEmpty, SavesDealt
<1> QED
  BY <1>2, <1>3 DEF IInv

-----------------------------------------------------------------------------
(* Starting.                                                               *)

\* What StartMonitoringChain leaves behind whichever block it starts from.
LEMMA EnterLoopKeeps ==
  ASSUME TypeOK, ReadConfirmed, NEW from \in -StepBack..MaxBlock, EnterLoop(from),
         from >= 0 \/ origin # NoState
  PROVE  /\ ReadConfirmed' /\ RangeNotEmpty' /\ SavesDealt'
         /\ pc' = "loop" /\ current' = from /\ batch' \in 1..VaultMaxBatchSize
         /\ end' \in -StepBack..MaxBlock /\ announced' \in 0..VaultMaxBatchSize
         /\ stuck' \in BOOLEAN /\ origin' \in 0..MaxBlock \cup {NoState}
         /\ UNCHANGED <<head, stopping, read>>
<1>1. /\ VaultDefaultBatchSize \in 1..VaultMaxBatchSize /\ 0 \in -StepBack..MaxBlock
      /\ 0 \in 0..VaultMaxBatchSize
  BY MonitorAssumption
<1>2. from >= 0 => from \in 0..MaxBlock
  BY MonitorAssumption
<1> QED
  BY <1>1, <1>2 DEF EnterLoop, Goto, TypeOK, ReadConfirmed, RangeNotEmpty, SavesDealt

LEMMA ResumeKeepsIInv == IInv /\ StartResumes => IInv'
<1> SUFFICES ASSUME IInv, StartResumes PROVE IInv'
  OBVIOUS
<1>1. /\ TypeOK /\ ReadConfirmed /\ synced # NoState /\ DealtUpTo(synced) /\ synced < head
      /\ EnterLoop(synced + 1) /\ UNCHANGED <<synced, skipped>>
  BY DEF IInv, SyncedAfterOrigin, SyncedBelowHead, StartResumes, ResumeAfter
<1>2. /\ head \in 0..MaxBlock /\ synced \in NoState..MaxBlock
  BY <1>1 DEF TypeOK
<1>3. synced + 1 \in -StepBack..MaxBlock /\ (synced + 1) - 1 = synced
  BY <1>1, <1>2, MonitorAssumption DEF NoState
<1>4. origin # NoState
  BY <1>1 DEF DealtUpTo
<1>5. /\ ReadConfirmed' /\ RangeNotEmpty' /\ SavesDealt'
      /\ pc' = "loop" /\ current' = synced + 1 /\ batch' \in 1..VaultMaxBatchSize
      /\ end' \in -StepBack..MaxBlock /\ announced' \in 0..VaultMaxBatchSize
      /\ stuck' \in BOOLEAN /\ origin' \in 0..MaxBlock \cup {NoState}
      /\ UNCHANGED <<head, stopping, read>>
  BY <1>1, <1>3, <1>4, EnterLoopKeeps
<1>6. TypeOK'
  BY <1>1, <1>3, <1>5 DEF TypeOK
<1>7. current' - 1 = synced /\ origin' = origin
  BY <1>1, <1>3, <1>4, <1>5 DEF EnterLoop
<1>8. SyncedAfterOrigin' /\ SyncedBelowHead' /\ CurrentAboveDealt'
  BY <1>1, <1>5, <1>7 DEF SyncedAfterOrigin, SyncedBelowHead, CurrentAboveDealt, DealtUpTo, Dealt
<1> QED
  BY <1>5, <1>6, <1>8 DEF IInv

LEMMA AfreshKeepsIInv == IInv /\ StartAfresh => IInv'
<1> SUFFICES ASSUME IInv, StartAfresh PROVE IInv'
  OBVIOUS
<1> DEFINE from == IF head > Lookback THEN head - Lookback ELSE 0
<1>1. /\ TypeOK /\ ReadConfirmed /\ SyncedAfterOrigin /\ synced < head /\ EnterLoop(from)
      /\ synced' \in IF synced = NoState THEN {NoState, from - 1} ELSE {synced}
      /\ skipped' = IF origin = NoState THEN skipped
                    ELSE skipped \cup (origin..(from - 1) \ read)
  BY DEF IInv, StartAfresh, SyncedBelowHead
<1>2. /\ head \in 0..MaxBlock /\ synced \in NoState..MaxBlock
      /\ origin \in 0..MaxBlock \cup {NoState} /\ skipped \subseteq 0..MaxBlock
  BY <1>1 DEF TypeOK
<1>3. /\ from \in 0..MaxBlock /\ from \in -StepBack..MaxBlock /\ from - 1 < head
      /\ from - 1 \in NoState..MaxBlock /\ NoState < head /\ NoState \in NoState..MaxBlock
  BY <1>2, MonitorAssumption, NoStateIsBelow
<1> HIDE DEF from
<1>4. from >= 0
  BY <1>3, MonitorAssumption
<1>5. /\ ReadConfirmed' /\ RangeNotEmpty' /\ SavesDealt'
      /\ pc' = "loop" /\ current' = from /\ batch' \in 1..VaultMaxBatchSize
      /\ end' \in -StepBack..MaxBlock /\ announced' \in 0..VaultMaxBatchSize
      /\ stuck' \in BOOLEAN /\ origin' \in 0..MaxBlock \cup {NoState}
      /\ UNCHANGED <<head, stopping, read>>
  BY <1>1, <1>3, <1>4, EnterLoopKeeps
<1>6. synced' \in NoState..MaxBlock /\ synced' < head'
  BY <1>1, <1>2, <1>3, <1>5
<1>7. origin' # NoState /\ \A a \in origin'..(from - 1) : a \in read' \cup skipped'
  <2>1. CASE origin = NoState
    <3>1. origin' = from /\ from # NoState
      BY <1>1, <1>3, <2>1, NoStateIsBelow DEF EnterLoop
    <3>2. from..(from - 1) = {}
      BY <1>3
    <3> QED
      BY <3>1, <3>2
  <2>2. CASE origin # NoState
    BY <1>1, <1>5, <2>2 DEF EnterLoop
  <2> QED
    BY <2>1, <2>2
<1>8. synced' # NoState => \A a \in origin'..synced' : a \in read' \cup skipped'
  <2>1. CASE synced = NoState
    BY <1>1, <1>7, <2>1
  <2>2. CASE synced # NoState
    BY <1>1, <1>5, <2>2 DEF SyncedAfterOrigin, DealtUpTo, Dealt, EnterLoop
  <2> QED
    BY <2>1, <2>2
<1>9. skipped' \subseteq 0..MaxBlock
  <2>1. CASE origin = NoState
    BY <1>1, <1>2, <2>1
  <2>2. CASE origin # NoState
    <3>1. origin..(from - 1) \subseteq 0..MaxBlock
      BY <1>2, <1>3, <2>2, MonitorAssumption
    <3> QED
      BY <1>1, <1>2, <2>2, <3>1
  <2> QED
    BY <2>1, <2>2
<1>10. TypeOK'
  BY <1>1, <1>3, <1>5, <1>6, <1>9 DEF TypeOK
<1>11. SyncedAfterOrigin' /\ SyncedBelowHead' /\ CurrentAboveDealt'
  BY <1>5, <1>6, <1>7, <1>8 DEF SyncedAfterOrigin, SyncedBelowHead, CurrentAboveDealt, DealtUpTo, Dealt
<1> QED
  BY <1>5, <1>10, <1>11 DEF IInv

LEMMA StartKeepsIInv == IInv /\ Start => IInv'
<1>1. IInv /\ StartFails => IInv'
  BY DEF IInv, StartFails, Goto, loopVars, history, TypeOK, ReadConfirmed, SyncedAfterOrigin,
         SyncedBelowHead, CurrentAboveDealt, Running, RangeNotEmpty, SavesDealt, DealtUpTo, Dealt
<1> QED
  BY <1>1, ResumeKeepsIInv, AfreshKeepsIInv DEF Start

-----------------------------------------------------------------------------
(* The loop.                                                               *)

\* A step inside the loop that reads and saves nothing and does not move.
LEMMA StandingStill ==
  ASSUME IInv, Running, Running', UNCHANGED <<head, synced, current, history>>
  PROVE  SyncedAfterOrigin' /\ SyncedBelowHead' /\ CurrentAboveDealt'
BY DEF IInv, history, SyncedAfterOrigin, SyncedBelowHead, CurrentAboveDealt, Running, DealtUpTo, Dealt

LEMMA NextBatchKeepsIInv == IInv /\ NextBatch => IInv'
<1> SUFFICES ASSUME IInv, NextBatch PROVE IInv'
  OBVIOUS
<1>1. TypeOK /\ ReadConfirmed
  BY DEF IInv
<1>2. PICK size \in 1..VaultMaxBatchSize, last \in Int :
        /\ batch' = size
        /\ end' = last
        /\ current <= last
        /\ last + Confirmations < head
  BY <1>1, NextBatchRange
<1>3. last \in -StepBack..MaxBlock
  BY <1>1, <1>2, MonitorAssumption DEF TypeOK
<1>4. TypeOK'
  BY <1>1, <1>2, <1>3 DEF NextBatch, Goto, history, TypeOK
<1>5. ReadConfirmed' /\ RangeNotEmpty' /\ SavesDealt'
  BY <1>1, <1>2 DEF NextBatch, Goto, history, ReadConfirmed, RangeNotEmpty, SavesDealt
<1>6. SyncedAfterOrigin' /\ SyncedBelowHead' /\ CurrentAboveDealt'
  BY StandingStill DEF NextBatch, Goto, Running
<1> QED
  BY <1>4, <1>5, <1>6 DEF IInv

\* Going back leaves the loop above a part of what it has dealt with.
LEMMA GoBackKeepsIInv == IInv /\ GoBack => IInv'
<1> SUFFICES ASSUME IInv, GoBack PROVE IInv'
  OBVIOUS
<1> DEFINE back == Confirmed - StepBack
<1>1. /\ TypeOK /\ ReadConfirmed /\ DealtUpTo(current - 1) /\ current' = back
      /\ UNCHANGED <<head, synced, batch, end, stopping, announced, history, pc>>
      /\ pc = "loop" /\ stuck' = FALSE
  BY DEF IInv, GoBack, Goto, CurrentAboveDealt, Running
<1>2. back \in -StepBack..MaxBlock /\ back <= current
  BY <1>1, MonitorAssumption DEF TypeOK, GoBack, Confirmed
<1>3. current \in Int /\ origin \in Int
  BY <1>1, MonitorAssumption, NoStateIsBelow DEF TypeOK
<1> HIDE DEF back
<1>4. TypeOK'
  BY <1>1, <1>2 DEF history, TypeOK
<1>5. DealtUpTo(back - 1)
  BY <1>1, <1>2, <1>3 DEF DealtUpTo
<1>6. CurrentAboveDealt'
  BY <1>1, <1>5 DEF history, CurrentAboveDealt, DealtUpTo, Dealt
<1>7. /\ ReadConfirmed' /\ RangeNotEmpty' /\ SavesDealt'
      /\ SyncedAfterOrigin' /\ SyncedBelowHead'
  BY <1>1 DEF IInv, history, ReadConfirmed, RangeNotEmpty, SavesDealt, SyncedAfterOrigin,
              SyncedBelowHead, DealtUpTo, Dealt
<1> QED
  BY <1>4, <1>6, <1>7 DEF IInv

LEMMA FilterKeepsIInv == IInv /\ (FilterOk \/ FilterFails) => IInv'
<1> SUFFICES ASSUME IInv, FilterOk \/ FilterFails PROVE IInv'
  OBVIOUS
<1>1. TypeOK /\ ReadConfirmed /\ RangeNotEmpty
  BY DEF IInv
<1>2. /\ UNCHANGED <<head, synced, current, end, stuck, stopping, history>>
      /\ pc = "filter" /\ pc' \in {"process", "loop"}
  BY DEF FilterOk, FilterFails, Goto
<1>3. batch \in 1..VaultMaxBatchSize /\ VaultMaxBatchSize \in Nat /\ VaultMinBatchSize \in Nat \ {0}
  BY <1>1, MonitorAssumption DEF TypeOK
<1>4. batch > VaultMinBatchSize => batch \div 2 \in 1..VaultMaxBatchSize
  BY <1>3
<1>5. batch' \in 1..VaultMaxBatchSize /\ announced' \in 0..VaultMaxBatchSize
  <2>1. 0 \in 0..VaultMaxBatchSize /\ \A n \in 1..VaultMaxBatchSize : n \in 0..VaultMaxBatchSize
    BY <1>3
  <2>2. announced \in 0..VaultMaxBatchSize
    BY <1>1 DEF TypeOK
  <2> QED
    BY <1>3, <1>4, <2>1, <2>2 DEF FilterOk, FilterFails
<1>6. TypeOK'
  BY <1>1, <1>2, <1>5 DEF history, TypeOK
<1>7. ReadConfirmed' /\ RangeNotEmpty' /\ SavesDealt'
  BY <1>1, <1>2 DEF history, ReadConfirmed, RangeNotEmpty, SavesDealt
<1>8. SyncedAfterOrigin' /\ SyncedBelowHead' /\ CurrentAboveDealt'
  BY <1>2, StandingStill DEF Running
<1> QED
  BY <1>6, <1>7, <1>8 DEF IInv

\* The blocks of the range are read, or skipped if its first block is a name.
LEMMA ProcessKeepsIInv == IInv /\ Process => IInv'
<1> SUFFICES ASSUME IInv, Process PROVE IInv'
  OBVIOUS
<1>1. /\ TypeOK /\ ReadConfirmed /\ RangeNotEmpty /\ SyncedAfterOrigin /\ SyncedBelowHead
      /\ DealtUpTo(current - 1)
      /\ UNCHANGED <<head, synced, current, batch, end, stuck, announced, stopping, origin>>
      /\ pc = "process" /\ pc' = "save"
  BY DEF IInv, Process, Goto, loopVars, CurrentAboveDealt, Running
<1>2. /\ current \in -StepBack..MaxBlock /\ end \in -StepBack..MaxBlock /\ current <= end
      /\ origin \in Nat /\ end + Confirmations < head /\ head \in Nat
      /\ read \subseteq 0..MaxBlock /\ skipped \subseteq 0..MaxBlock
  BY <1>1, MonitorAssumption DEF TypeOK, RangeNotEmpty, ReadConfirmed, DealtUpTo
<1>3. /\ read \subseteq read' /\ skipped \subseteq skipped'
      /\ read' \subseteq 0..MaxBlock /\ skipped' \subseteq 0..MaxBlock
      /\ \A b \in 0..end : b >= current => b \in read' \cup skipped'
      /\ \A b \in read' : b \in read \/ b \in current..end
  <2>1. CASE current >= 0 /\ read' = read \cup current..end /\ skipped' = skipped
    <3>1. current..end \subseteq 0..MaxBlock
      BY <1>2, <2>1, MonitorAssumption
    <3>2. \A b \in 0..end : b >= current => b \in current..end
      BY <1>2, MonitorAssumption
    <3> QED
      BY <1>2, <2>1, <3>1, <3>2
  <2>2. CASE current < 0 /\ skipped' = skipped \cup (0..end \ read) /\ read' = read
    <3>1. 0..end \subseteq 0..MaxBlock
      BY <1>2, MonitorAssumption
    <3> QED
      BY <1>2, <2>2, <3>1
  <2> QED
    BY <2>1, <2>2 DEF Process
<1>4. TypeOK'
  BY <1>1, <1>3 DEF TypeOK
<1>5. ReadConfirmed' /\ RangeNotEmpty'
  <2>1. \A b \in current..end : b + Confirmations < head
    BY <1>2, MonitorAssumption
  <2>2. \A b \in read' : b + Confirmations < head
    BY <1>1, <1>3, <2>1 DEF ReadConfirmed
  <2> QED
    BY <1>1, <1>2, <2>2 DEF ReadConfirmed, RangeNotEmpty
<1>6. \A a \in origin..end : a \in read' \cup skipped'
  <2> TAKE a \in origin..end
  <2>1. a \in 0..end /\ (a >= current \/ a \in origin..(current - 1))
    BY <1>2, MonitorAssumption
  <2> QED
    BY <1>1, <1>3, <2>1 DEF DealtUpTo, Dealt
<1>7. SavesDealt'
  BY <1>1, <1>6 DEF SavesDealt, DealtUpTo, Dealt
<1>8. SyncedAfterOrigin' /\ SyncedBelowHead' /\ CurrentAboveDealt'
  BY <1>1, <1>3 DEF SyncedAfterOrigin, SyncedBelowHead, CurrentAboveDealt, DealtUpTo, Dealt
<1> QED
  BY <1>4, <1>5, <1>7, <1>8 DEF IInv

\* What is saved has been dealt with, and so the loop may go on above it.
LEMMA SaveKeepsIInv == IInv /\ Save => IInv'
<1> SUFFICES ASSUME IInv, Save PROVE IInv'
  OBVIOUS
<1>1. /\ TypeOK /\ ReadConfirmed /\ SyncedAfterOrigin /\ SyncedBelowHead /\ DealtUpTo(end)
      /\ end + Confirmations < head /\ current' = end + 1 /\ batch' = Grown(batch)
      /\ synced' \in {end, synced} /\ pc' = "loop"
      /\ UNCHANGED <<head, end, stuck, stopping, announced, history>>
  BY DEF IInv, Save, Goto, updateLastProcessedVaultBlock, SavesDealt, ReadConfirmed
<1>2. /\ head \in 0..MaxBlock /\ end \in -StepBack..MaxBlock /\ batch \in 1..VaultMaxBatchSize
      /\ synced \in NoState..MaxBlock
  BY <1>1 DEF TypeOK
<1>3. /\ end + 1 \in -StepBack..MaxBlock /\ (end + 1) - 1 = end
      /\ end \in NoState..MaxBlock /\ end < head
  BY <1>1, <1>2, MonitorAssumption DEF NoState
<1>4. Grown(batch) \in 1..VaultMaxBatchSize
  BY <1>2, GrownFits
<1>5. current' - 1 = end
  BY <1>1, <1>3
<1>6. TypeOK'
  BY <1>1, <1>2, <1>3, <1>4 DEF history, TypeOK
<1>7. SyncedAfterOrigin' /\ SyncedBelowHead' /\ CurrentAboveDealt'
  BY <1>1, <1>3, <1>5 DEF history, SyncedAfterOrigin, SyncedBelowHead, CurrentAboveDealt, DealtUpTo, Dealt
<1>8. ReadConfirmed' /\ RangeNotEmpty' /\ SavesDealt'
  BY <1>1 DEF history, ReadConfirmed, RangeNotEmpty, SavesDealt
<1> QED
  BY <1>6, <1>7, <1>8 DEF IInv

\* The chain, the clock, the stop channel and the process.
LEMMA SurroundingsKeepIInv ==
  IInv /\ (StopSeen \/ NewBlock \/ TwoMinutesPass \/ Stop \/ Restart \/ UNCHANGED vars) => IInv'
<1> SUFFICES ASSUME IInv, StopSeen \/ NewBlock \/ TwoMinutesPass \/ Stop \/ Restart \/ UNCHANGED vars
             PROVE  IInv'
  OBVIOUS
<1>1. /\ UNCHANGED <<synced, current, batch, end, announced, history>>
      /\ pc' = pc \/ pc' \in {"stopped", "down"}
      /\ stuck' \in {stuck, TRUE} /\ stopping' \in {stopping, TRUE, FALSE}
  BY DEF StopSeen, NewBlock, TwoMinutesPass, Stop, Restart, Goto, loopVars, vars, history
<1>2. head' = head \/ (head < MaxBlock /\ head' = head + 1)
  BY DEF StopSeen, NewBlock, TwoMinutesPass, Stop, Restart, vars
<1>3. TypeOK /\ ReadConfirmed /\ SyncedBelowHead /\ SavesDealt
  BY DEF IInv
<1>4. head \in 0..MaxBlock /\ synced \in Int /\ end \in Int /\ read \subseteq Int
      /\ Confirmations \in Nat
  BY <1>3, MonitorAssumption, NoStateIsBelow DEF TypeOK
<1>5. /\ head + 1 \in Int /\ (head < MaxBlock => head + 1 \in 0..MaxBlock)
      /\ \A b \in Int : b < head => b < head + 1
      /\ \A b \in Int : b + Confirmations < head => b + Confirmations < head + 1
  BY <1>4, MonitorAssumption
<1>6. TypeOK'
  BY <1>1, <1>2, <1>3, <1>5 DEF history, TypeOK
<1>7. ReadConfirmed' /\ SyncedBelowHead'
  <2>1. CASE head' = head
    BY <1>1, <1>3, <2>1 DEF history, ReadConfirmed, SyncedBelowHead
  <2>2. CASE head' = head + 1
    BY <1>1, <1>3, <1>4, <1>5, <2>2 DEF history, ReadConfirmed, SyncedBelowHead
  <2> QED
    BY <1>2, <2>1, <2>2
<1>8. SyncedAfterOrigin' /\ CurrentAboveDealt' /\ RangeNotEmpty' /\ SavesDealt'
  BY <1>1 DEF IInv, history, SyncedAfterOrigin, CurrentAboveDealt, Running, RangeNotEmpty,
              SavesDealt, DealtUpTo, Dealt
<1> QED
  BY <1>6, <1>7, <1>8 DEF IInv

LEMMA NextIInv == IInv /\ [Next]_vars => IInv'
BY StartKeepsIInv, NextBatchKeepsIInv, GoBackKeepsIInv, FilterKeepsIInv, ProcessKeepsIInv,
   SaveKeepsIInv, SurroundingsKeepIInv DEF Next

-----------------------------------------------------------------------------
(* What follows.                                                           *)

(***************************************************************************)
(* IInv is an invariant of the vault monitor.                              *)
(***************************************************************************)
THEOREM Inductive == Spec => []IInv
BY InitIInv, NextIInv, PTL DEF Spec

(***************************************************************************)
(* Block numbers and batch sizes stay in their ranges: a batch is never    *)
(* empty nor longer than VaultMaxBatchSize, and the loop never stands      *)
(* further below zero than one step back (sampleExample.go:2020-2058).     *)
(***************************************************************************)
THEOREM TypeCorrect == Spec => []TypeOK
<1>1. IInv => TypeOK
  BY DEF IInv
<1> QED
  BY <1>1, Inductive, PTL

(***************************************************************************)
(* Only blocks strictly below the newest confirmed one are read, whatever  *)
(* the batch sizes and failures were (sampleExample.go:2008-2058).         *)
(***************************************************************************)
THEOREM OnlyConfirmedIsRead == Spec => []ReadConfirmed
<1>1. IInv => ReadConfirmed
  BY DEF IInv
<1> QED
  BY <1>1, Inductive, PTL

(***************************************************************************)
(* The sync state never claims a block that was neither read nor jumped    *)
(* over by a start without sync state or a range below zero                *)
(* (sampleExample.go:2241-2261, 2285-2322).                                *)
(***************************************************************************)
THEOREM SyncStateClaimsNothingUnread == Spec => []NothingUnread
<1>1. IInv => NothingUnread
  <2> SUFFICES ASSUME IInv, origin # NoState PROVE \A b \in origin..synced : Dealt(b)
    BY DEF NothingUnread, Dealt
  <2>1. CASE synced # NoState
    BY <2>1 DEF IInv, SyncedAfterOrigin, DealtUpTo
  <2>2. CASE synced = NoState
    <3>1. origin \in Nat /\ NoState < origin
      BY MonitorAssumption, NoStateIsBelow DEF IInv, TypeOK
    <3>2. origin..NoState = {}
      BY <3>1, NoStateIsBelow
    <3> QED
      BY <2>2, <3>2
  <2> QED
    BY <2>1, <2>2
<1> QED
  BY <1>1, Inductive, PTL
=============================================================================

---------------------------- MODULE PollerProofs ----------------------------
(***************************************************************************)
(* Proofs about Poller, for every value of its constants: type             *)
(* correctness, the safety invariants, the monotonicity of the checkpoint, *)
(* and that the listener implements EventFeed.                             *)
(***************************************************************************)
EXTENDS Poller, ListenerProofs

-----------------------------------------------------------------------------
(* Types.                                                                  *)

LEMMA InitTypeOK == Init => TypeOK
<1> SUFFICES ASSUME Init
             PROVE  TypeOK
  OBVIOUS
<1>1. ChainTypeOK
  BY ChainAssumption DEF Init, ListenerInit, ChainInit, ChainTypeOK, NoBlock
<1>2. events \in Seq(Row)
  BY DEF Init, ListenerInit, StoreInit
<1>3. cursor \in Nat /\ to \in 0..MaxBlock
  BY ChainAssumption DEF Init, ListenerInit
<1>4. /\ checkpoint \in 0..MaxBlock \cup {NoRow}
      /\ lateRows \subseteq Row
      /\ lateMarks \subseteq 0..MaxBlock
  BY DEF Init, ListenerInit, StoreInit
<1> QED
  BY <1>1, <1>2, <1>3, <1>4 DEF Init, ListenerInit, TypeOK, ListenerTypeOK

LEMMA NextTypeOK == TypeOK /\ [Next]_vars => TypeOK'
<1> SUFFICES ASSUME TypeOK, [Next]_vars
             PROVE  TypeOK'
  OBVIOUS
<1> USE DEF TypeOK, ListenerTypeOK
<1>1. CASE Setup
  <2>1. Resume(checkpoint) \in Nat
    BY MinStartIsLeast DEF Resume, NoRow
  <2> QED
    BY <1>1, <2>1 DEF Setup, DialOk, Load, SetupFails, chainVars, storeVars, ChainTypeOK, Goto
<1>2. CASE PollHead
  <2>1. Safe \in 0..MaxBlock
    BY <1>2, ChainAssumption, ConfigAssumption DEF PollHead, Safe, ChainTypeOK
  <2>2. RangeEnd(cursor, Safe) \in cursor..Safe
    BY <1>2, <2>1, RangeEndInRange DEF PollHead
  <2>3. to' \in 0..MaxBlock /\ pc' = "filter"
    BY <1>2, <2>1, <2>2, ChainAssumption DEF PollHead
  <2> QED
    BY <1>2, <2>3 DEF PollHead, chainVars, storeVars, ChainTypeOK
<1>3. CASE FilterOk
  <2>1. LogsIn(cursor, to) \subseteq Row
    BY LogRowType DEF LogsIn
  <2> QED
    BY <1>3, <2>1 DEF FilterOk, chainVars, storeVars, ChainTypeOK
<1>4. CASE FilterFails
  BY <1>4 DEF FilterFails, chainVars, storeVars, ChainTypeOK, Goto
<1>5. CASE HandleNext
  <2> SUFFICES ASSUME NEW r \in pending, NextLog(r),
                      failed' \in {failed, failed \cup {r.log}},
                      cancelled' \in BOOLEAN,
                      UNCHANGED storeVars \/ SaveEvent(r) \/ AbandonEvent(r)
               PROVE  TypeOK'
    BY <1>5 DEF HandleNext, HandleReturnsNil, HandleReturnsError, Ignores, Stores, Fails, Abandons, AfterError
  <2>1. r \in Row /\ r.log \in Log
    BY DEF Row
  <2>2. events' \in Seq(Row) /\ lateRows' \subseteq Row /\ UNCHANGED <<checkpoint, lateMarks>>
    BY <2>1, InsertedRow DEF SaveEvent, AbandonEvent, storeVars
  <2> QED
    BY <2>1, <2>2 DEF NextLog, chainVars, ChainTypeOK
<1>6. CASE Mark("wait")
  <2>1. /\ checkpoint' \in 0..MaxBlock \cup {NoRow}
        /\ lateMarks' \subseteq 0..MaxBlock
        /\ UNCHANGED <<events, lateRows>>
        /\ cancelled' \in BOOLEAN
    BY <1>6, RaisedIsMax
    DEF Mark, MarkOk, MarkFails, MarkAbandons, SaveCheckpoint, AbandonCheckpoint, storeVars
  <2>2. EndRange("wait")
    BY <1>6 DEF Mark, MarkOk, MarkFails, MarkAbandons
  <2>3. cursor' \in Nat /\ pc' = "wait" /\ UNCHANGED <<chainVars, to, pending, failed>>
    BY <2>2, ChainAssumption DEF EndRange
  <2> QED
    BY <2>1, <2>3 DEF chainVars, ChainTypeOK
<1>7. CASE Done \/ Cancel
  BY <1>7 DEF Done, Cancel, chainVars, storeVars, ChainTypeOK, Goto
<1>8. CASE Restart \/ Crash
  <2>1. FreshProcess
    BY <1>8 DEF Restart, Crash
  <2>2. cursor' \in Nat /\ to' \in 0..MaxBlock /\ pending' \subseteq Row
    BY <2>1, ChainAssumption DEF FreshProcess
  <2> QED
    BY <2>1, <2>2 DEF FreshProcess, chainVars, storeVars, ChainTypeOK
<1>9. CASE ChainStep
  BY <1>9, ChainNextTypeOK DEF ChainStep, storeVars, procVars
<1>10. CASE SettleStep
  <2>1. CASE SettleEvent
    BY <1>10, <2>1, InsertedRow DEF SettleStep, SettleEvent, chainVars, procVars, ChainTypeOK
  <2>2. CASE SettleCheckpoint
    BY <1>10, <2>2, RaisedIsMax DEF SettleStep, SettleCheckpoint, chainVars, procVars, ChainTypeOK
  <2> QED
    BY <1>10, <2>1, <2>2 DEF SettleStep, Settle
<1>11. CASE UNCHANGED vars
  BY <1>11 DEF vars, listenerVars, chainVars, storeVars, procVars, ChainTypeOK
<1> QED
  BY <1>1, <1>2, <1>3, <1>4, <1>5, <1>6, <1>7, <1>8, <1>9, <1>10, <1>11 DEF Next

(***************************************************************************)
(* Type correctness: every reachable state holds blocks, rows and a cursor *)
(* of the right kind, and the range stays within the chain.                *)
(***************************************************************************)
THEOREM TypeCorrect == Spec => []TypeOK
BY InitTypeOK, NextTypeOK, PTL DEF Spec

-----------------------------------------------------------------------------
(* The inductive invariant holds at the start.                             *)

LEMMA InitIInv == Init => IInv
<1> SUFFICES ASSUME Init
             PROVE  IInv
  OBVIOUS
<1>1. TypeOK
  BY InitTypeOK
<1>2. DOMAIN events = {}
  BY DEF Init, ListenerInit, StoreInit
<1>3. RangeDeep /\ CursorCovered /\ RangeCovered
  BY DEF Init, ListenerInit, RangeDeep, CursorCovered, RangeCovered
<1>4. RowsFinal /\ NoDuplicateRows
  BY <1>2 DEF Init, ListenerInit, StoreInit, RowsFinal, NoDuplicateRows
<1>5. MarksCovered
  BY DEF Init, ListenerInit, ChainInit, ListenerInit, StoreInit, MarksCovered, CheckpointConfirmed, Covered, Accepted, Mined
<1> QED
  BY <1>1, <1>3, <1>4, <1>5 DEF IInv

-----------------------------------------------------------------------------
(* What is covered stays covered while the chain stands still.             *)

LEMMA CoveredStays ==
  ASSUME UNCHANGED chainVars, Recorded \subseteq Recorded', failed \subseteq failed',
         NEW b, Covered(b)
  PROVE  \A l \in Accepted :
           (Mined(l)' /\ blockOf'[l] \in MinStart..b) => l \in Recorded' \cup failed'
BY DEF chainVars, Covered, Mined

LEMMA MarksCoveredStays ==
  ASSUME MarksCovered, UNCHANGED <<chainVars, checkpoint>>, lateMarks' \subseteq lateMarks,
         Recorded \subseteq Recorded', failed \subseteq failed'
  PROVE  MarksCovered'
<1>1. CheckpointConfirmed'
  BY DEF MarksCovered, CheckpointConfirmed, chainVars
<1>2. Covered(checkpoint)'
  BY CoveredStays DEF MarksCovered, Covered
<1>3. \A b \in lateMarks' : Deep(b)' /\ Covered(b)'
  <2> SUFFICES ASSUME NEW b \in lateMarks'
               PROVE  Deep(b)' /\ Covered(b)'
    OBVIOUS
  <2>1. Deep(b) /\ Covered(b)
    BY DEF MarksCovered
  <2>2. Deep(b)'
    BY <2>1 DEF Deep, chainVars
  <2>3. Covered(b)'
    BY <2>1, CoveredStays DEF Covered
  <2> QED
    BY <2>2, <2>3
<1> QED
  BY <1>1, <1>2, <1>3 DEF MarksCovered

\* An INSERT of a final row keeps the table duplicate-free and final.
LEMMA InsertedKeepsRows ==
  ASSUME events \in Seq(Row), NoDuplicateRows,
         \A i \in DOMAIN events : Final(events[i]),
         NEW r \in Row, Final(r), events' = Inserted(r), UNCHANGED chainVars
  PROVE  /\ NoDuplicateRows'
         /\ (\A i \in DOMAIN events : Final(events[i]))'
<1>1. \A s : Final(s) => Final(s)'
  BY DEF Final, LogRow, Deep, chainVars
<1>2. CASE events' = events
  <2>1. NoDuplicateRows'
    BY <1>2 DEF NoDuplicateRows
  <2>2. (\A i \in DOMAIN events : Final(events[i]))'
    BY <1>1, <1>2
  <2> QED
    BY <2>1, <2>2
<1>3. CASE r.log \notin Recorded /\ events' = Append(events, r)
  <2>1. /\ DOMAIN events' = DOMAIN events \cup {Len(events) + 1}
        /\ \A i \in DOMAIN events : events'[i] = events[i]
        /\ events'[Len(events) + 1] = r
    BY <1>3
  <2>2. \A i \in DOMAIN events : events[i].log # r.log
    BY <1>3 DEF Recorded
  <2>3. NoDuplicateRows'
    BY <2>1, <2>2 DEF NoDuplicateRows
  <2>4. (\A i \in DOMAIN events : Final(events[i]))'
    BY <1>1, <2>1
  <2> QED
    BY <2>3, <2>4
<1> QED
  BY <1>2, <1>3, InsertedRow

-----------------------------------------------------------------------------
(* Steps that change neither the chain nor the tables.                     *)

LEMMA TablesUnchanged ==
  ASSUME RowsFinal, NoDuplicateRows, MarksCovered,
         UNCHANGED <<chainVars, storeVars, failed>>,
         \A r \in pending' : Final(r)
  PROVE  RowsFinal' /\ NoDuplicateRows' /\ MarksCovered'
<1>1. MarksCovered'
  BY MarksCoveredStays DEF storeVars, Recorded
<1>2. NoDuplicateRows'
  BY DEF NoDuplicateRows, storeVars
<1>3. \A r : Final(r) => Final(r)'
  BY DEF Final, LogRow, Deep, chainVars
<1>4. RowsFinal'
  BY <1>3 DEF RowsFinal, storeVars
<1> QED
  BY <1>1, <1>2, <1>4

LEMMA SetupKeepsIInv ==
  ASSUME IInv, Setup, TypeOK'
  PROVE  IInv'
<1> USE DEF IInv
<1>1. /\ UNCHANGED <<chainVars, storeVars, failed, pending>>
      /\ pc' \in {"load", "wait", "stopped"}
  BY DEF Setup, DialOk, Load, SetupFails, Goto
<1>2. RowsFinal' /\ NoDuplicateRows' /\ MarksCovered'
  BY <1>1, TablesUnchanged DEF RowsFinal
<1>3. RangeDeep' /\ RangeCovered'
  BY <1>1 DEF RangeDeep, RangeCovered
<1>4. CASE pc' # "wait"
  BY <1>1, <1>2, <1>3, <1>4 DEF CursorCovered
<1>5. CASE Load("wait")
  <2>1. cursor' = MinStart \/ (cursor' = checkpoint + 1 /\ checkpoint # NoRow)
    BY <1>5 DEF Load, Resume
  <2>2. CASE cursor' = MinStart
    <3>1. Covered(cursor - 1)'
      BY <2>2, MinStartIsLeast DEF Covered
    <3> QED
      BY <1>2, <1>3, <2>2, <3>1 DEF CursorCovered
  <2>3. CASE cursor' = checkpoint + 1 /\ checkpoint # NoRow
    <3>1. cursor' - 1 = checkpoint
      BY <2>3, ChainAssumption DEF TypeOK, ListenerTypeOK
    <3>2. Covered(cursor - 1)'
      BY <1>1, <3>1 DEF MarksCovered, Covered, Recorded, Mined, chainVars, storeVars
    <3>3. Deep(cursor - 1)'
      BY <1>1, <2>3, <3>1 DEF MarksCovered, CheckpointConfirmed, Deep, chainVars
    <3> QED
      BY <1>2, <1>3, <3>2, <3>3 DEF CursorCovered
  <2> QED
    BY <2>1, <2>2, <2>3
<1> QED
  BY <1>1, <1>4, <1>5 DEF Setup, DialOk, SetupFails, Goto

LEMMA PollHeadKeepsIInv ==
  ASSUME IInv, PollHead, TypeOK'
  PROVE  IInv'
<1> USE DEF IInv
<1>1. /\ UNCHANGED <<chainVars, storeVars, failed, pending, cursor, cancelled>>
      /\ pc = "wait" /\ pc' = "filter"
  BY DEF PollHead
<1>2. RowsFinal' /\ NoDuplicateRows' /\ MarksCovered'
  BY <1>1, TablesUnchanged DEF RowsFinal
<1>3. RangeDeep'
  <2>1. /\ Safe \in 0..MaxBlock /\ cursor \in Nat /\ cursor <= Safe
        /\ head >= Confirmations
    BY ConfigAssumption, ChainAssumption DEF PollHead, Safe, TypeOK, ListenerTypeOK, ChainTypeOK
  <2>2. to' \in cursor..Safe
    BY <2>1, RangeEndInRange DEF PollHead
  <2>3. \A t \in cursor..Safe : cursor <= t /\ t + Confirmations <= head
    BY <2>1, ConfigAssumption, ChainAssumption DEF Safe, TypeOK, ListenerTypeOK, ChainTypeOK
  <2> QED
    BY <1>1, <2>2, <2>3 DEF RangeDeep, Deep, chainVars
<1>4. CursorCovered'
  BY <1>1 DEF CursorCovered, Covered, Recorded, Mined, Deep, chainVars, storeVars
<1>5. RangeCovered'
  BY <1>1 DEF RangeCovered
<1> QED
  BY <1>2, <1>3, <1>4, <1>5

LEMMA FilterKeepsIInv ==
  ASSUME IInv, FilterOk \/ FilterFails, TypeOK'
  PROVE  IInv'
<1> USE DEF IInv
<1>1. /\ UNCHANGED <<chainVars, storeVars, failed, cursor, to, cancelled>>
      /\ pc = "filter"
  BY DEF FilterOk, FilterFails, Goto
<1>2. CursorCovered'
  BY <1>1 DEF FilterOk, FilterFails, CursorCovered, Covered, Recorded, Mined, Deep, chainVars, storeVars, Goto
<1>3. RangeDeep'
  BY <1>1 DEF FilterOk, FilterFails, RangeDeep, Deep, chainVars, Goto
<1>4. RangeCovered'
  <2>1. CASE FilterOk
    <3> SUFFICES ASSUME NEW l \in Accepted, Mined(l), blockOf[l] \in cursor..to
                 PROVE  LogRow(l) \in LogsIn(cursor, to)
      BY <1>1, <2>1 DEF FilterOk, RangeCovered, Mined, LogRow, chainVars
    <3> QED
      BY DEF LogsIn, Accepted
  <2>2. CASE FilterFails
    BY <2>2 DEF FilterFails, RangeCovered, Goto
  <2> QED
    BY <2>1, <2>2
<1>5. \A r \in pending' : Final(r)
  <2>1. CASE FilterOk
    <3> SUFFICES ASSUME NEW l \in Log, Mined(l), blockOf[l] \in cursor..to
                 PROVE  Final(LogRow(l))
      BY <2>1 DEF FilterOk, LogsIn
    <3>1. blockOf[l] \in 0..MaxBlock /\ to \in 0..MaxBlock /\ cursor \in Nat /\ head \in 0..MaxBlock
      BY DEF TypeOK, ListenerTypeOK, ChainTypeOK
    <3>2. Deep(to)
      BY <1>1 DEF RangeDeep
    <3>3. Deep(blockOf[l])
      BY <3>1, <3>2, ChainAssumption, ConfigAssumption DEF Deep
    <3> QED
      BY <3>3 DEF Final, LogRow
  <2>2. CASE FilterFails
    BY <2>2 DEF FilterFails, RowsFinal, Goto
  <2> QED
    BY <2>1, <2>2
<1>6. RowsFinal' /\ NoDuplicateRows' /\ MarksCovered'
  BY <1>1, <1>5, TablesUnchanged
<1> QED
  BY <1>2, <1>3, <1>4, <1>6

LEMMA ProcessKeepsIInv ==
  ASSUME IInv, Done \/ Cancel \/ Restart \/ Crash, TypeOK'
  PROVE  IInv'
<1> USE DEF IInv
<1>1. CASE Done \/ Cancel
  <2>1. /\ UNCHANGED <<chainVars, storeVars, failed, pending, cursor, to>>
        /\ pc' = "stopped" \/ (pc' = pc /\ cancelled')
    BY <1>1 DEF Done, Cancel, Goto
  <2>2. RowsFinal' /\ NoDuplicateRows' /\ MarksCovered'
    BY <2>1, TablesUnchanged DEF RowsFinal
  <2>3. RangeDeep' /\ CursorCovered' /\ RangeCovered'
    BY <2>1 DEF RangeDeep, CursorCovered, RangeCovered, Deep, chainVars
  <2> QED
    BY <2>2, <2>3
<1>2. CASE Restart \/ Crash
  <2>1. FreshProcess
    BY <1>2 DEF Restart, Crash
  <2>2. RowsFinal' /\ NoDuplicateRows' /\ MarksCovered'
    BY <2>1, TablesUnchanged DEF FreshProcess
  <2>3. RangeDeep' /\ CursorCovered' /\ RangeCovered'
    BY <2>1 DEF FreshProcess, RangeDeep, CursorCovered, RangeCovered
  <2> QED
    BY <2>2, <2>3
<1> QED
  BY <1>1, <1>2

-----------------------------------------------------------------------------
(* Handling one log.                                                       *)

LEMMA HandleKeepsIInv ==
  ASSUME IInv, HandleNext, TypeOK'
  PROVE  IInv'
<1> USE DEF IInv
<1>1. PICK r \in pending :
        /\ NextLog(r)
        /\ \/ UNCHANGED storeVars
           \/ SaveEvent(r)
           \/ AbandonEvent(r) /\ r.log \in Accepted
        /\ failed' \in {failed, failed \cup {r.log}}
        /\ ~cancelled' => ~cancelled
        /\ ~cancelled' => \/ r.log \in Ignored
                          \/ SaveEvent(r)
                          \/ failed' = failed \cup {r.log}
  BY DEF HandleNext, HandleReturnsNil, HandleReturnsError, Ignores, Stores, Fails, Abandons, AfterError
<1>2. /\ r \in Row
      /\ Final(r)
      /\ UNCHANGED <<chainVars, pc, cursor, to>>
      /\ pc = "handle"
      /\ pending' = pending \ {r}
  BY <1>1 DEF NextLog, TypeOK, ListenerTypeOK, RowsFinal
<1>3. /\ events' = events \/ events' = Inserted(r)
      /\ SaveEvent(r) => events' = Inserted(r)
      /\ lateRows' \subseteq lateRows \cup {r}
      /\ lateRows' = lateRows \/ r.log \in Accepted
      /\ UNCHANGED <<checkpoint, lateMarks>>
  BY <1>1 DEF SaveEvent, AbandonEvent, storeVars
<1>4. /\ Recorded \subseteq Recorded'
      /\ failed \subseteq failed'
      /\ SaveEvent(r) => r.log \in Recorded'
  BY <1>1, <1>2, <1>3, InsertedRow DEF TypeOK, ListenerTypeOK, Recorded
<1>5. MarksCovered'
  BY <1>2, <1>3, <1>4, MarksCoveredStays
<1>6. NoDuplicateRows' /\ (\A i \in DOMAIN events : Final(events[i]))'
  <2>1. CASE events' = Inserted(r)
    BY <1>2, <2>1, InsertedKeepsRows DEF TypeOK, ListenerTypeOK, RowsFinal
  <2>2. CASE events' = events
    <3>1. \A s : Final(s) => Final(s)'
      BY <1>2 DEF Final, LogRow, Deep, chainVars
    <3>2. NoDuplicateRows'
      BY <2>2 DEF NoDuplicateRows
    <3> QED
      BY <2>2, <3>1, <3>2 DEF RowsFinal
  <2> QED
    BY <1>3, <2>1, <2>2
<1>7. RowsFinal'
  <2>1. \A s : Final(s) => Final(s)'
    BY <1>2 DEF Final, LogRow, Deep, chainVars
  <2>2. \A s \in pending' \cup lateRows' : Final(s)
    BY <1>2, <1>3 DEF RowsFinal
  <2>3. \A s \in lateRows' : s.log \in Accepted
    BY <1>3 DEF RowsFinal
  <2>4. (\A s \in pending \cup lateRows : Final(s))'
    BY <2>1, <2>2
  <2> QED
    BY <1>6, <2>3, <2>4 DEF RowsFinal, Accepted
<1>8. RangeDeep'
  BY <1>2 DEF RangeDeep, Deep, chainVars
<1>9. CursorCovered'
  <2> SUFFICES ASSUME ~cancelled'
               PROVE  (cursor = MinStart \/ Deep(cursor - 1))' /\ Covered(cursor - 1)'
    BY DEF CursorCovered
  <2>1. (cursor = MinStart \/ Deep(cursor - 1)) /\ Covered(cursor - 1)
    BY <1>1, <1>2 DEF CursorCovered
  <2>2. Covered(cursor - 1)'
    BY <1>2, <1>4, <2>1, CoveredStays DEF Covered
  <2> QED
    BY <1>2, <2>1, <2>2 DEF Deep, chainVars
<1>10. RangeCovered'
  <2> SUFFICES ASSUME ~cancelled', NEW l \in Accepted,
                      Mined(l)', blockOf'[l] \in cursor'..to'
               PROVE  l \in Recorded' \cup failed' \/ LogRow(l)' \in pending'
    BY <1>2 DEF RangeCovered
  <2>1. l \in Recorded \cup failed \/ LogRow(l) \in pending
    BY <1>1, <1>2 DEF RangeCovered, Mined, chainVars
  <2>2. LogRow(l)' = LogRow(l)
    BY <1>2 DEF LogRow, chainVars
  <2>3. CASE LogRow(l) = r
    <3>1. r.log = l
      BY <2>3 DEF LogRow
    <3>2. r.log \notin Ignored
      BY <3>1 DEF Accepted
    <3> QED
      BY <1>1, <1>4, <3>1, <3>2
  <2> QED
    BY <1>2, <1>4, <2>1, <2>2, <2>3
<1> QED
  BY <1>5, <1>6, <1>7, <1>8, <1>9, <1>10

-----------------------------------------------------------------------------
(* The end of a range.                                                     *)

LEMMA MarkKeepsIInv ==
  ASSUME IInv, Mark("wait"), TypeOK'
  PROVE  IInv'
<1> USE DEF IInv
<1>1. /\ UNCHANGED <<chainVars, events, lateRows, to, pending, failed>>
      /\ pc = "handle" /\ pending = {}
      /\ pc' = "wait" /\ cursor' = to + 1
      /\ ~cancelled' => ~cancelled
  BY DEF Mark, MarkOk, MarkFails, MarkAbandons, EndRange, SaveCheckpoint, AbandonCheckpoint, storeVars
<1>2. /\ UNCHANGED <<checkpoint, lateMarks>> \/ ~cancelled
      /\ checkpoint' \in {checkpoint, Raised(to)}
      /\ lateMarks' \subseteq lateMarks \cup {to}
  BY DEF Mark, MarkOk, MarkFails, MarkAbandons, SaveCheckpoint, AbandonCheckpoint, storeVars
<1>3. Deep(to) /\ cursor <= to /\ cursor \in Nat /\ to \in 0..MaxBlock
  BY <1>1 DEF RangeDeep, TypeOK, ListenerTypeOK
<1>4. ~cancelled => Covered(to)
  <2> SUFFICES ASSUME ~cancelled, NEW l \in Accepted, Mined(l), blockOf[l] \in MinStart..to
               PROVE  l \in Recorded \cup failed
    BY DEF Covered
  <2>1. CASE blockOf[l] \in MinStart..(cursor - 1)
    BY <1>1, <2>1 DEF CursorCovered, Covered
  <2>2. CASE blockOf[l] \in cursor..to
    BY <1>1, <2>2 DEF RangeCovered
  <2>3. blockOf[l] \in Int /\ MinStart \in Nat
    BY MinStartIsLeast DEF TypeOK, ListenerTypeOK, ChainTypeOK, Accepted
  <2> QED
    BY <1>3, <2>1, <2>2, <2>3, ChainAssumption
<1>5. \A b : /\ Covered(b) => Covered(b)'
             /\ Deep(b) => Deep(b)'
  BY <1>1 DEF Covered, Deep, Recorded, Mined, chainVars
<1>6. MarksCovered'
  <2>1. checkpoint' \in {checkpoint, to}
    BY <1>2, <1>3, RaisedIsMax DEF TypeOK, ListenerTypeOK
  <2>2. \A b \in lateMarks' : Deep(b) /\ Covered(b)
    BY <1>2, <1>3, <1>4 DEF MarksCovered
  <2>3. /\ Covered(checkpoint')
        /\ Deep(checkpoint') \/ checkpoint' = NoRow
    BY <1>2, <1>3, <1>4, <2>1 DEF MarksCovered, CheckpointConfirmed, Deep
  <2>4. CheckpointConfirmed'
    BY <1>1, <2>3 DEF CheckpointConfirmed, Deep, chainVars
  <2>5. Covered(checkpoint)'
    BY <1>1, <2>3 DEF Covered, Recorded, Mined, chainVars
  <2> QED
    BY <1>5, <2>2, <2>4, <2>5 DEF MarksCovered
<1>7. CursorCovered'
  <2>1. cursor' - 1 = to
    BY <1>1, <1>3, ChainAssumption
  <2>2. Deep(cursor - 1)'
    BY <1>1, <1>3, <2>1 DEF Deep, chainVars
  <2>3. ~cancelled' => Covered(cursor - 1)'
    BY <1>1, <1>4, <2>1 DEF Covered, Recorded, Mined, chainVars
  <2> QED
    BY <2>2, <2>3 DEF CursorCovered
<1>8. RangeDeep' /\ RangeCovered'
  BY <1>1 DEF RangeDeep, RangeCovered
<1>9. NoDuplicateRows' /\ RowsFinal'
  <2>1. \A s : Final(s) => Final(s)'
    BY <1>1 DEF Final, LogRow, Deep, chainVars
  <2> QED
    BY <1>1, <2>1 DEF NoDuplicateRows, RowsFinal
<1> QED
  BY <1>6, <1>7, <1>8, <1>9

-----------------------------------------------------------------------------
(* The chain moves on.                                                     *)

\* No block that is deep changes, and no log moves into one.
LEMMA DeepBlocksAreFinal ==
  ASSUME ChainTypeOK, ChainNext
  PROVE  /\ \A b : Deep(b) /\ b \in Int => Deep(b)'
         /\ \A l \in Log : /\ Mined(l) /\ Deep(blockOf[l]) => blockOf'[l] = blockOf[l]
                           /\ Mined(l)' /\ blockOf'[l] + Confirmations <= head
                                => blockOf'[l] = blockOf[l]
<1> USE ChainAssumption, ConfigAssumption, FinalityAssumption
<1>1. CASE Mine
  BY <1>1 DEF Mine, ChainTypeOK, Deep, Mined, NoBlock
<1>2. CASE Reorg
  <2>1. PICK depth \in 1..MaxReorg :
          /\ depth <= head
          /\ blockOf' \in [Log -> 0..MaxBlock]
          /\ \A l \in Log : blockOf'[l] \in Rearranged(head - depth)[l]
    BY <1>2 DEF Reorg
  <2>2. \A b : Deep(b) => Deep(b)'
    BY <1>2 DEF Reorg, Deep
  <2>3. ASSUME NEW l \in Log
        PROVE  /\ Mined(l) /\ Deep(blockOf[l]) => blockOf'[l] = blockOf[l]
               /\ Mined(l)' /\ blockOf'[l] + Confirmations <= head => blockOf'[l] = blockOf[l]
    <3>1. CASE Mined(l) /\ blockOf[l] <= head - depth
      BY <2>1, <3>1 DEF Rearranged
    <3>2. CASE ~(Mined(l) /\ blockOf[l] <= head - depth)
      <4>1. blockOf'[l] \in {NoBlock} \cup (head - depth + 1)..head
        BY <2>1, <3>2 DEF Rearranged
      <4> QED
        BY <2>1, <3>2, <4>1 DEF ChainTypeOK, Deep, Mined, NoBlock
    <3> QED
      BY <3>1, <3>2
  <2> QED
    BY <2>2, <2>3
<1> QED
  BY <1>1, <1>2 DEF ChainNext

LEMMA ChainKeepsIInv ==
  ASSUME IInv, ChainNext, UNCHANGED <<storeVars, procVars, failed>>, TypeOK'
  PROVE  IInv'
<1> USE DEF IInv
<1>0. /\ UNCHANGED <<events, checkpoint, lateRows, lateMarks, pc, cursor, to, pending, cancelled, failed>>
      /\ ChainTypeOK /\ ChainTypeOK'
  BY DEF TypeOK, ListenerTypeOK, storeVars, procVars
<1>1. \A b \in Int : Deep(b) => Deep(b)'
  BY <1>0, DeepBlocksAreFinal
<1>2. \A r \in Row : Final(r) => Final(r)'
  <2> SUFFICES ASSUME NEW r \in Row, Final(r)
               PROVE  Final(r)'
    OBVIOUS
  <2>1. r.log \in Log /\ r.block \in 1..MaxBlock /\ blockOf[r.log] = r.block
    BY DEF Row, Final, LogRow
  <2>2. blockOf'[r.log] = blockOf[r.log]
    BY <1>0, <2>1, DeepBlocksAreFinal DEF Final, Mined, NoBlock
  <2>3. Deep(r.block)'
    BY <1>1, <2>1, ChainAssumption DEF Final
  <2> QED
    BY <2>2, <2>3 DEF Final, LogRow
<1>3. ASSUME NEW b \in Int, Deep(b), NEW l \in Log, Mined(l)', blockOf'[l] <= b
      PROVE  Mined(l) /\ blockOf[l] = blockOf'[l]
  <2>1. blockOf'[l] + Confirmations <= head
    BY <1>0, <1>3, ChainAssumption, ConfigAssumption DEF Deep, ChainTypeOK
  <2> QED
    BY <1>0, <1>3, <2>1, DeepBlocksAreFinal DEF Mined
<1>4. \A b \in Int : Deep(b) /\ Covered(b) => Covered(b)'
  <2> SUFFICES ASSUME NEW b \in Int, Deep(b), Covered(b),
                      NEW l \in Accepted, Mined(l)', blockOf'[l] \in MinStart..b
               PROVE  l \in Recorded' \cup failed'
    BY DEF Covered
  <2>1. Mined(l) /\ blockOf[l] = blockOf'[l]
    BY <1>3, <1>0, MinStartIsLeast DEF Accepted, ChainTypeOK
  <2> QED
    BY <1>0, <2>1 DEF Covered, Recorded
<1>5. MarksCovered'
  <2>1. CASE checkpoint = NoRow
    BY <1>0, <1>1, <1>4, <2>1, MinStartIsLeast, ChainAssumption
    DEF MarksCovered, CheckpointConfirmed, Covered, NoRow, TypeOK, ListenerTypeOK
  <2>2. CASE checkpoint # NoRow
    <3>1. Deep(checkpoint) /\ checkpoint \in Int
      BY <2>2, ChainAssumption DEF MarksCovered, CheckpointConfirmed, Deep, TypeOK, ListenerTypeOK
    <3>2. Deep(checkpoint)'
      BY <1>0, <1>1, <3>1 DEF Deep
    <3>3. Covered(checkpoint)'
      BY <1>0, <1>4, <3>1 DEF MarksCovered, Covered
    <3>4. \A b \in lateMarks' : Deep(b)' /\ Covered(b)'
      BY <1>0, <1>1, <1>4, ChainAssumption DEF MarksCovered, TypeOK, ListenerTypeOK
    <3> QED
      BY <3>2, <3>3, <3>4 DEF MarksCovered, CheckpointConfirmed, Deep
  <2> QED
    BY <2>1, <2>2
<1>6. NoDuplicateRows' /\ RowsFinal'
  <2>1. \A i \in DOMAIN events : events[i] \in Row
    BY DEF TypeOK, ListenerTypeOK
  <2> QED
    BY <1>0, <1>2, <2>1 DEF NoDuplicateRows, RowsFinal, TypeOK, ListenerTypeOK
<1>7. RangeDeep'
  BY <1>0, <1>1, ChainAssumption DEF RangeDeep, Deep, TypeOK, ListenerTypeOK
<1>8. CursorCovered'
  <2> SUFFICES ASSUME pc' \in {"wait", "filter", "handle"}, ~cancelled'
               PROVE  (cursor = MinStart \/ Deep(cursor - 1))' /\ Covered(cursor - 1)'
    BY DEF CursorCovered
  <2>1. (cursor = MinStart \/ Deep(cursor - 1)) /\ Covered(cursor - 1) /\ cursor \in Nat
    BY <1>0 DEF CursorCovered, TypeOK, ListenerTypeOK
  <2>2. CASE cursor = MinStart
    BY <1>0, <2>2, MinStartIsLeast DEF Covered
  <2>3. CASE Deep(cursor - 1)
    <3>1. Deep(cursor - 1)'
      BY <1>0, <1>1, <2>1, <2>3 DEF Deep
    <3>2. Covered(cursor - 1)'
      BY <1>0, <1>4, <2>1, <2>3 DEF Covered
    <3> QED
      BY <3>1, <3>2
  <2> QED
    BY <2>1, <2>2, <2>3
<1>9. RangeCovered'
  <2> SUFFICES ASSUME pc' = "handle", ~cancelled', NEW l \in Accepted,
                      Mined(l)', blockOf'[l] \in cursor'..to'
               PROVE  l \in Recorded' \cup failed' \/ LogRow(l)' \in pending'
    BY DEF RangeCovered
  <2>1. Deep(to) /\ to \in Int /\ l \in Log /\ blockOf'[l] <= to
    BY <1>0, ChainAssumption DEF RangeDeep, TypeOK, ListenerTypeOK, Accepted, ChainTypeOK
  <2>2. Mined(l) /\ blockOf[l] = blockOf'[l]
    BY <1>3, <2>1
  <2>3. l \in Recorded \cup failed \/ LogRow(l) \in pending
    BY <1>0, <2>2 DEF RangeCovered
  <2> QED
    BY <1>0, <2>2, <2>3 DEF Recorded, LogRow
<1> QED
  BY <1>5, <1>6, <1>7, <1>8, <1>9

-----------------------------------------------------------------------------
(* An abandoned statement commits, or is dropped.                          *)

LEMMA SettleKeepsIInv ==
  ASSUME IInv, Settle, UNCHANGED <<chainVars, procVars, failed>>, TypeOK'
  PROVE  IInv'
<1> USE DEF IInv
<1>0. UNCHANGED <<chainVars, pc, cursor, to, pending, cancelled, failed>>
  BY DEF procVars
<1>1. \A s : Final(s) => Final(s)'
  BY <1>0 DEF Final, LogRow, Deep, chainVars
<1>2. /\ Recorded \subseteq Recorded'
      /\ NoDuplicateRows' /\ RowsFinal'
  <2>1. CASE SettleEvent
    <3>1. PICK r \in lateRows : lateRows' = lateRows \ {r} /\ events' \in {events, Inserted(r)}
      BY <2>1 DEF SettleEvent
    <3>2. r \in Row /\ Final(r)
      BY DEF TypeOK, ListenerTypeOK, RowsFinal
    <3>3. CASE events' = Inserted(r)
      <4>1. Recorded \subseteq Recorded'
        BY <3>2, <3>3, InsertedRow DEF TypeOK, ListenerTypeOK
      <4>2. NoDuplicateRows' /\ (\A i \in DOMAIN events : Final(events[i]))'
        BY <1>0, <3>2, <3>3, InsertedKeepsRows DEF TypeOK, ListenerTypeOK, RowsFinal
      <4> QED
        BY <1>0, <1>1, <3>1, <4>1, <4>2 DEF RowsFinal
    <3>4. CASE events' = events
      BY <1>0, <1>1, <3>1, <3>4 DEF RowsFinal, NoDuplicateRows, Recorded
    <3> QED
      BY <3>1, <3>3, <3>4
  <2>2. CASE SettleCheckpoint
    BY <1>0, <1>1, <2>2 DEF SettleCheckpoint, RowsFinal, NoDuplicateRows, Recorded
  <2> QED
    BY <2>1, <2>2 DEF Settle
<1>3. MarksCovered'
  <2>1. CASE SettleEvent
    <3>1. UNCHANGED <<checkpoint, lateMarks>>
      BY <2>1 DEF SettleEvent
    <3> QED
      BY <1>0, <1>2, <3>1, MarksCoveredStays
  <2>2. CASE SettleCheckpoint
    <3>1. PICK b \in lateMarks : lateMarks' = lateMarks \ {b} /\ checkpoint' \in {checkpoint, Raised(b)}
      BY <2>2 DEF SettleCheckpoint
    <3>2. checkpoint' \in {checkpoint, b}
      BY <3>1, RaisedIsMax DEF TypeOK, ListenerTypeOK
    <3>3. UNCHANGED events
      BY <2>2 DEF SettleCheckpoint
    <3>4. \A c : Covered(c) => Covered(c)'
      BY <1>0, <3>3 DEF Covered, Recorded, Mined, chainVars
    <3>5. Covered(checkpoint') /\ (Deep(checkpoint') \/ checkpoint' = NoRow)
      BY <3>2 DEF MarksCovered, CheckpointConfirmed, Deep
    <3>6. Covered(checkpoint)'
      BY <1>0, <3>3, <3>5 DEF Covered, Recorded, Mined, chainVars
    <3>7. CheckpointConfirmed'
      BY <1>0, <3>5 DEF CheckpointConfirmed, Deep, chainVars
    <3>8. \A c \in lateMarks' : Deep(c)' /\ Covered(c)'
      BY <1>0, <3>1, <3>4 DEF MarksCovered, Deep, chainVars
    <3> QED
      BY <3>6, <3>7, <3>8 DEF MarksCovered
  <2> QED
    BY <2>1, <2>2 DEF Settle
<1>4. RangeDeep'
  BY <1>0 DEF RangeDeep, Deep, chainVars
<1>5. CursorCovered'
  BY <1>0, <1>2 DEF CursorCovered, Deep, Covered, Mined, chainVars
<1>6. RangeCovered'
  BY <1>0, <1>2 DEF RangeCovered, Mined, LogRow, chainVars
<1> QED
  BY <1>2, <1>3, <1>4, <1>5, <1>6

LEMMA StutterKeepsIInv ==
  ASSUME IInv, UNCHANGED vars, TypeOK'
  PROVE  IInv'
<1> USE DEF IInv
<1>1. UNCHANGED <<chainVars, storeVars, pc, cursor, to, pending, cancelled, failed>>
  BY DEF vars, listenerVars, procVars
<1>2. RowsFinal' /\ NoDuplicateRows' /\ MarksCovered'
  BY <1>1, TablesUnchanged DEF RowsFinal
<1>3. RangeDeep' /\ CursorCovered'
  BY <1>1 DEF RangeDeep, CursorCovered, Deep, Covered, Recorded, Mined, chainVars, storeVars
<1>4. RangeCovered'
  BY <1>1 DEF RangeCovered, Recorded, Mined, LogRow, chainVars, storeVars
<1> QED
  BY <1>2, <1>3, <1>4

LEMMA NextIInv == IInv /\ [Next]_vars => IInv'
<1> SUFFICES ASSUME IInv, [Next]_vars
             PROVE  IInv'
  OBVIOUS
<1>0. TypeOK'
  BY NextTypeOK DEF IInv
<1>1. CASE Setup
  BY <1>0, <1>1, SetupKeepsIInv
<1>2. CASE PollHead
  BY <1>0, <1>2, PollHeadKeepsIInv
<1>3. CASE FilterOk \/ FilterFails
  BY <1>0, <1>3, FilterKeepsIInv
<1>4. CASE HandleNext
  BY <1>0, <1>4, HandleKeepsIInv
<1>5. CASE Mark("wait")
  BY <1>0, <1>5, MarkKeepsIInv
<1>6. CASE Done \/ Cancel \/ Restart \/ Crash
  BY <1>0, <1>6, ProcessKeepsIInv
<1>7. CASE ChainStep
  BY <1>0, <1>7, ChainKeepsIInv DEF ChainStep
<1>8. CASE SettleStep
  BY <1>0, <1>8, SettleKeepsIInv DEF SettleStep
<1>9. CASE UNCHANGED vars
  BY <1>0, <1>9, StutterKeepsIInv
<1> QED
  BY <1>1, <1>2, <1>3, <1>4, <1>5, <1>6, <1>7, <1>8, <1>9 DEF Next

(***************************************************************************)
(* The invariant behind every result below: what Run holds between two     *)
(* calls always agrees with the tables.                                    *)
(***************************************************************************)
THEOREM Inductive == Spec => []IInv
BY InitIInv, NextIInv, PTL DEF Spec

-----------------------------------------------------------------------------
(* Safety.                                                                 *)

(***************************************************************************)
(* No log at or below the checkpoint is ever missing: it is in the table   *)
(* or its error was logged, through crashes, shutdowns, failed calls,      *)
(* reorganisations and late statements.                                    *)
(***************************************************************************)
THEOREM NothingIsSkipped == Spec => []Coverage
<1>1. IInv => Coverage
  BY DEF IInv, MarksCovered, Coverage
<1> QED
  BY <1>1, Inductive, PTL

\* However often ranges are read again, a log has at most one row.
THEOREM StoredOnce == Spec => []NoDuplicateRows
<1>1. IInv => NoDuplicateRows
  BY DEF IInv
<1> QED
  BY <1>1, Inductive, PTL

\* No reorganisation the confirmations allow for falsifies a stored row.
THEOREM RowsStayTrue == Spec => []RowsCanonical
<1>1. IInv => RowsCanonical
  BY DEF IInv, RowsFinal, RowsCanonical, Final
<1> QED
  BY <1>1, Inductive, PTL

\* The checkpoint never enters the unconfirmed blocks.
THEOREM CheckpointStaysBehind == Spec => []CheckpointConfirmed
<1>1. IInv => CheckpointConfirmed
  BY DEF IInv, MarksCovered
<1> QED
  BY <1>1, Inductive, PTL

\* The checkpoint never goes back, not even when an old statement commits late.
THEOREM CheckpointNeverFalls == Spec => CheckpointMonotone
<1>1. IInv /\ [Next]_vars => [checkpoint' >= checkpoint]_checkpoint
  <2> SUFFICES ASSUME IInv, [Next]_vars
               PROVE  checkpoint' >= checkpoint
    OBVIOUS
  <2>1. checkpoint \in Int /\ \A b \in 0..MaxBlock : Raised(b) >= checkpoint
    BY RaisedIsMax, ChainAssumption DEF IInv, TypeOK, ListenerTypeOK, NoRow
  <2>2. \/ checkpoint' = checkpoint
        \/ MarkOk("wait")
        \/ SettleCheckpoint
    BY DEF Next, vars, listenerVars, chainVars, storeVars, Setup, DialOk, Load, SetupFails, PollHead, Goto,
           FilterOk, FilterFails, HandleNext, HandleReturnsNil, HandleReturnsError,
           Ignores, Stores, Fails, Abandons, SaveEvent, AbandonEvent, Mark, MarkFails, MarkAbandons,
           AbandonCheckpoint, Done, Cancel, Restart, Crash, FreshProcess, ChainStep, SettleStep,
           Settle, SettleEvent
  <2>3. CASE MarkOk("wait")
    BY <2>1, <2>3 DEF MarkOk, SaveCheckpoint, IInv, TypeOK, ListenerTypeOK
  <2>4. CASE SettleCheckpoint
    BY <2>1, <2>4 DEF SettleCheckpoint, IInv, TypeOK, ListenerTypeOK
  <2> QED
    BY <2>1, <2>2, <2>3, <2>4
<1> QED
  BY <1>1, Inductive, PTL DEF Spec, CheckpointMonotone

-----------------------------------------------------------------------------
(* Refinement: the listener implements EventFeed.                          *)

LEMMA FeedRecorded == Feed!RecordedLogs = Recorded
BY DEF Feed!RecordedLogs, Recorded

LEMMA FeedInit == Init => Feed!Init
<1> SUFFICES ASSUME Init
             PROVE  Feed!Init
  OBVIOUS
<1>1. head = 0 /\ \A l \in Log : ~Mined(l)
  BY DEF Init, ListenerInit, ChainInit, Mined
<1>2. FeedHorizon = 0
  BY <1>1, ConfigAssumption DEF FeedHorizon
<1>3. FeedSettled = [l \in Log |-> 0]
  BY <1>1 DEF FeedSettled, Confirmed
<1> QED
  BY <1>2, <1>3 DEF Feed!Init, Init, ListenerInit, StoreInit, NoRow

\* A chain step makes more logs final and changes none that was.
LEMMA ChainGrowsFeed ==
  ASSUME IInv, TypeOK', ChainNext, UNCHANGED <<storeVars, procVars, failed>>
  PROVE  Feed!Grow \/ UNCHANGED Feed!vars
<1> USE ChainAssumption, ConfigAssumption
<1>1. ChainTypeOK /\ ChainTypeOK' /\ UNCHANGED <<events, checkpoint, failed>>
  BY DEF IInv, TypeOK, ListenerTypeOK, storeVars
<1>2. ASSUME NEW l \in Log
      PROVE  \/ FeedSettled'[l] = FeedSettled[l]
             \/ /\ FeedSettled[l] = 0
                /\ FeedSettled'[l] \in (FeedHorizon + 1)..FeedHorizon'
  <2>1. /\ FeedSettled[l] = IF Confirmed(l) THEN blockOf[l] ELSE 0
        /\ FeedSettled'[l] = IF Confirmed(l)' THEN blockOf'[l] ELSE 0
    BY DEF FeedSettled
  <2>2. CASE Confirmed(l)
    <3>1. Mined(l) /\ Deep(blockOf[l])
      BY <2>2 DEF Confirmed, Deep
    <3>2. blockOf'[l] = blockOf[l] /\ Deep(blockOf[l])'
      BY <1>1, <3>1, DeepBlocksAreFinal DEF ChainTypeOK
    <3>3. blockOf'[l] + Confirmations <= head'
      BY <3>1, <1>1, DeepBlocksAreFinal, <3>2 DEF Deep, ChainTypeOK
    <3>4. Confirmed(l)'
      BY <3>1, <3>2, <3>3 DEF Confirmed, Mined
    <3> QED
      BY <2>1, <2>2, <3>2, <3>4
  <2>3. CASE ~Confirmed(l) /\ ~Confirmed(l)'
    BY <2>1, <2>3
  <2>4. CASE ~Confirmed(l) /\ Confirmed(l)'
    <3>1. Mined(l)' /\ blockOf'[l] + Confirmations <= head'
      BY <2>4 DEF Confirmed
    <3>2. ~(blockOf'[l] + Confirmations <= head)
      BY <1>1, <2>4, <3>1, DeepBlocksAreFinal DEF Confirmed, Mined
    <3>3. blockOf'[l] \in 1..MaxBlock /\ head \in 0..MaxBlock /\ head' \in 0..MaxBlock
      BY <1>1, <3>1 DEF ChainTypeOK, Mined, NoBlock
    <3>4. blockOf'[l] \in (FeedHorizon + 1)..FeedHorizon'
      BY <3>1, <3>2, <3>3 DEF FeedHorizon
    <3> QED
      BY <2>1, <2>4, <3>4
  <2> QED
    BY <2>2, <2>3, <2>4
<1>3. FeedHorizon' >= FeedHorizon /\ FeedHorizon \in Nat /\ FeedHorizon' \in Nat
  <2>1. head \in Nat /\ head' \in Nat /\ head' >= head
    BY <1>1 DEF ChainTypeOK, ChainNext, Mine, Reorg
  <2>2. ASSUME NEW h \in Nat
        PROVE  (IF h >= Confirmations THEN h - Confirmations ELSE 0) \in Nat
    OBVIOUS
  <2>3. ASSUME NEW h \in Nat, NEW g \in Nat, g >= h
        PROVE  (IF g >= Confirmations THEN g - Confirmations ELSE 0)
                 >= (IF h >= Confirmations THEN h - Confirmations ELSE 0)
    BY <2>3
  <2> QED
    BY <2>1, <2>2, <2>3 DEF FeedHorizon
<1>4. CASE FeedHorizon' > FeedHorizon
  BY <1>1, <1>2, <1>4 DEF Feed!Grow
<1>5. CASE FeedHorizon' = FeedHorizon
  <2>1. \A l \in Log : FeedSettled'[l] = FeedSettled[l]
    BY <1>2, <1>3, <1>5
  <2>2. FeedSettled' = FeedSettled
    BY <2>1 DEF FeedSettled
  <2> QED
    BY <1>1, <1>5, <2>2 DEF Feed!vars
<1> QED
  BY <1>3, <1>4, <1>5

\* While the chain stands still a log of a final row is settled at its block.
LEMMA FinalIsSettled ==
  ASSUME TypeOK, NEW r \in Row, Final(r)
  PROVE  r.log \in Log /\ FeedSettled[r.log] = r.block /\ r.block # 0
<1>1. r.log \in Log /\ r.block \in 1..MaxBlock /\ blockOf[r.log] = r.block
  BY DEF Row, Final, LogRow
<1>2. Confirmed(r.log)
  BY <1>1, ChainAssumption DEF Confirmed, Final, Deep, Mined, NoBlock
<1> QED
  BY <1>1, <1>2, ChainAssumption DEF FeedSettled

\* An INSERT that commits records a new final log, or changes nothing.
LEMMA InsertRecords ==
  ASSUME TypeOK, NEW r \in Row, Final(r), r.log \in Accepted,
         events' \in {events, Inserted(r)}, UNCHANGED <<chainVars, checkpoint, failed>>
  PROVE  Feed!Record \/ UNCHANGED Feed!vars
<1>1. UNCHANGED <<FeedHorizon, FeedSettled>>
  BY DEF FeedHorizon, FeedSettled, Confirmed, Mined, chainVars
<1>2. CASE events' = events
  BY <1>1, <1>2 DEF Feed!vars
<1>3. CASE r.log \notin Recorded /\ events' = Append(events, r)
  <2>1. r = [log |-> r.log, block |-> FeedSettled[r.log]] /\ FeedSettled[r.log] # 0
    BY FinalIsSettled DEF Row
  <2> QED
    BY <1>1, <1>3, <2>1, FeedRecorded DEF Feed!Record
<1> QED
  BY <1>2, <1>3, InsertedRow DEF TypeOK, ListenerTypeOK

\* A Handle that fails refuses a final log.
LEMMA FailureRefuses ==
  ASSUME TypeOK, NEW r \in Row, Final(r), r.log \in Accepted,
         failed' \in {failed, failed \cup {r.log}}, UNCHANGED <<chainVars, checkpoint, events>>
  PROVE  Feed!Refuse \/ UNCHANGED Feed!vars
<1>1. UNCHANGED <<FeedHorizon, FeedSettled>>
  BY DEF FeedHorizon, FeedSettled, Confirmed, Mined, chainVars
<1>2. FeedSettled[r.log] # 0
  BY FinalIsSettled
<1> QED
  BY <1>1, <1>2 DEF Feed!Refuse, Feed!vars

\* A checkpoint that is covered and deep advances the feed, or changes nothing.
LEMMA MarkAdvances ==
  ASSUME TypeOK, NEW b \in 0..MaxBlock, Deep(b), Covered(b),
         checkpoint' \in {checkpoint, Raised(b)}, UNCHANGED <<chainVars, failed, events>>
  PROVE  Feed!Advance \/ UNCHANGED Feed!vars
<1>1. UNCHANGED <<FeedHorizon, FeedSettled>>
  BY DEF FeedHorizon, FeedSettled, Confirmed, Mined, chainVars
<1>2. CASE checkpoint' = checkpoint
  BY <1>1, <1>2 DEF Feed!vars
<1>3. CASE checkpoint' = b /\ b > checkpoint
  <2>1. b <= FeedHorizon
    BY ChainAssumption, ConfigAssumption DEF Deep, FeedHorizon, TypeOK, ListenerTypeOK, ChainTypeOK
  <2>2. ASSUME NEW l \in Accepted, FeedSettled[l] \in MinStart..b, FeedSettled[l] # 0
        PROVE  l \in Recorded \cup failed
    <3>1. l \in Log /\ Confirmed(l) /\ FeedSettled[l] = blockOf[l]
      BY <2>2 DEF FeedSettled, Accepted
    <3> QED
      BY <2>2, <3>1 DEF Covered, Confirmed
  <2> QED
    BY <1>1, <1>3, <2>1, <2>2, FeedRecorded DEF Feed!Advance
<1>4. \/ checkpoint' = checkpoint
      \/ checkpoint' = b /\ b > checkpoint
  BY ChainAssumption DEF Raised, TypeOK, ListenerTypeOK, NoRow
<1> QED
  BY <1>2, <1>3, <1>4

LEMMA FeedStep == IInv /\ IInv' /\ [Next]_vars => [Feed!Next]_(Feed!vars)
<1> SUFFICES ASSUME IInv, IInv', [Next]_vars
             PROVE  Feed!Next \/ UNCHANGED Feed!vars
  OBVIOUS
<1> USE DEF IInv
<1>1. ASSUME UNCHANGED <<chainVars, events, checkpoint, failed>>
      PROVE  UNCHANGED Feed!vars
  BY <1>1 DEF Feed!vars, listenerVars, FeedHorizon, FeedSettled, Confirmed, Mined, chainVars
<1>2. CASE Setup \/ PollHead \/ FilterOk \/ FilterFails \/ Done \/ Cancel \/ Restart \/ Crash
  BY <1>1, <1>2 DEF Setup, DialOk, Load, SetupFails, PollHead, FilterOk, FilterFails, Goto,
                    Done, Cancel, Restart, Crash, FreshProcess, storeVars
<1>3. CASE UNCHANGED vars
  BY <1>1, <1>3 DEF vars, listenerVars, storeVars
<1>4. CASE ChainStep
  BY <1>4, ChainGrowsFeed DEF ChainStep, Feed!Next
<1>5. CASE HandleNext
  <2>1. PICK r \in pending :
          /\ NextLog(r)
          /\ \/ UNCHANGED <<storeVars, failed>>
             \/ r.log \in Accepted /\ SaveEvent(r) /\ UNCHANGED failed
             \/ /\ r.log \in Accepted /\ failed' \in {failed, failed \cup {r.log}}
                /\ UNCHANGED <<events, checkpoint>>
    BY <1>5 DEF HandleNext, HandleReturnsNil, HandleReturnsError, Ignores, Stores, Fails, Abandons, AfterError,
                AbandonEvent, storeVars
  <2>2. r \in Row /\ Final(r) /\ UNCHANGED chainVars
    BY <2>1 DEF NextLog, TypeOK, ListenerTypeOK, RowsFinal
  <2>3. CASE UNCHANGED <<storeVars, failed>>
    BY <1>1, <2>2, <2>3 DEF storeVars
  <2>4. CASE r.log \in Accepted /\ SaveEvent(r) /\ UNCHANGED failed
    BY <2>2, <2>4, InsertRecords DEF SaveEvent, Feed!Next
  <2>5. CASE /\ r.log \in Accepted /\ failed' \in {failed, failed \cup {r.log}}
             /\ UNCHANGED <<events, checkpoint>>
    BY <2>2, <2>5, FailureRefuses DEF Feed!Next
  <2> QED
    BY <2>1, <2>3, <2>4, <2>5
<1>6. CASE Mark("wait")
  <2>1. /\ UNCHANGED <<chainVars, events, failed>>
        /\ checkpoint' = checkpoint \/ (MarkOk("wait") /\ checkpoint' = Raised(to))
    BY <1>6 DEF Mark, MarkOk, MarkFails, MarkAbandons, EndRange, SaveCheckpoint,
                AbandonCheckpoint, storeVars
  <2>2. CASE checkpoint' = checkpoint
    BY <1>1, <2>1, <2>2
  <2>3. CASE MarkOk("wait") /\ checkpoint' = Raised(to)
    <3>1. to \in 0..MaxBlock /\ cursor' - 1 = to /\ pc' = "wait" /\ ~cancelled'
      BY <2>3, ChainAssumption DEF MarkOk, EndRange, TypeOK, ListenerTypeOK
    <3>2. Deep(to)
      BY <2>3 DEF MarkOk, EndRange, RangeDeep
    <3>3. Covered(cursor - 1)'
      BY <3>1 DEF CursorCovered
    <3>4. Covered(to)
      BY <2>1, <3>1, <3>3 DEF Covered, Recorded, Mined, chainVars
    <3> QED
      BY <2>1, <2>3, <3>1, <3>2, <3>4, MarkAdvances DEF Feed!Next
  <2> QED
    BY <2>1, <2>2, <2>3
<1>7. CASE SettleStep
  <2>1. CASE SettleEvent
    <3>1. PICK r \in lateRows : events' \in {events, Inserted(r)} /\ UNCHANGED checkpoint
      BY <2>1 DEF SettleEvent
    <3>2. r \in Row /\ Final(r) /\ r.log \in Accepted
      BY DEF TypeOK, ListenerTypeOK, RowsFinal
    <3> QED
      BY <1>7, <3>1, <3>2, InsertRecords DEF SettleStep, Feed!Next
  <2>2. CASE SettleCheckpoint
    <3>1. PICK b \in lateMarks : checkpoint' \in {checkpoint, Raised(b)} /\ UNCHANGED events
      BY <2>2 DEF SettleCheckpoint
    <3>2. b \in 0..MaxBlock /\ Deep(b) /\ Covered(b)
      BY DEF TypeOK, ListenerTypeOK, MarksCovered
    <3> QED
      BY <1>7, <3>1, <3>2, MarkAdvances DEF SettleStep, Feed!Next
  <2> QED
    BY <1>7, <2>1, <2>2 DEF SettleStep, Settle
<1> QED
  BY <1>2, <1>3, <1>4, <1>5, <1>6, <1>7 DEF Next

(***************************************************************************)
(* The listener, its process, its database and its chain implement the     *)
(* feed: seen from the events table and the checkpoint, a crash, a second  *)
(* read of a range or a late statement does not exist.                     *)
(***************************************************************************)
THEOREM FeedImplemented == Spec => ImplementsFeed
BY FeedInit, FeedStep, Inductive, PTL DEF Spec, Feed!Spec, ImplementsFeed
=============================================================================

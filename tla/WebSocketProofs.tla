--------------------------- MODULE WebSocketProofs ---------------------------
(***************************************************************************)
(* Proofs about WebSocket, for every value of its constants: the types,    *)
(* the account of every log that can be lost, and what a disconnection can *)
(* tear out of the chain.                                                  *)
(***************************************************************************)
EXTENDS WebSocket, ListenerProofs, FiniteSetTheorems, SequenceTheorems

-----------------------------------------------------------------------------
(* What the node pushes.                                                   *)

\* A list that has each element of a set once.
LEMMA OrdersOf ==
  ASSUME NEW S \in SUBSET Row, IsFiniteSet(S), NEW s \in Orders(S)
  PROVE  /\ s \in Seq(Row)
         /\ DOMAIN s = 1..Len(s)
         /\ \A i \in DOMAIN s : s[i] \in S
         /\ \A r \in S : \E i \in DOMAIN s : s[i] = r
         /\ \A i, j \in DOMAIN s : s[i] = s[j] => i = j
<1> DEFINE n == Cardinality(S)
<1>1. n \in Nat
  BY FS_CardinalityType
<1>2. s \in [1..n -> S] /\ \A r \in S : \E i \in DOMAIN s : s[i] = r
  BY DEF Orders
<1>3. s \in Seq(Row) /\ DOMAIN s = 1..Len(s) /\ DOMAIN s = 1..n
  BY <1>1, <1>2
<1>4. s \in Surjection(1..n, S)
  BY <1>2, <1>3 DEF Surjection
<1>5. IsFiniteSet(1..n) /\ Cardinality(1..n) = n
  BY <1>1, FS_Interval
<1>6. s \in Injection(1..n, S)
  BY <1>4, <1>5, FS_Surjection
<1> QED
  BY <1>2, <1>3, <1>6 DEF Injection, IsInjective

\* The rows of some logs are as finite as the chain's logs.
LEMMA RowsFinite ==
  ASSUME NEW D \in SUBSET Log, NEW b \in [Log -> 0..MaxBlock]
  PROVE  IsFiniteSet({[log |-> l, block |-> b[l]] : l \in D})
<1> DEFINE T == {[log |-> l, block |-> b[l]] : l \in D}
           f == [l \in D |-> [log |-> l, block |-> b[l]]]
<1>1. IsFiniteSet(D)
  BY LogAssumption, FS_Subset
<1>2. f \in Surjection(D, T)
  BY DEF Surjection
<1> QED
  BY <1>1, <1>2, FS_Surjection

\* A push is what was removed, and then what was added in the order of the chain.
LEMMA PushedParts ==
  ASSUME ChainTypeOK, ChainTypeOK', NEW s \in Pushed
  PROVE  /\ s \in Seq(Row)
         /\ \E r, a \in Seq(Row) :
              /\ s = r \o a
              /\ \A i \in DOMAIN r : r[i] \in Removed
              /\ \A i \in DOMAIN a : a[i] \in Added
              /\ \A x \in Added : \E i \in DOMAIN a : a[i] = x
              /\ \A i, j \in DOMAIN a : a[i] = a[j] => i = j
              /\ \A i, j \in DOMAIN a : i < j => a[i].block <= a[j].block
<1>1. Removed \subseteq Row /\ Added \subseteq Row
  BY ChainAssumption DEF Removed, Added, Changed, LogRow, Mined, Row, ChainTypeOK, NoBlock
<1>2. IsFiniteSet(Removed)
  <2>1. blockOf \in [Log -> 0..MaxBlock]
    BY DEF ChainTypeOK
  <2> QED
    BY <2>1, RowsFinite DEF Removed, Changed, LogRow
<1>3. IsFiniteSet(Added)
  <2>1. blockOf' \in [Log -> 0..MaxBlock]
    BY DEF ChainTypeOK
  <2> QED
    BY <2>1, RowsFinite DEF Added, Changed, LogRow
<1>4. PICK r \in Orders(Removed), a \in Orders(Added) :
        /\ s = r \o a
        /\ \A i, j \in DOMAIN a : i < j => a[i].block <= a[j].block
  BY DEF Pushed
<1>5. /\ r \in Seq(Row)
      /\ \A i \in DOMAIN r : r[i] \in Removed
  BY <1>1, <1>2, OrdersOf
<1>6. /\ a \in Seq(Row)
      /\ \A i \in DOMAIN a : a[i] \in Added
      /\ \A x \in Added : \E i \in DOMAIN a : a[i] = x
      /\ \A i, j \in DOMAIN a : a[i] = a[j] => i = j
  BY <1>1, <1>3, OrdersOf
<1>7. s \in Seq(Row)
  BY <1>4, <1>5, <1>6
<1> QED
  BY <1>4, <1>5, <1>6, <1>7

\* Mining brings logs of the new block, each once, and removes none.
LEMMA PushedByMining ==
  ASSUME ChainTypeOK, ChainTypeOK', Mine, NEW s \in Pushed
  PROVE  /\ \A i \in DOMAIN s : /\ s[i].log \in Log
                                /\ s[i] = [log |-> s[i].log, block |-> head']
                                /\ ~Mined(s[i].log) /\ blockOf'[s[i].log] = head'
         /\ \A i, j \in DOMAIN s : i < j => s[i].log # s[j].log
<1>1. PICK r, a \in Seq(Row) :
        /\ s = r \o a
        /\ \A i \in DOMAIN r : r[i] \in Removed
        /\ \A i \in DOMAIN a : a[i] \in Added
        /\ \A i, j \in DOMAIN a : a[i] = a[j] => i = j
  BY PushedParts
<1>2. \A l \in Changed : ~Mined(l) /\ blockOf'[l] = head'
  BY DEF Changed, Mine
<1>3. Removed = {}
  BY <1>2 DEF Removed
<1>4. r = << >>
  <2>1. r \in Seq(Row) /\ DOMAIN r = {}
    BY <1>1, <1>3
  <2> QED
    BY <2>1
<1>5. s = a
  BY <1>1, <1>4, ConcatEmptySeq
<1>6. \A x \in Added : /\ x.log \in Log
                       /\ x = [log |-> x.log, block |-> head']
                       /\ ~Mined(x.log) /\ blockOf'[x.log] = head'
  BY <1>2 DEF Added, LogRow, Changed
<1>7. \A i \in DOMAIN s : s[i] \in Added
  BY <1>1, <1>5
<1>8. \A i, j \in DOMAIN s : s[i] = s[j] => i = j
  BY <1>1, <1>5
<1>9. \A i, j \in DOMAIN s : s[i].log = s[j].log => s[i] = s[j]
  BY <1>6, <1>7
<1>10. DOMAIN s \subseteq Int
  BY <1>1, <1>5
<1> QED
  BY <1>6, <1>7, <1>8, <1>9, <1>10

\* Every log that came into a block is pushed.
LEMMA PushedAll ==
  ASSUME ChainTypeOK, ChainTypeOK', NEW s \in Pushed,
         NEW l \in Log, blockOf'[l] # blockOf[l], blockOf'[l] # NoBlock
  PROVE  \E i \in DOMAIN s : s[i].log = l
<1>1. PICK r, a \in Seq(Row) :
        /\ s = r \o a
        /\ \A i \in DOMAIN r : r[i] \in Removed
        /\ \A i \in DOMAIN a : a[i] \in Added
        /\ \A x \in Added : \E i \in DOMAIN a : a[i] = x
        /\ \A i, j \in DOMAIN a : a[i] = a[j] => i = j
        /\ \A i, j \in DOMAIN a : i < j => a[i].block <= a[j].block
  BY PushedParts
<1>2. LogRow(l)' \in Added
  <2>1. l \in Changed /\ Mined(l)'
    BY DEF Changed, Mined
  <2> QED
    BY <2>1 DEF Added
<1>3. PICK i \in DOMAIN a : a[i] = LogRow(l)'
  BY <1>1, <1>2
<1>4. /\ Len(r) + i \in DOMAIN s
      /\ s[Len(r) + i] = a[i]
  BY <1>1
<1> QED
  BY <1>3, <1>4 DEF LogRow

\* Nothing above the head is pushed.
LEMMA PushedBelowHead ==
  ASSUME ChainTypeOK, ChainTypeOK', NEW s \in Pushed, head <= head'
  PROVE  \A i \in DOMAIN s : s[i] \in Row /\ s[i].block <= head'
<1>1. PICK r, a \in Seq(Row) :
        /\ s = r \o a
        /\ \A i \in DOMAIN r : r[i] \in Removed
        /\ \A i \in DOMAIN a : a[i] \in Added
  BY PushedParts
<1>2. \A x \in Removed \cup Added : x.block <= head'
  BY DEF Removed, Added, Changed, LogRow, ChainTypeOK
<1>3. \A i \in DOMAIN s : s[i] \in Removed \cup Added
  <2> TAKE i \in DOMAIN s
  <2>1. CASE i <= Len(r)
    BY <1>1, <2>1
  <2>2. CASE i > Len(r)
    <3>1. s[i] = a[i - Len(r)] /\ i - Len(r) \in DOMAIN a
      BY <1>1, <2>2
    <3> QED
      BY <1>1, <3>1
  <2>3. i \in Int /\ Len(r) \in Int
    BY <1>1
  <2> QED
    BY <2>1, <2>2, <2>3
<1>4. s \in Seq(Row)
  BY PushedParts
<1> QED
  BY <1>2, <1>3, <1>4

-----------------------------------------------------------------------------
(* Types.                                                                  *)

LEMMA InitTypeOK == Init => TypeOK
<1> SUFFICES ASSUME Init
             PROVE  TypeOK
  OBVIOUS
<1>1. ChainTypeOK
  BY ChainAssumption DEF Init, ListenerInit, ChainInit, ChainTypeOK, NoBlock
<1>2. events \in Seq(Row) /\ queue \in Seq(Row)
  BY DEF Init, ListenerInit, StoreInit
<1>3. cursor \in Nat /\ to \in 0..MaxBlock /\ last \in 0..MaxBlock /\ reorgs \in 0..MaxReorgs
  BY ChainAssumption, ReorgAssumption DEF Init, ListenerInit
<1>4. /\ checkpoint \in 0..MaxBlock \cup {NoRow}
      /\ lateRows \subseteq Row
      /\ lateMarks \subseteq 0..MaxBlock
  BY DEF Init, ListenerInit, StoreInit
<1> QED
  BY <1>1, <1>2, <1>3, <1>4 DEF Init, ListenerInit, TypeOK, ListenerTypeOK

LEMMA QueuedAreLogs ==
  ASSUME queue \in Seq(Row)
  PROVE  QueuedLogs \subseteq Log
<1>1. \A i \in DOMAIN queue : queue[i] \in Row
  OBVIOUS
<1> QED
  BY <1>1 DEF QueuedLogs, Row

\* Taking the first row off the channel.
LEMMA TakeRow ==
  ASSUME queue \in Seq(Row), NEW r \in Row, Take(r)
  PROVE  /\ queue' \in Seq(Row)
         /\ DOMAIN queue = 1..Len(queue) /\ Len(queue) \in Nat \ {0}
         /\ DOMAIN queue' = 1..(Len(queue) - 1)
         /\ r = queue[1]
         /\ \A i \in DOMAIN queue' : i + 1 \in DOMAIN queue /\ queue'[i] = queue[i + 1]
         /\ QueuedLogs = QueuedLogs' \cup {r.log}
<1>1. /\ queue # << >> /\ r = Head(queue) /\ queue' = Tail(queue)
  BY DEF Take
<1>2. /\ queue' \in Seq(Row)
      /\ DOMAIN queue = 1..Len(queue) /\ Len(queue) \in Nat \ {0}
      /\ DOMAIN queue' = 1..(Len(queue) - 1)
      /\ r = queue[1]
  BY <1>1
<1>3. \A i \in DOMAIN queue' : i + 1 \in DOMAIN queue /\ queue'[i] = queue[i + 1]
  BY <1>1, <1>2
<1>4. QueuedLogs \subseteq QueuedLogs' \cup {r.log}
  <2> SUFFICES ASSUME NEW i \in DOMAIN queue, i # 1
               PROVE  queue[i].log \in QueuedLogs'
    BY <1>2 DEF QueuedLogs
  <2>1. i - 1 \in DOMAIN queue' /\ queue'[i - 1] = queue[i]
    BY <1>2, <1>3
  <2> QED
    BY <2>1 DEF QueuedLogs
<1>5. QueuedLogs' \cup {r.log} \subseteq QueuedLogs
  BY <1>2, <1>3 DEF QueuedLogs
<1> QED
  BY <1>2, <1>3, <1>4, <1>5

\* What a call of Handle leaves behind.
LEMMA HandleEffect ==
  ASSUME ListenerTypeOK, NEW r \in Row, HandleReturnsNil(r) \/ HandleReturnsError(r)
  PROVE  /\ events' \in Seq(Row) /\ lateRows' \subseteq Row
         /\ UNCHANGED <<checkpoint, lateMarks>>
         /\ cancelled' \in BOOLEAN /\ (cancelled => cancelled')
         /\ failed' \subseteq Log /\ failed \subseteq failed' /\ Recorded \subseteq Recorded'
         /\ r.log \in Accepted => (r.log \in Recorded' \cup failed' \/ cancelled')
         /\ HandleReturnsNil(r) => /\ r.log \in Recorded' \cup Ignored
                                   /\ UNCHANGED <<cancelled, failed>>
<1> USE DEF ListenerTypeOK
<1>0. r.log \in Log
  BY DEF Row
<1>1. CASE Ignores(r)
  BY <1>0, <1>1 DEF Ignores, storeVars, Recorded, Accepted
<1>2. CASE Stores(r)
  <2>1. events' = Inserted(r) /\ UNCHANGED <<checkpoint, lateRows, lateMarks, cancelled, failed>>
    BY <1>2 DEF Stores, SaveEvent
  <2>2. events' \in Seq(Row) /\ Recorded' = Recorded \cup {r.log}
    BY <2>1, InsertedRow
  <2> QED
    BY <2>1, <2>2
<1>3. CASE Fails(r) \/ Abandons(r)
  <2>1. /\ r.log \in Accepted
        /\ UNCHANGED <<events, checkpoint, lateMarks>>
        /\ lateRows' \in {lateRows, lateRows \cup {r}}
        /\ cancelled' \in BOOLEAN /\ (cancelled => cancelled')
        /\ failed' = IF cancelled' THEN failed ELSE failed \cup {r.log}
    BY <1>3 DEF Fails, Abandons, AbandonEvent, AfterError, storeVars
  <2>2. Recorded' = Recorded
    BY <2>1 DEF Recorded
  <2>3. HandleReturnsNil(r) => r.log \in Recorded' \cup Ignored /\ UNCHANGED <<cancelled, failed>>
    <3>1. SUFFICES ASSUME HandleReturnsNil(r)
                   PROVE  r.log \in Recorded' \cup Ignored /\ UNCHANGED <<cancelled, failed>>
      OBVIOUS
    <3>2. CASE Ignores(r)
      BY <3>2 DEF Ignores
    <3>3. CASE Stores(r)
      BY <3>3, InsertedRow DEF Stores, SaveEvent
    <3> QED
      BY <3>1, <3>2, <3>3 DEF HandleReturnsNil
  <2> QED
    BY <1>0, <2>1, <2>2, <2>3
<1> QED
  BY <1>1, <1>2, <1>3 DEF HandleReturnsNil, HandleReturnsError

LEMMA ChainKeepsTypes ==
  ASSUME TypeOK, Situated, ChainGrows \/ ChainReorganises
  PROVE  TypeOK' /\ ChainTypeOK' /\ head <= head'
<1> USE DEF TypeOK, ListenerTypeOK
<1>1. ChainTypeOK' /\ head <= head'
  <2>1. ChainNext
    BY DEF ChainGrows, ChainReorganises, ChainNext
  <2>2. head <= head'
    BY <2>1 DEF ChainNext, Mine, Reorg, ChainTypeOK
  <2> QED
    BY <2>1, <2>2, ChainNextTypeOK
<1>2. queue' \in Seq(Row)
  <2>1. Notify
    BY DEF ChainGrows, ChainReorganises
  <2>2. CASE queue' = queue
    BY <2>2
  <2>3. ASSUME NEW s \in Pushed, queue' = queue \o s
        PROVE  queue' \in Seq(Row)
    BY <1>1, <2>3, PushedParts
  <2> QED
    BY <2>1, <2>2, <2>3 DEF Notify
<1>3. /\ UNCHANGED <<storeVars, procVars, failed, last, connected, window, torn>>
      /\ moved' \subseteq Log
      /\ reorgs' \in 0..MaxReorgs
  BY ReorgAssumption DEF ChainGrows, ChainReorganises, Changed
<1>4. /\ checkpoint' \in 0..MaxBlock \cup {NoRow} /\ events' \in Seq(Row)
      /\ lateRows' \subseteq Row /\ lateMarks' \subseteq 0..MaxBlock
  BY <1>3 DEF storeVars
<1>5. cursor' \in Nat /\ to' \in 0..MaxBlock /\ pending' \subseteq Row /\ cancelled' \in BOOLEAN
  BY <1>3 DEF procVars
<1> QED
  BY <1>1, <1>2, <1>3, <1>4, <1>5 DEF procVars

LEMMA NextTypeOK == TypeOK /\ Situated /\ [Next]_vars => TypeOK'
<1> SUFFICES ASSUME TypeOK, Situated, [Next]_vars
             PROVE  TypeOK'
  OBVIOUS
<1> USE DEF TypeOK, ListenerTypeOK
<1>1. CASE DialOk \/ SetupFails \/ RetryLater \/ CancelRun
  BY <1>1 DEF DialOk, SetupFails, RetryLater, CancelRun, Cancel, Goto, AfterRunOnce,
              chainVars, storeVars, socketVars, ChainTypeOK
<1>2. CASE LoadOk
  <2>1. Resume(checkpoint) \in Nat
    BY MinStartIsLeast DEF Resume, NoRow
  <2> QED
    BY <1>2, <2>1 DEF LoadOk, Load, chainVars, storeVars, socketVars, ChainTypeOK
<1>3. CASE HeadOk
  <2>1. NeedsBackfill => Safe \in 0..MaxBlock
    BY ChainAssumption, ConfigAssumption DEF NeedsBackfill, Safe, ChainTypeOK
  <2>2. last' \in 0..MaxBlock /\ pc' \in {"filter", "subscribe"}
    BY <1>3, <2>1 DEF HeadOk, Goto
  <2> QED
    BY <1>3, <2>2 DEF HeadOk, Goto, chainVars, storeVars, ChainTypeOK
<1>4. CASE SubscribeOk
  <2>1. << >> \in Seq(Row)
    OBVIOUS
  <2> QED
    BY <1>4, <2>1 DEF SubscribeOk, Goto, chainVars, storeVars, ChainTypeOK
<1>5. CASE FilterOk
  <2>1. RangeEnd(cursor, last) \in cursor..last
    BY <1>5, RangeEndInRange DEF FilterOk, Situated
  <2>2. to' \in 0..MaxBlock
    BY <1>5, <2>1, ChainAssumption DEF FilterOk
  <2>3. pending' \subseteq Row
    BY <1>5, LogRowType DEF FilterOk, LogsIn
  <2> QED
    BY <1>5, <2>2, <2>3 DEF FilterOk, chainVars, storeVars, socketVars, ChainTypeOK
<1>6. CASE HandleBackfilled
  <2>1. PICK r \in pending : NextLog(r) /\ (HandleReturnsNil(r) \/ HandleReturnsError(r))
    BY <1>6 DEF HandleBackfilled, HandleNext
  <2>2. r \in Row
    OBVIOUS
  <2>3. /\ events' \in Seq(Row) /\ lateRows' \subseteq Row /\ UNCHANGED <<checkpoint, lateMarks>>
        /\ cancelled' \in BOOLEAN /\ failed' \subseteq Log
    BY <2>1, <2>2, HandleEffect
  <2> QED
    BY <1>6, <2>1, <2>3 DEF HandleBackfilled, NextLog, chainVars, socketVars, ChainTypeOK
<1>7. CASE MarkBackfilled
  <2>1. PICK next \in {"filter", "subscribe"} : Mark(next)
    BY <1>7 DEF MarkBackfilled
  <2>2. /\ checkpoint' \in 0..MaxBlock \cup {NoRow}
        /\ lateMarks' \subseteq 0..MaxBlock
        /\ UNCHANGED <<events, lateRows>>
        /\ cancelled' \in BOOLEAN
    BY <2>1, RaisedIsMax
    DEF Mark, MarkOk, MarkFails, MarkAbandons, SaveCheckpoint, AbandonCheckpoint, storeVars
  <2>3. EndRange(next)
    BY <2>1 DEF Mark, MarkOk, MarkFails, MarkAbandons
  <2>4. cursor' \in Nat /\ pc' = next /\ UNCHANGED <<chainVars, to, pending, failed>>
    BY <2>3, ChainAssumption DEF EndRange
  <2> QED
    BY <1>7, <2>2, <2>4 DEF MarkBackfilled, chainVars, socketVars, ChainTypeOK
<1>8. CASE LiveHandled \/ LiveFailed
  <2>1. PICK r \in Row : Take(r) /\ (HandleReturnsNil(r) \/ HandleReturnsError(r))
    BY <1>8 DEF LiveHandled, LiveFailed
  <2>2. /\ events' \in Seq(Row) /\ lateRows' \subseteq Row /\ UNCHANGED <<checkpoint, lateMarks>>
        /\ cancelled' \in BOOLEAN /\ failed' \subseteq Log
    BY <2>1, HandleEffect
  <2>3. queue' \in Seq(Row)
    BY <2>1, TakeRow
  <2>4. to' \in 0..MaxBlock /\ pc' \in {"live", "mark"} /\ torn' \subseteq Log
    BY <1>8, ChainAssumption DEF LiveHandled, LiveFailed, Take, Row
  <2> QED
    BY <2>1, <2>2, <2>3, <2>4 DEF Take, chainVars, ChainTypeOK
<1>9. CASE LiveMarked
  <2>1. /\ checkpoint' \in 0..MaxBlock \cup {NoRow}
        /\ lateMarks' \subseteq 0..MaxBlock
        /\ UNCHANGED <<events, lateRows>>
        /\ cancelled' \in BOOLEAN
    BY <1>9, RaisedIsMax DEF LiveMarked, SaveCheckpoint, AbandonCheckpoint, storeVars
  <2> QED
    BY <1>9, <2>1 DEF LiveMarked, chainVars, socketVars, ChainTypeOK
<1>10. CASE DropQueue /\ (LiveEnds \/ Done \/ Restart \/ Crash)
  <2>1. /\ queue' \in Seq(Row) /\ torn' \subseteq Log
        /\ UNCHANGED <<last, window, moved, reorgs>> /\ connected' \in BOOLEAN
    <3>1. QueuedLogs \subseteq Log
      BY QueuedAreLogs
    <3>2. << >> \in Seq(Row) /\ connected' = FALSE
      BY <1>10 DEF DropQueue
    <3> QED
      BY <1>10, <3>1, <3>2 DEF DropQueue
  <2>2. CASE LiveEnds \/ Done
    BY <2>1, <2>2 DEF LiveEnds, Done, Goto, AfterRunOnce, chainVars, storeVars, ChainTypeOK
  <2>3. CASE Restart \/ Crash
    <3>1. FreshProcess
      BY <2>3 DEF Restart, Crash
    <3>2. cursor' \in Nat /\ to' \in 0..MaxBlock /\ pending' \subseteq Row
      BY <3>1, ChainAssumption DEF FreshProcess
    <3> QED
      BY <2>1, <3>1, <3>2 DEF FreshProcess, chainVars, storeVars, ChainTypeOK
  <2> QED
    BY <1>10, <2>2, <2>3
<1>11. CASE Done /\ ~DropQueue
  BY <1>11 DEF Done, Goto, chainVars, storeVars, socketVars, ChainTypeOK
<1>12. CASE Break
  <2>1. PICK n \in 0..Len(queue) :
          /\ queue' = SubSeq(queue, 1, n)
          /\ torn' = torn \cup {queue[i].log : i \in (n + 1)..Len(queue)}
    BY <1>12 DEF Break
  <2>2. queue' \in Seq(Row)
    BY <2>1
  <2>3. torn' \subseteq Log
    <3>1. \A i \in (n + 1)..Len(queue) : queue[i] \in Row
      OBVIOUS
    <3> QED
      BY <2>1, <3>1 DEF Row
  <2> QED
    BY <1>12, <2>2, <2>3
    DEF Break, listenerVars, procVars, chainVars, storeVars, ChainTypeOK
<1>13. CASE ChainGrows \/ ChainReorganises
  BY <1>13, ChainKeepsTypes
<1>14. CASE SettleLate
  <2>1. CASE SettleEvent
    BY <1>14, <2>1, InsertedRow
    DEF SettleLate, SettleStep, SettleEvent, chainVars, procVars, socketVars, ChainTypeOK
  <2>2. CASE SettleCheckpoint
    BY <1>14, <2>2, RaisedIsMax
    DEF SettleLate, SettleStep, SettleCheckpoint, chainVars, procVars, socketVars, ChainTypeOK
  <2> QED
    BY <1>14, <2>1, <2>2 DEF SettleLate, SettleStep, Settle
<1>15. CASE UNCHANGED vars
  BY <1>15 DEF vars, listenerVars, chainVars, storeVars, procVars, socketVars, ChainTypeOK
<1> QED
  BY <1>1, <1>2, <1>3, <1>4, <1>5, <1>6, <1>7, <1>8, <1>9, <1>10, <1>11, <1>12, <1>13, <1>14, <1>15
  DEF Next, Setup, Backfill, Live, LiveEnds, Restart, Crash

-----------------------------------------------------------------------------
(* What is known stays known.                                              *)

LEMMA KnownStays ==
  ASSUME UNCHANGED chainVars, Accepted \cap AccountedLogs \subseteq AccountedLogs'
  PROVE  Known \subseteq Known'
BY DEF Known, AccountedTo, Mined, chainVars

LEMMA SharedStays ==
  ASSUME UNCHANGED chainVars, Known \subseteq Known',
         Accepted \cap (torn \cup QueuedLogs)' \subseteq torn \cup QueuedLogs,
         Recorded \subseteq Recorded', failed \subseteq failed', window \subseteq window'
  PROVE  /\ Shared \subseteq Shared'
         /\ \A l : Excused(l) => Excused(l)'
<1>1. \A l : Excused(l) => Excused(l)'
  BY DEF Excused, chainVars
<1>2. Shared \subseteq Shared'
  <2> SUFFICES ASSUME NEW b \in Shared
               PROVE  b \in Shared'
    OBVIOUS
  <2>1. \A l \in Accepted \cap (torn \cup QueuedLogs)' :
          (Mined(l)' /\ blockOf'[l] \in MinStart..b) => Excused(l)'
    BY <1>1 DEF Shared, Mined, chainVars
  <2> QED
    BY <2>1 DEF Shared
<1> QED
  BY <1>1, <1>2

\* Steps that touch neither the chain nor the tables nor the channel.
LEMMA Unaffected ==
  ASSUME UNCHANGED <<chainVars, storeVars, failed, queue, window, torn, moved>>
  PROVE  /\ Known \subseteq Known' /\ Shared \subseteq Shared'
         /\ AccountedLogs' = AccountedLogs /\ Marks' = Marks
         /\ \A l : Excused(l) => Excused(l)'
<1>1. /\ AccountedLogs' = AccountedLogs /\ Marks' = Marks
      /\ Recorded' = Recorded /\ QueuedLogs' = QueuedLogs
  BY DEF AccountedLogs, Marks, Recorded, QueuedLogs, storeVars
<1>2. Known \subseteq Known'
  BY <1>1, KnownStays
<1> QED
  BY <1>1, <1>2, SharedStays

\* A chain step keeps all knowledge: what moves is pushed, or seen to be missed.
LEMMA KnownThroughChain ==
  ASSUME TypeOK, Situated, ChainGrows \/ ChainReorganises
  PROVE  /\ AccountedLogs \subseteq AccountedLogs'
         /\ Known \subseteq Known'
         /\ connected /\ head \in Known => head' \in Known'
<1>1. ChainTypeOK /\ ChainTypeOK' /\ head <= head' /\ TypeOK'
  BY ChainKeepsTypes DEF TypeOK, ListenerTypeOK
<1>2. QueuedLogs \subseteq QueuedLogs'
  <2>1. Notify
    BY DEF ChainGrows, ChainReorganises
  <2>2. CASE queue' = queue
    BY <2>2 DEF QueuedLogs
  <2>3. ASSUME NEW s \in Pushed, queue' = queue \o s
        PROVE  QueuedLogs \subseteq QueuedLogs'
    <3>1. s \in Seq(Row) /\ queue \in Seq(Row)
      BY <1>1, PushedParts DEF TypeOK
    <3>2. \A i \in DOMAIN queue : i \in DOMAIN queue' /\ queue'[i] = queue[i]
      BY <2>3, <3>1
    <3> QED
      BY <3>2 DEF QueuedLogs
  <2> QED
    BY <2>1, <2>2, <2>3 DEF Notify
<1>3. AccountedLogs \subseteq AccountedLogs'
  BY <1>2 DEF AccountedLogs, ChainGrows, ChainReorganises, Recorded, storeVars
<1>4. ASSUME connected, NEW l \in Log, blockOf'[l] # blockOf[l], Mined(l)'
      PROVE  l \in AccountedLogs'
  <2>1. PICK s \in Pushed : queue' = queue \o s
    BY <1>4 DEF ChainGrows, ChainReorganises, Notify
  <2>2. s \in Seq(Row) /\ queue \in Seq(Row)
    BY <1>1, PushedParts DEF TypeOK
  <2>3. PICK i \in DOMAIN s : s[i].log = l
    BY <1>1, <1>4, PushedAll DEF Mined
  <2>4. Len(queue) + i \in DOMAIN queue' /\ queue'[Len(queue) + i] = s[i]
    BY <2>1, <2>2
  <2> QED
    BY <2>3, <2>4 DEF AccountedLogs, QueuedLogs
<1>5. ASSUME ~connected, NEW l \in Log, blockOf'[l] # blockOf[l]
      PROVE  blockOf'[l] = head + 1 \/ l \in AccountedLogs'
  <2>1. CASE ChainGrows
    BY <1>5, <2>1 DEF ChainGrows, Mine
  <2>2. CASE ChainReorganises
    BY <1>5, <2>2 DEF ChainReorganises, Changed, AccountedLogs
  <2> QED
    BY <2>1, <2>2
<1>6. Known \subseteq Known'
  <2> SUFFICES ASSUME NEW b \in Known
               PROVE  b \in Known'
    OBVIOUS
  <2>1. b \in Int /\ (b <= head \/ b < MinStart)
    BY DEF Known
  <2>2. head \in Int /\ head' \in Int
    BY <1>1 DEF ChainTypeOK
  <2>3. SUFFICES ASSUME NEW l \in Accepted, Mined(l)', blockOf'[l] \in MinStart..b
                 PROVE  l \in AccountedLogs'
    BY <1>1, <2>1, <2>2, MinStartIsLeast DEF Known, AccountedTo
  <2>4. l \in Log
    BY DEF Accepted
  <2>5. CASE blockOf'[l] = blockOf[l]
    BY <1>3, <2>3, <2>5 DEF Known, AccountedTo, Mined
  <2>6. CASE blockOf'[l] # blockOf[l]
    BY <1>4, <1>5, <2>1, <2>2, <2>3, <2>4, <2>6, MinStartIsLeast
  <2> QED
    BY <2>5, <2>6
<1>7. ASSUME connected, head \in Known
      PROVE  head' \in Known'
  <2>1. SUFFICES ASSUME NEW l \in Accepted, Mined(l)', blockOf'[l] \in MinStart..head'
                 PROVE  l \in AccountedLogs'
    BY <1>1 DEF Known, AccountedTo, ChainTypeOK
  <2>2. l \in Log
    BY DEF Accepted
  <2>3. CASE blockOf'[l] = blockOf[l]
    <3>1. blockOf[l] \in MinStart..head /\ Mined(l)
      BY <1>1, <2>1, <2>2, <2>3, MinStartIsLeast DEF ChainTypeOK, Mined
    <3> QED
      BY <1>3, <1>7, <3>1 DEF Known, AccountedTo
  <2>4. CASE blockOf'[l] # blockOf[l]
    BY <1>4, <1>7, <2>1, <2>2, <2>4
  <2> QED
    BY <2>3, <2>4
<1> QED
  BY <1>3, <1>6, <1>7

\* Mining disturbs no log that is in a block, and adds none to the blocks so far.
LEMMA SharedThroughMining ==
  ASSUME TypeOK, Situated, ChainGrows
  PROVE  /\ \A l \in Log : Mined(l) /\ Excused(l) => Excused(l)'
         /\ Shared \subseteq Shared'
<1>1. ChainTypeOK /\ ChainTypeOK' /\ head' = head + 1 /\ head \in Nat
  <2>1. ChainTypeOK
    BY DEF TypeOK, ListenerTypeOK
  <2>2. ChainTypeOK'
    BY ChainKeepsTypes
  <2>3. head' = head + 1
    BY DEF ChainGrows, Mine
  <2>4. head \in Nat
    BY <2>1, ChainAssumption DEF ChainTypeOK
  <2> QED
    BY <2>1, <2>2, <2>3, <2>4
<1>2. \A l \in Log : blockOf'[l] = blockOf[l] \/ (~Mined(l) /\ blockOf'[l] = head + 1)
  BY DEF ChainGrows, Mine
<1>3. /\ Recorded' = Recorded
      /\ UNCHANGED <<failed, window, torn>>
  BY DEF ChainGrows, Recorded, storeVars
<1>4. \A l \in Log : Mined(l) /\ Excused(l) => Excused(l)'
  <2> SUFFICES ASSUME NEW l \in Log, Mined(l), Excused(l)
               PROVE  Excused(l)'
    OBVIOUS
  <2>1. CASE l \in Recorded \cup failed \cup window
    BY <1>3, <2>1 DEF Excused
  <2>2. ASSUME NEW k \in (Recorded \cup Ignored) \ {l}, blockOf[k] = blockOf[l]
        PROVE  Excused(l)'
    <3>1. k \in Log
      <4>1. \A i \in DOMAIN events : events[i] \in Row
        BY DEF TypeOK, ListenerTypeOK
      <4> QED
        BY <4>1, ConfigAssumption DEF Recorded, Row
    <3>2. blockOf'[k] = blockOf'[l]
      BY <1>2, <2>2, <3>1 DEF Mined
    <3> QED
      BY <1>3, <2>2, <3>2 DEF Excused
  <2> QED
    BY <2>1, <2>2 DEF Excused
<1>5. \A l \in QueuedLogs' \ QueuedLogs : ~Mined(l) /\ blockOf'[l] = head + 1
  <2>1. CASE queue' = queue
    BY <2>1 DEF QueuedLogs
  <2>2. ASSUME NEW s \in Pushed, queue' = queue \o s
        PROVE  \A l \in QueuedLogs' \ QueuedLogs : ~Mined(l) /\ blockOf'[l] = head + 1
    <3>1. s \in Seq(Row) /\ queue \in Seq(Row)
      BY <1>1, PushedParts DEF TypeOK
    <3>2. \A i \in DOMAIN queue' : \/ i \in DOMAIN queue /\ queue'[i] = queue[i]
                                   \/ \E j \in DOMAIN s : queue'[i] = s[j]
      <4> TAKE i \in DOMAIN queue'
      <4>1. i \in 1..(Len(queue) + Len(s)) /\ Len(queue) \in Nat
        BY <2>2, <3>1
      <4>2. CASE i <= Len(queue)
        BY <2>2, <3>1, <4>1, <4>2
      <4>3. CASE i > Len(queue)
        <5>1. i - Len(queue) \in DOMAIN s /\ queue'[i] = s[i - Len(queue)]
          BY <2>2, <3>1, <4>1, <4>3
        <5> QED
          BY <5>1
      <4> QED
        BY <4>1, <4>2, <4>3
    <3>3. \A j \in DOMAIN s : ~Mined(s[j].log) /\ blockOf'[s[j].log] = head'
      BY <1>1, PushedByMining DEF ChainGrows
    <3> QED
      BY <1>1, <3>2, <3>3 DEF QueuedLogs
  <2> QED
    BY <2>1, <2>2 DEF ChainGrows, Notify
<1>6. Shared \subseteq Shared'
  <2> SUFFICES ASSUME NEW b \in Shared
               PROVE  b \in Shared'
    OBVIOUS
  <2>1. b \in Known' /\ b \in Int /\ (b <= head \/ b < MinStart)
    BY KnownThroughChain DEF Shared, Known
  <2>2. SUFFICES ASSUME NEW l \in Accepted \cap (torn \cup QueuedLogs)',
                        Mined(l)', blockOf'[l] \in MinStart..b
                 PROVE  Excused(l)'
    BY <2>1 DEF Shared
  <2>3. l \in Log /\ blockOf'[l] # head + 1
    BY <1>1, <2>1, <2>2, MinStartIsLeast DEF Accepted
  <2>4. /\ Mined(l) /\ blockOf[l] \in MinStart..b
        /\ l \in torn \cup QueuedLogs
    BY <1>2, <1>3, <1>5, <2>2, <2>3 DEF Mined
  <2> QED
    BY <1>4, <2>2, <2>3, <2>4 DEF Shared
<1> QED
  BY <1>4, <1>6

-----------------------------------------------------------------------------
(* The inductive invariant.                                                *)

LEMMA InitIInv == Init => IInv
<1> SUFFICES ASSUME Init
             PROVE  IInv
  OBVIOUS
<1>1. TypeOK
  BY InitTypeOK
<1>2. /\ pc = "dial" /\ queue = << >> /\ ~connected /\ torn = {} /\ QueuedLogs = {}
      /\ head = 0 /\ last = 0 /\ Marks = {-1}
      /\ \A l \in Log : ~Mined(l)
  BY DEF Init, ListenerInit, ChainInit, StoreInit, Marks, NoRow, Mined, QueuedLogs
<1>3. Situated
  BY <1>2 DEF Situated
<1>4. \A l \in Accepted : l \in Log
  BY DEF Accepted
<1>5. -1 \in Known /\ -1 \in Shared
  BY <1>2, <1>4 DEF Known, AccountedTo, Shared
<1>6. KnowledgeOK
  BY <1>2, <1>5 DEF KnowledgeOK, InRunOnce, RangeKnown, ChannelKnown
<1>7. OrderOK
  BY <1>2, <1>5 DEF OrderOK, ChannelOrdered, InRunOnce, RangeShared, TornLast
<1> QED
  BY <1>1, <1>3, <1>6, <1>7 DEF IInv

\* Outside a live run the channel is empty, and half of the invariant idle.
LEMMA NoChannel ==
  ASSUME queue' = << >>, ~connected', pc' \notin {"live", "mark"}
  PROVE  ChannelKnown' /\ ChannelOrdered' /\ TornLast'
BY DEF ChannelKnown, ChannelOrdered, TornLast

\* Setting up a run: calls that change nothing but where the goroutine is.
LEMMA SetupKeepsIInv ==
  ASSUME IInv, TypeOK',
         DialOk \/ SetupFails \/ RetryLater \/ LoadOk \/ HeadOk \/ FilterOk
  PROVE  IInv'
<1> USE DEF IInv
<1>1. /\ UNCHANGED <<chainVars, storeVars, failed, cancelled, connected, queue, window,
                     torn, moved, reorgs>>
      /\ pc \notin {"live", "mark"} /\ pc' \notin {"live", "mark"}
  BY DEF DialOk, SetupFails, RetryLater, LoadOk, Load, HeadOk, FilterOk, Goto, AfterRunOnce,
         socketVars
<1>2. /\ Known \subseteq Known' /\ Shared \subseteq Shared'
      /\ AccountedLogs' = AccountedLogs /\ Marks' = Marks
      /\ \A l : Excused(l) => Excused(l)'
  BY <1>1, Unaffected
<1>3. queue' = << >> /\ ~connected'
  BY <1>1 DEF Situated
<1>4. ChannelKnown' /\ ChannelOrdered' /\ TornLast'
  BY <1>1, <1>3, NoChannel
<1>5. Marks' \subseteq Known' /\ (reorgs = 0 => Marks' \subseteq Shared')
  BY <1>2 DEF KnowledgeOK, OrderOK
<1>6. Situated'
  <2>1. CASE HeadOk
    <3>1. CASE NeedsBackfill
      <4>1. Safe \in 0..head /\ cursor <= Safe /\ last' = Safe /\ UNCHANGED <<head, cursor>>
        BY <2>1, <3>1, ConfigAssumption, ChainAssumption
        DEF HeadOk, Goto, NeedsBackfill, Safe, TypeOK, ListenerTypeOK, ChainTypeOK, chainVars
      <4> QED
        BY <1>1, <1>3, <2>1, <4>1 DEF Situated, HeadOk, Goto
    <3>2. CASE ~NeedsBackfill
      BY <1>1, <1>3, <2>1, <3>2 DEF Situated, HeadOk, Goto, chainVars
    <3> QED
      BY <3>1, <3>2
  <2>2. CASE FilterOk
    <3>1. to' = RangeEnd(cursor, last) /\ cursor <= last /\ last <= head
      BY <2>2 DEF FilterOk, Situated
    <3>2. to' \in cursor..last
      BY <3>1, RangeEndInRange DEF TypeOK, ListenerTypeOK
    <3>3. to' <= head
      BY <3>1, <3>2 DEF TypeOK, ListenerTypeOK, ChainTypeOK
    <3> QED
      BY <1>1, <1>3, <2>2, <3>3 DEF FilterOk, Situated, socketVars, chainVars
  <2>3. CASE DialOk \/ SetupFails \/ RetryLater \/ LoadOk
    BY <1>1, <1>3, <2>3
    DEF Situated, DialOk, SetupFails, RetryLater, LoadOk, Load, Goto, AfterRunOnce, socketVars, chainVars
  <2> QED
    BY <2>1, <2>2, <2>3
<1>7. InRunOnce' => cursor' - 1 \in Known' /\ (reorgs = 0 => cursor' - 1 \in Shared')
  <2>1. CASE LoadOk
    <3>1. cursor' = MinStart \/ (cursor' = checkpoint + 1 /\ checkpoint # NoRow)
      BY <2>1 DEF LoadOk, Load, Resume
    <3>2. CASE cursor' = MinStart
      BY <3>2, MinStartIsLeast DEF Known, Shared, AccountedTo
    <3>3. CASE cursor' = checkpoint + 1 /\ checkpoint # NoRow
      <4>1. cursor' - 1 = checkpoint
        BY <3>3, ChainAssumption DEF TypeOK, ListenerTypeOK
      <4> QED
        BY <1>2, <4>1 DEF KnowledgeOK, OrderOK, Marks
    <3> QED
      BY <3>1, <3>2, <3>3
  <2>2. CASE HeadOk \/ FilterOk
    <3>1. InRunOnce /\ cursor' = cursor
      BY <2>2 DEF HeadOk, FilterOk, Goto, InRunOnce
    <3> QED
      BY <1>2, <3>1 DEF KnowledgeOK, OrderOK
  <2>3. CASE DialOk \/ SetupFails \/ RetryLater
    BY <2>3 DEF DialOk, SetupFails, RetryLater, Goto, AfterRunOnce, InRunOnce
  <2> QED
    BY <2>1, <2>2, <2>3
<1>8. RangeKnown' /\ (reorgs = 0 => RangeShared')
  <2>1. CASE FilterOk
    <3>1. /\ pending' = LogsIn(cursor, to')
          /\ cursor - 1 \in Known /\ (reorgs = 0 => cursor - 1 \in Shared)
          /\ cursor \in Int /\ to' \in Int
      BY <2>1 DEF FilterOk, KnowledgeOK, OrderOK, InRunOnce, TypeOK, ListenerTypeOK
    <3>2. \A l \in Accepted : Mined(l)' = Mined(l) /\ blockOf'[l] = blockOf[l]
      BY <1>1 DEF chainVars, Mined
    <3>3. \A l \in Accepted : (Mined(l) /\ blockOf[l] \in cursor..to') => l \in PendingLogs'
      <4> SUFFICES ASSUME NEW l \in Accepted, Mined(l), blockOf[l] \in cursor..to'
                   PROVE  l \in PendingLogs'
        OBVIOUS
      <4>1. LogRow(l) \in pending'
        BY <3>1 DEF LogsIn, Accepted
      <4> QED
        BY <4>1 DEF PendingLogs, LogRow
    <3>4. \A l \in Accepted : blockOf[l] \in Int
      BY DEF Accepted, TypeOK, ListenerTypeOK, ChainTypeOK
    <3>5. \A l \in Accepted : (Mined(l) /\ blockOf[l] \in MinStart..to') =>
                                 l \in PendingLogs' \/ blockOf[l] \in MinStart..(cursor - 1)
      BY <3>1, <3>3, <3>4, MinStartIsLeast
    <3>6. RangeKnown'
      BY <1>2, <3>1, <3>2, <3>5 DEF RangeKnown, Known, AccountedTo
    <3>7. reorgs = 0 => RangeShared'
      BY <1>1, <1>2, <3>1, <3>2, <3>5 DEF RangeShared, Shared
    <3> QED
      BY <3>6, <3>7
  <2>2. CASE ~FilterOk
    BY <1>1, <2>2
    DEF DialOk, SetupFails, RetryLater, LoadOk, Load, HeadOk, Goto, AfterRunOnce, RangeKnown, RangeShared
  <2> QED
    BY <2>1, <2>2
<1>9. KnowledgeOK'
  BY <1>1, <1>2, <1>4, <1>5, <1>7, <1>8 DEF KnowledgeOK, chainVars
<1>10. reorgs' = 0 => OrderOK'
  BY <1>1, <1>4, <1>5, <1>7, <1>8 DEF OrderOK, Mined, chainVars
<1> QED
  BY <1>6, <1>9, <1>10

\* What was mined before the subscription is in the window, or below the cursor.
LEMMA SubscribeKeepsIInv ==
  ASSUME IInv, TypeOK', SubscribeOk
  PROVE  IInv'
<1> USE DEF IInv
<1>1. /\ UNCHANGED <<chainVars, storeVars, failed, cancelled, cursor, last, torn, moved, reorgs>>
      /\ queue = << >> /\ queue' = << >>
      /\ pc = "subscribe" /\ pc' = "live" /\ ~cancelled
      /\ window' = window \cup {l \in Log : Mined(l) /\ blockOf[l] >= cursor}
  BY DEF SubscribeOk, Goto, Situated
<1>2. /\ Recorded' = Recorded /\ QueuedLogs' = QueuedLogs /\ Marks' = Marks
      /\ AccountedLogs \subseteq AccountedLogs'
  BY <1>1 DEF AccountedLogs, Recorded, QueuedLogs, Marks, storeVars
<1>3. Known \subseteq Known'
  BY <1>1, <1>2, KnownStays
<1>4. Shared \subseteq Shared' /\ \A l : Excused(l) => Excused(l)'
  BY <1>1, <1>2, <1>3, SharedStays
<1>5. cursor - 1 \in Known /\ (reorgs = 0 => cursor - 1 \in Shared)
  BY <1>1 DEF KnowledgeOK, OrderOK, InRunOnce
<1>6. \A l \in Accepted : /\ Mined(l)' = Mined(l) /\ blockOf'[l] = blockOf[l]
                          /\ blockOf[l] \in Int /\ l \in Log
  BY <1>1 DEF chainVars, Mined, Accepted, TypeOK, ListenerTypeOK, ChainTypeOK
<1>7. cursor \in Int /\ head \in Int /\ head' = head
  BY <1>1 DEF chainVars, TypeOK, ListenerTypeOK, ChainTypeOK
<1>8. \A l \in Accepted :
        (Mined(l) /\ blockOf[l] >= MinStart) =>
           l \in window' \/ blockOf[l] \in MinStart..(cursor - 1)
  BY <1>1, <1>6, <1>7, MinStartIsLeast
<1>9. head' \in Known'
  <2>1. AccountedTo(head)'
    <3> SUFFICES ASSUME NEW l \in Accepted, Mined(l), blockOf[l] \in MinStart..head
                 PROVE  l \in AccountedLogs'
      BY <1>6, <1>7 DEF AccountedTo
    <3>1. CASE l \in window'
      BY <3>1 DEF AccountedLogs
    <3>2. CASE blockOf[l] \in MinStart..(cursor - 1)
      BY <1>2, <1>5, <3>2 DEF Known, AccountedTo
    <3> QED
      BY <1>6, <1>8, <3>1, <3>2, MinStartIsLeast
  <2> QED
    BY <1>7, <2>1 DEF Known
<1>10. reorgs = 0 => TornLast'
  <2> SUFFICES ASSUME reorgs = 0, NEW l \in Accepted \cap torn, Mined(l), blockOf[l] >= MinStart
               PROVE  Excused(l)'
    BY <1>1, <1>6 DEF TornLast
  <2>1. CASE l \in window'
    BY <2>1 DEF Excused
  <2>2. CASE blockOf[l] \in MinStart..(cursor - 1)
    BY <1>4, <1>5, <2>2 DEF Shared
  <2> QED
    BY <1>8, <2>1, <2>2
<1>11. Situated'
  BY <1>1 DEF Situated, chainVars
<1>12. KnowledgeOK'
  BY <1>1, <1>2, <1>3, <1>7, <1>9 DEF KnowledgeOK, InRunOnce, RangeKnown, ChannelKnown
<1>13. reorgs' = 0 => OrderOK'
  BY <1>1, <1>2, <1>4, <1>10
  DEF OrderOK, ChannelOrdered, InRunOnce, RangeShared, Mined, chainVars
<1> QED
  BY <1>11, <1>12, <1>13

\* The signal, and a run that ends in backoff.
LEMMA CancelKeepsIInv ==
  ASSUME IInv, TypeOK', CancelRun \/ (Goto("backoff", "stopped") /\ UNCHANGED socketVars)
  PROVE  IInv'
<1> USE DEF IInv
<1>1. /\ UNCHANGED <<chainVars, storeVars, failed, cursor, to, pending, socketVars>>
      /\ \/ pc' = pc /\ cancelled'
         \/ pc = "backoff" /\ pc' = "stopped"
  BY DEF CancelRun, Cancel, Goto
<1>2. /\ Known \subseteq Known' /\ Shared \subseteq Shared'
      /\ AccountedLogs' = AccountedLogs /\ Marks' = Marks
      /\ \A l : Excused(l) => Excused(l)'
  BY <1>1, Unaffected DEF socketVars
<1>3. Situated'
  BY <1>1 DEF Situated, chainVars, socketVars
<1>4. KnowledgeOK'
  BY <1>1, <1>2 DEF KnowledgeOK, InRunOnce, RangeKnown, ChannelKnown, chainVars, socketVars
<1>5. reorgs = 0 => ChannelOrdered'
  BY <1>1, <1>2 DEF OrderOK, ChannelOrdered, Mined, chainVars, socketVars
<1>6. reorgs' = 0 => OrderOK'
  BY <1>1, <1>2, <1>5
  DEF OrderOK, InRunOnce, RangeShared, TornLast, Mined, chainVars, socketVars
<1> QED
  BY <1>3, <1>4, <1>6

LEMMA HandleKeepsIInv ==
  ASSUME IInv, TypeOK', HandleBackfilled
  PROVE  IInv'
<1> USE DEF IInv
<1>1. PICK r \in pending : NextLog(r) /\ (HandleReturnsNil(r) \/ HandleReturnsError(r))
  BY DEF HandleBackfilled, HandleNext
<1>2. r \in Row
  BY DEF TypeOK, ListenerTypeOK
<1>3. /\ UNCHANGED <<checkpoint, lateMarks>>
      /\ (cancelled => cancelled')
      /\ failed \subseteq failed' /\ Recorded \subseteq Recorded'
      /\ r.log \in Accepted => (r.log \in Recorded' \cup failed' \/ cancelled')
  BY <1>1, <1>2, HandleEffect DEF TypeOK
<1>4. /\ UNCHANGED <<chainVars, pc, cursor, to, socketVars>>
      /\ pc = "handle" /\ pending' = pending \ {r}
  BY <1>1 DEF HandleBackfilled, NextLog
<1>5. /\ queue = << >> /\ queue' = << >> /\ ~connected'
      /\ QueuedLogs' = QueuedLogs /\ Marks' = Marks
      /\ AccountedLogs \subseteq AccountedLogs'
  BY <1>3, <1>4 DEF Situated, QueuedLogs, Marks, AccountedLogs, socketVars
<1>6. Known \subseteq Known'
  BY <1>4, <1>5, KnownStays
<1>7. Shared \subseteq Shared' /\ \A l : Excused(l) => Excused(l)'
  BY <1>3, <1>4, <1>5, <1>6, SharedStays DEF socketVars
<1>8. PendingLogs \subseteq PendingLogs' \cup {r.log}
  BY <1>4 DEF PendingLogs
<1>9. ChannelKnown' /\ ChannelOrdered' /\ TornLast'
  BY <1>4, <1>5, NoChannel
<1>10. RangeKnown'
  <2> SUFFICES ASSUME ~cancelled', NEW l \in Accepted, Mined(l), blockOf[l] \in MinStart..to
               PROVE  l \in AccountedLogs' \cup PendingLogs'
    BY <1>4 DEF RangeKnown, Mined, chainVars
  <2>1. l \in AccountedLogs \cup PendingLogs
    BY <1>3, <1>4 DEF KnowledgeOK, RangeKnown
  <2> QED
    BY <1>3, <1>5, <1>8, <2>1 DEF AccountedLogs
<1>11. reorgs = 0 => RangeShared'
  <2> SUFFICES ASSUME reorgs = 0, ~cancelled', NEW l \in Accepted \cap torn,
                      Mined(l), blockOf[l] \in MinStart..to
               PROVE  Excused(l)' \/ l \in PendingLogs'
    BY <1>4 DEF RangeShared, Mined, chainVars, socketVars
  <2>1. Excused(l) \/ l \in PendingLogs
    BY <1>3, <1>4 DEF OrderOK, RangeShared
  <2>2. CASE l = r.log
    BY <1>3, <2>2 DEF Excused
  <2> QED
    BY <1>7, <1>8, <2>1, <2>2
<1>12. Situated'
  BY <1>4, <1>5 DEF Situated, chainVars, socketVars
<1>13. KnowledgeOK'
  BY <1>3, <1>4, <1>5, <1>6, <1>9, <1>10 DEF KnowledgeOK, InRunOnce, chainVars
<1>14. reorgs' = 0 => OrderOK'
  BY <1>3, <1>4, <1>5, <1>7, <1>9, <1>11
  DEF OrderOK, InRunOnce, Mined, chainVars, socketVars
<1> QED
  BY <1>12, <1>13, <1>14

\* At the end of a range its last block is known, and may be marked.
LEMMA MarkKeepsIInv ==
  ASSUME IInv, TypeOK', MarkBackfilled
  PROVE  IInv'
<1> USE DEF IInv
<1> DEFINE next == IF to < last THEN "filter" ELSE "subscribe"
<1>1. Mark(next) /\ UNCHANGED socketVars
  BY DEF MarkBackfilled
<1>2. /\ pc = "handle" /\ pc' = next /\ pending = {}
      /\ cursor' = to + 1
      /\ UNCHANGED <<chainVars, to, pending, failed, socketVars>>
      /\ (cancelled => cancelled')
  BY <1>1 DEF Mark, MarkOk, MarkFails, MarkAbandons, EndRange
<1>3. /\ UNCHANGED events
      /\ Marks' \subseteq Marks \cup {to}
      /\ cancelled => Marks' = Marks
  BY <1>1, RaisedIsMax
  DEF Mark, MarkOk, MarkFails, MarkAbandons, SaveCheckpoint, AbandonCheckpoint, storeVars, Marks, Raised
<1>4. /\ queue = << >> /\ queue' = << >> /\ ~connected'
      /\ QueuedLogs = {} /\ QueuedLogs' = {} /\ Recorded' = Recorded
      /\ AccountedLogs' = AccountedLogs
  BY <1>2, <1>3 DEF Situated, QueuedLogs, AccountedLogs, Recorded, socketVars
<1>5. Known \subseteq Known'
  BY <1>2, <1>4, KnownStays
<1>6. Shared \subseteq Shared'
  BY <1>2, <1>4, <1>5, SharedStays DEF socketVars
<1>7. to \in Int /\ last \in Int /\ to <= head
  BY <1>2 DEF Situated, TypeOK, ListenerTypeOK
<1>8. ~cancelled => to \in Known
  BY <1>2, <1>7 DEF KnowledgeOK, RangeKnown, PendingLogs, Known, AccountedTo
<1>9. (~cancelled /\ reorgs = 0) => to \in Shared
  BY <1>2, <1>4, <1>8 DEF OrderOK, RangeShared, PendingLogs, Shared
<1>10. ChannelKnown' /\ ChannelOrdered' /\ TornLast'
  BY <1>2, <1>4, NoChannel
<1>11. Situated'
  <2>1. pc' = "filter" => cursor' <= last
    BY <1>2, <1>7
  <2> QED
    BY <1>2, <1>4, <2>1 DEF Situated, chainVars, socketVars
<1>12. cursor' - 1 = to
  BY <1>2, <1>7
<1>13. KnowledgeOK'
  <2>1. Marks' \subseteq Known'
    BY <1>3, <1>5, <1>8 DEF KnowledgeOK
  <2>2. InRunOnce' => cursor' - 1 \in Known'
    BY <1>2, <1>5, <1>8, <1>12 DEF InRunOnce
  <2>3. \A b \in Marks' : b <= head'
    BY <1>2, <1>3, <1>7 DEF KnowledgeOK, chainVars
  <2> QED
    BY <1>2, <1>10, <2>1, <2>2, <2>3 DEF KnowledgeOK, RangeKnown
<1>14. reorgs' = 0 => OrderOK'
  <2> SUFFICES ASSUME reorgs = 0
               PROVE  OrderOK'
    BY <1>2 DEF socketVars
  <2>1. Marks' \subseteq Shared'
    BY <1>3, <1>6, <1>9 DEF OrderOK
  <2>2. InRunOnce' => cursor' - 1 \in Shared'
    BY <1>2, <1>6, <1>9, <1>12 DEF InRunOnce
  <2>3. \A l \in torn' : Mined(l)'
    BY <1>2 DEF OrderOK, Mined, chainVars, socketVars
  <2> QED
    BY <1>2, <1>10, <2>1, <2>2, <2>3 DEF OrderOK, RangeShared
<1> QED
  BY <1>11, <1>13, <1>14

\* A log leaves the channel for the table, the failures, or, if the process is
\* ending, what is torn; the checkpoint it asks for is no further than the rest.
LEMMA LiveKeepsIInv ==
  ASSUME IInv, TypeOK', LiveHandled \/ LiveFailed
  PROVE  IInv'
<1> USE DEF IInv
<1>1. PICK r \in Row :
        /\ Take(r)
        /\ \/ HandleReturnsNil(r) /\ to' = r.block /\ pc' = "mark" /\ torn' = torn
           \/ /\ HandleReturnsError(r) /\ to' = to /\ pc' = "live"
              /\ torn' = IF cancelled' THEN torn \cup {r.log} ELSE torn
  <2>1. CASE LiveHandled
    BY <2>1 DEF LiveHandled
  <2>2. CASE LiveFailed
    BY <2>2 DEF LiveFailed, Take
  <2> QED
    BY <2>1, <2>2
<1>2. /\ queue \in Seq(Row)
      /\ ListenerTypeOK
      /\ \A i \in DOMAIN queue : queue[i].block \in Int
  <2>1. queue \in Seq(Row) /\ ListenerTypeOK
    BY DEF TypeOK
  <2>2. \A i \in DOMAIN queue : queue[i] \in Row
    BY <2>1
  <2> QED
    BY <2>1, <2>2 DEF Row
<1>3. /\ DOMAIN queue = 1..Len(queue) /\ Len(queue) \in Nat \ {0}
      /\ DOMAIN queue' = 1..(Len(queue) - 1)
      /\ r = queue[1]
      /\ \A i \in DOMAIN queue' : i + 1 \in DOMAIN queue /\ queue'[i] = queue[i + 1]
      /\ QueuedLogs = QueuedLogs' \cup {r.log}
  BY <1>1, <1>2, TakeRow
<1>4. /\ UNCHANGED <<checkpoint, lateMarks>>
      /\ (cancelled => cancelled')
      /\ failed \subseteq failed' /\ Recorded \subseteq Recorded'
      /\ r.log \in Accepted => (r.log \in Recorded' \cup failed' \/ cancelled')
      /\ HandleReturnsNil(r) => r.log \in Recorded' \cup Ignored
  BY <1>1, <1>2, HandleEffect
<1>5. /\ UNCHANGED <<chainVars, cursor, pending, last, connected, window, moved, reorgs>>
      /\ pc = "live" /\ pc' \in {"live", "mark"}
  BY <1>1 DEF Take
<1>6. Marks' = Marks /\ head' = head
  BY <1>4, <1>5 DEF Marks, chainVars
<1>7. Accepted \cap AccountedLogs \subseteq AccountedLogs'
  <2>1. torn \subseteq torn'
    BY <1>1
  <2>2. r.log \in Accepted => r.log \in Recorded' \cup failed' \cup torn'
    BY <1>1, <1>4 DEF Accepted
  <2> QED
    BY <1>3, <1>4, <1>5, <2>1, <2>2 DEF AccountedLogs
<1>8. Known \subseteq Known'
  BY <1>5, <1>7, KnownStays
<1>9. (torn \cup QueuedLogs)' \subseteq torn \cup QueuedLogs
  BY <1>1, <1>3
<1>10. Shared \subseteq Shared' /\ \A l : Excused(l) => Excused(l)'
  BY <1>4, <1>5, <1>8, <1>9, SharedStays
<1>11. 1 \in DOMAIN queue /\ DOMAIN queue \subseteq Int
  BY <1>3
<1>12. Situated'
  BY <1>5 DEF Situated, chainVars
<1>13. ChannelKnown'
  <2>1. queue[1].block \in Known /\ queue[1].block <= head
    BY <1>11 DEF KnowledgeOK, ChannelKnown
  <2>2. pc' = "mark" => to' \in Known' /\ to' <= head'
    BY <1>1, <1>3, <1>6, <1>8, <2>1
  <2> QED
    BY <1>3, <1>5, <1>6, <1>8, <2>2 DEF KnowledgeOK, ChannelKnown
<1>14. KnowledgeOK'
  BY <1>5, <1>6, <1>8, <1>13 DEF KnowledgeOK, InRunOnce, RangeKnown
<1>15. ASSUME reorgs = 0
       PROVE  OrderOK'
  <2>1. ChannelOrdered
    BY <1>15 DEF OrderOK
  <2>2. ChannelOrdered'
    <3>1. \A i, j \in DOMAIN queue' : i < j => i + 1 < j + 1
      BY <1>3
    <3>2. \A i \in DOMAIN queue' : queue[1].block <= queue'[i].block
      BY <1>3, <1>11, <2>1 DEF ChannelOrdered
    <3>3. pc' = "mark" => \A i \in DOMAIN queue' : to' <= queue'[i].block
      BY <1>1, <1>3, <3>2
    <3> QED
      BY <1>3, <1>5, <1>6, <2>1, <3>1, <3>3 DEF ChannelOrdered, Mined, chainVars
  <2>3. Mined(r.log) /\ blockOf[r.log] = r.block /\ r.log \in Log /\ r.block \in Int
    BY <1>2, <1>3, <1>11, <2>1 DEF ChannelOrdered, Row
  <2>4. \A l \in torn' : Mined(l)'
    BY <1>1, <1>5, <1>15, <2>3 DEF OrderOK, Mined, chainVars
  <2>5. ~cancelled' => torn' = torn /\ ~cancelled
    BY <1>1, <1>4
  <2>6. ASSUME ~cancelled', NEW l \in Accepted \cap torn, Mined(l), blockOf[l] >= MinStart
        PROVE  \/ Excused(l)'
               \/ ~connected /\ \A i \in DOMAIN queue : queue[i].block <= blockOf[l]
    BY <1>5, <1>10, <1>15, <2>5, <2>6 DEF OrderOK, TornLast
  <2>7. TornLast'
    BY <1>3, <1>5, <2>5, <2>6 DEF TornLast, Mined, chainVars
  <2>8. ASSUME pc' = "mark", ~cancelled'
        PROVE  to' \in Shared'
    <3>1. to' = r.block /\ torn' = torn /\ r.log \in Recorded' \cup Ignored
      BY <1>1, <1>4, <2>8
    <3>2. SUFFICES ASSUME NEW l \in Accepted \cap (torn' \cup QueuedLogs'),
                          Mined(l), blockOf[l] \in MinStart..r.block
                   PROVE  Excused(l)'
      BY <1>5, <1>13, <2>8, <3>1 DEF Shared, ChannelKnown, Mined, chainVars
    <3>3. blockOf[l] = r.block => Excused(l)'
      <4>1. CASE l = r.log
        BY <3>1, <4>1 DEF Excused, Accepted
      <4>2. CASE l # r.log
        BY <1>5, <2>3, <3>1, <4>2 DEF Excused, chainVars
      <4> QED
        BY <4>1, <4>2
    <3>4. CASE l \in QueuedLogs'
      <4>1. PICK i \in DOMAIN queue' : l = queue'[i].log
        BY <3>4 DEF QueuedLogs
      <4>2. blockOf[l] = queue[i + 1].block /\ queue[1].block <= queue[i + 1].block
        <5>1. i + 1 \in DOMAIN queue /\ 1 < i + 1 /\ queue'[i] = queue[i + 1]
          BY <1>3
        <5> QED
          BY <1>11, <2>1, <4>1, <5>1 DEF ChannelOrdered
      <4>3. blockOf[l] = r.block
        BY <1>3, <2>3, <3>2, <4>2, MinStartIsLeast
      <4> QED
        BY <3>3, <4>3
    <3>5. CASE l \in torn
      <4>1. blockOf[l] \in Int /\ blockOf[l] >= MinStart /\ blockOf[l] <= r.block
        BY <2>3, <3>2, MinStartIsLeast
      <4>2. CASE \A i \in DOMAIN queue : queue[i].block <= blockOf[l]
        <5>1. r.block <= blockOf[l]
          BY <1>3, <1>11, <4>2
        <5> QED
          BY <2>3, <3>3, <4>1, <5>1
      <4> QED
        BY <2>6, <2>8, <3>2, <3>5, <4>1, <4>2
    <3> QED
      BY <3>1, <3>2, <3>4, <3>5
  <2>9. Marks' \subseteq Shared'
    BY <1>6, <1>10, <1>15 DEF OrderOK
  <2> QED
    BY <1>5, <2>2, <2>4, <2>7, <2>8, <2>9 DEF OrderOK, InRunOnce, RangeShared
<1> QED
  BY <1>5, <1>12, <1>14, <1>15

LEMMA LiveMarkedKeepsIInv ==
  ASSUME IInv, TypeOK', LiveMarked
  PROVE  IInv'
<1> USE DEF IInv
<1>1. /\ UNCHANGED <<chainVars, cursor, to, pending, failed, socketVars, events>>
      /\ pc = "mark" /\ pc' = "live"
      /\ (cancelled => cancelled')
      /\ Marks' \subseteq Marks \cup {to}
      /\ cancelled => Marks' = Marks
  BY RaisedIsMax
  DEF LiveMarked, SaveCheckpoint, AbandonCheckpoint, storeVars, Marks, Raised
<1>2. Recorded' = Recorded /\ QueuedLogs' = QueuedLogs /\ AccountedLogs' = AccountedLogs
  BY <1>1 DEF Recorded, QueuedLogs, AccountedLogs, socketVars
<1>3. Known \subseteq Known'
  BY <1>1, <1>2, KnownStays
<1>4. Shared \subseteq Shared' /\ \A l : Excused(l) => Excused(l)'
  BY <1>1, <1>2, <1>3, SharedStays DEF socketVars
<1>5. Situated'
  BY <1>1 DEF Situated, chainVars, socketVars
<1>6. KnowledgeOK'
  BY <1>1, <1>3 DEF KnowledgeOK, InRunOnce, RangeKnown, ChannelKnown, chainVars, socketVars
<1>7. ASSUME reorgs = 0
      PROVE  OrderOK'
  <2>1. ChannelOrdered'
    BY <1>1, <1>7 DEF OrderOK, ChannelOrdered, Mined, chainVars, socketVars
  <2>2. Marks' \subseteq Shared'
    BY <1>1, <1>4, <1>7 DEF OrderOK
  <2>3. TornLast'
    BY <1>1, <1>4, <1>7 DEF OrderOK, TornLast, Mined, chainVars, socketVars
  <2> QED
    BY <1>1, <1>7, <2>1, <2>2, <2>3
    DEF OrderOK, InRunOnce, RangeShared, Mined, chainVars, socketVars
<1> QED
  BY <1>1, <1>5, <1>6, <1>7 DEF socketVars

\* The end of a connection tears what is left of the channel.
LEMMA DropKeepsIInv ==
  ASSUME IInv, TypeOK', DropQueue, UNCHANGED <<chainVars, storeVars, failed>>,
         pc' \in {"dial", "backoff", "stopped"}
  PROVE  IInv'
<1> USE DEF IInv
<1>1. /\ queue' = << >> /\ connected' = FALSE /\ torn' = torn \cup QueuedLogs
      /\ UNCHANGED <<last, window, moved, reorgs>>
  BY DEF DropQueue
<1>2. /\ Recorded' = Recorded /\ QueuedLogs' = {} /\ Marks' = Marks
      /\ AccountedLogs' = AccountedLogs
  BY <1>1 DEF Recorded, QueuedLogs, Marks, AccountedLogs, storeVars
<1>3. Known \subseteq Known'
  BY <1>2, KnownStays
<1>4. Shared \subseteq Shared'
  BY <1>1, <1>2, <1>3, SharedStays
<1>5. ChannelKnown' /\ ChannelOrdered' /\ TornLast'
  BY <1>1, NoChannel
<1>6. Situated'
  BY <1>1 DEF Situated, chainVars
<1>7. KnowledgeOK'
  BY <1>2, <1>3, <1>5 DEF KnowledgeOK, InRunOnce, RangeKnown, chainVars
<1>8. ASSUME reorgs = 0
      PROVE  OrderOK'
  <2>1. \A l \in torn \cup QueuedLogs : Mined(l)
    BY <1>8 DEF OrderOK, ChannelOrdered, QueuedLogs
  <2> QED
    BY <1>1, <1>2, <1>4, <1>5, <1>8, <2>1
    DEF OrderOK, InRunOnce, RangeShared, Mined, chainVars
<1> QED
  BY <1>1, <1>6, <1>7, <1>8

\* A broken connection tears the end of the channel, whose logs are the newest.
LEMMA BreakKeepsIInv ==
  ASSUME IInv, TypeOK', Break
  PROVE  IInv'
<1> USE DEF IInv
<1>1. /\ UNCHANGED <<chainVars, storeVars, procVars, failed, last, window, moved, reorgs>>
      /\ connected /\ connected' = FALSE
  BY DEF Break, listenerVars
<1>2. PICK n \in 0..Len(queue) :
        /\ queue' = SubSeq(queue, 1, n)
        /\ torn' = torn \cup {queue[i].log : i \in (n + 1)..Len(queue)}
  BY DEF Break
<1>3. queue \in Seq(Row) /\ Len(queue) \in Nat /\ DOMAIN queue = 1..Len(queue)
  BY DEF TypeOK
<1>4. \A i \in DOMAIN queue' : i <= n /\ i \in DOMAIN queue /\ queue'[i] = queue[i]
  BY <1>2, <1>3
<1>5. \A i \in DOMAIN queue : i > n \/ (i \in DOMAIN queue' /\ queue'[i] = queue[i])
  BY <1>2, <1>3
<1>6. \A i \in (n + 1)..Len(queue) : i \in DOMAIN queue /\ i > n
  BY <1>3
<1>7. torn' \cup QueuedLogs' = torn \cup QueuedLogs /\ torn \subseteq torn'
  <2>1. torn' \cup QueuedLogs' \subseteq torn \cup QueuedLogs
    BY <1>2, <1>4, <1>6 DEF QueuedLogs
  <2>2. \A i \in DOMAIN queue : queue[i].log \in torn' \cup QueuedLogs'
    <3> TAKE i \in DOMAIN queue
    <3>1. CASE i > n
      BY <1>2, <1>3, <3>1
    <3>2. CASE i \in DOMAIN queue' /\ queue'[i] = queue[i]
      BY <3>2 DEF QueuedLogs
    <3> QED
      BY <1>5, <3>1, <3>2
  <2>3. QueuedLogs \subseteq torn' \cup QueuedLogs'
    BY <2>2 DEF QueuedLogs
  <2>4. torn \subseteq torn'
    BY <1>2
  <2> QED
    BY <2>1, <2>3, <2>4
<1>8. Recorded' = Recorded /\ Marks' = Marks /\ AccountedLogs' = AccountedLogs
  BY <1>1, <1>7 DEF Recorded, Marks, AccountedLogs, storeVars
<1>9. Known \subseteq Known'
  BY <1>1, <1>8, KnownStays
<1>10. Shared \subseteq Shared' /\ \A l : Excused(l) => Excused(l)'
  BY <1>1, <1>7, <1>8, <1>9, SharedStays
<1>11. pc \in {"live", "mark"} /\ pc' = pc /\ cancelled' = cancelled /\ to' = to
  BY <1>1 DEF Situated, procVars
<1>12. Situated'
  BY <1>1, <1>11 DEF Situated, chainVars, procVars
<1>13. KnowledgeOK'
  BY <1>1, <1>4, <1>8, <1>9, <1>11
  DEF KnowledgeOK, InRunOnce, RangeKnown, ChannelKnown, chainVars
<1>14. ASSUME reorgs = 0
       PROVE  OrderOK'
  <2>1. ChannelOrdered
    BY <1>14 DEF OrderOK
  <2>2. ChannelOrdered'
    BY <1>1, <1>4, <1>8, <1>11, <2>1 DEF ChannelOrdered, Mined, chainVars
  <2>3. \A i \in (n + 1)..Len(queue) :
          /\ Mined(queue[i].log)
          /\ \A j \in DOMAIN queue' : queue'[j].block <= blockOf[queue[i].log]
    <3> TAKE i \in (n + 1)..Len(queue)
    <3>1. i \in DOMAIN queue /\ i > n
      BY <1>6
    <3>2. Mined(queue[i].log) /\ queue[i].block = blockOf[queue[i].log]
      BY <2>1, <3>1 DEF ChannelOrdered
    <3>3. ASSUME NEW j \in DOMAIN queue'
          PROVE  queue'[j].block <= queue[i].block
      <4>1. j \in DOMAIN queue /\ j < i /\ queue'[j] = queue[j]
        BY <1>3, <1>4, <3>1
      <4> QED
        BY <2>1, <3>1, <4>1 DEF ChannelOrdered
    <3> QED
      BY <3>2, <3>3
  <2>4. \A l \in torn' : Mined(l)'
    BY <1>1, <1>2, <1>14, <2>3 DEF OrderOK, Mined, chainVars
  <2>5. TornLast'
    <3> SUFFICES ASSUME ~cancelled, NEW l \in Accepted \cap torn', Mined(l), blockOf[l] >= MinStart
                 PROVE  \/ Excused(l)'
                        \/ \A j \in DOMAIN queue' : queue'[j].block <= blockOf[l]
      BY <1>1, <1>11 DEF TornLast, Mined, chainVars
    <3>1. CASE l \in torn
      BY <1>1, <1>10, <1>11, <1>14, <3>1 DEF OrderOK, TornLast
    <3> QED
      BY <1>2, <2>3, <3>1
  <2> QED
    BY <1>8, <1>10, <1>11, <1>14, <2>2, <2>4, <2>5
    DEF OrderOK, InRunOnce, RangeShared
<1> QED
  BY <1>1, <1>12, <1>13, <1>14

\* A late statement puts a log into the table, or a mark into the checkpoint.
LEMMA SettleKeepsIInv ==
  ASSUME IInv, TypeOK', SettleLate \/ UNCHANGED vars
  PROVE  IInv'
<1> USE DEF IInv
<1>1. UNCHANGED <<chainVars, procVars, failed, socketVars>>
  BY DEF SettleLate, SettleStep, vars, listenerVars
<1>2. Recorded \subseteq Recorded' /\ Marks' \subseteq Marks
  <2>1. CASE SettleLate /\ SettleEvent
    <3>1. PICK r \in lateRows : events' \in {events, Inserted(r)}
      BY <2>1 DEF SettleEvent
    <3>2. r \in Row /\ events \in Seq(Row)
      BY DEF TypeOK, ListenerTypeOK
    <3>3. Recorded \subseteq Recorded'
      <4>1. CASE events' = events
        BY <4>1 DEF Recorded
      <4>2. CASE events' = Inserted(r)
        BY <3>2, <4>2, InsertedRow
      <4> QED
        BY <3>1, <4>1, <4>2
    <3>4. UNCHANGED <<checkpoint, lateMarks>>
      BY <2>1 DEF SettleEvent
    <3> QED
      BY <3>3, <3>4 DEF Marks
  <2>2. CASE SettleLate /\ SettleCheckpoint
    <3>1. Recorded' = Recorded
      BY <2>2 DEF SettleCheckpoint, Recorded
    <3>2. Marks' \subseteq Marks
      BY <2>2 DEF SettleCheckpoint, Marks, Raised
    <3> QED
      BY <3>1, <3>2
  <2>3. CASE UNCHANGED vars
    BY <2>3 DEF vars, listenerVars, storeVars, Recorded, Marks
  <2> QED
    BY <2>1, <2>2, <2>3 DEF SettleLate, SettleStep, Settle
<1>3. QueuedLogs' = QueuedLogs /\ AccountedLogs \subseteq AccountedLogs' /\ PendingLogs' = PendingLogs
  BY <1>1, <1>2 DEF QueuedLogs, AccountedLogs, PendingLogs, procVars, socketVars
<1>4. Known \subseteq Known'
  BY <1>1, <1>3, KnownStays
<1>5. Shared \subseteq Shared' /\ \A l : Excused(l) => Excused(l)'
  BY <1>1, <1>2, <1>3, <1>4, SharedStays DEF socketVars
<1>6. Situated'
  BY <1>1 DEF Situated, chainVars, procVars, socketVars
<1>7. KnowledgeOK'
  BY <1>1, <1>2, <1>3, <1>4
  DEF KnowledgeOK, InRunOnce, RangeKnown, ChannelKnown, Mined, chainVars, procVars, socketVars
<1>8. ASSUME reorgs = 0
      PROVE  OrderOK'
  <2>1. ChannelOrdered'
    BY <1>1, <1>2, <1>8 DEF OrderOK, ChannelOrdered, Mined, chainVars, procVars, socketVars
  <2>2. TornLast' /\ RangeShared'
    BY <1>1, <1>3, <1>5, <1>8
    DEF OrderOK, TornLast, RangeShared, Mined, chainVars, procVars, socketVars
  <2> QED
    BY <1>1, <1>2, <1>5, <1>8, <2>1, <2>2
    DEF OrderOK, InRunOnce, Mined, chainVars, procVars, socketVars
<1> QED
  BY <1>1, <1>6, <1>7, <1>8 DEF socketVars

\* The parts of what the channel holds after a push.
LEMMA Appended ==
  ASSUME NEW q \in Seq(Row), NEW s \in Seq(Row)
  PROVE  /\ DOMAIN q = 1..Len(q) /\ Len(q) \in Nat /\ DOMAIN s \subseteq Int
         /\ \A i \in DOMAIN (q \o s) :
              \/ i \in DOMAIN q /\ (q \o s)[i] = q[i]
              \/ i > Len(q) /\ i - Len(q) \in DOMAIN s /\ (q \o s)[i] = s[i - Len(q)]
<1>1. /\ DOMAIN q = 1..Len(q) /\ Len(q) \in Nat
      /\ DOMAIN s = 1..Len(s) /\ Len(s) \in Nat
      /\ DOMAIN (q \o s) = 1..(Len(q) + Len(s))
  OBVIOUS
<1>2. \A i \in DOMAIN q : (q \o s)[i] = q[i]
  OBVIOUS
<1>3. ASSUME NEW i \in DOMAIN (q \o s), i > Len(q)
      PROVE  i - Len(q) \in DOMAIN s /\ (q \o s)[i] = s[i - Len(q)]
  BY <1>1, <1>3
<1>4. \A i \in DOMAIN (q \o s) : i \in DOMAIN q \/ i > Len(q)
  BY <1>1
<1> QED
  BY <1>1, <1>2, <1>3, <1>4

\* Every block that is pushed is known, and the range at hand stays accounted for.
LEMMA ChainKeepsKnowledge ==
  ASSUME IInv, ChainGrows \/ ChainReorganises
  PROVE  KnowledgeOK'
<1> USE DEF IInv
<1>1. /\ TypeOK' /\ ChainTypeOK /\ ChainTypeOK'
      /\ head \in Int /\ head' \in Int /\ head <= head'
  <2>1. TypeOK' /\ ChainTypeOK' /\ head <= head'
    BY ChainKeepsTypes
  <2>2. ChainTypeOK
    BY DEF TypeOK, ListenerTypeOK
  <2>3. head \in Int /\ head' \in Int
    BY <2>1, <2>2, ChainAssumption DEF ChainTypeOK
  <2> QED
    BY <2>1, <2>2, <2>3
<1>2. UNCHANGED <<storeVars, procVars, failed, last, connected, window, torn>>
  BY DEF ChainGrows, ChainReorganises
<1>3. UNCHANGED <<pc, cursor, to, pending, cancelled>>
  BY <1>2 DEF procVars
<1>4. Marks' = Marks /\ PendingLogs' = PendingLogs
  BY <1>2, <1>3 DEF Marks, PendingLogs, storeVars
<1>5. /\ AccountedLogs \subseteq AccountedLogs' /\ Known \subseteq Known'
      /\ connected => head' \in Known'
  BY KnownThroughChain DEF KnowledgeOK, ChannelKnown
<1>6. Marks' \subseteq Known'
  BY <1>4, <1>5 DEF KnowledgeOK
<1>7. \A b \in Marks' : b <= head'
  <2>1. \A b \in Marks : b \in Int /\ b <= head
    BY ChainAssumption DEF KnowledgeOK, Known
  <2> QED
    BY <1>1, <1>4, <2>1
<1>8. InRunOnce' => cursor' - 1 \in Known'
  BY <1>3, <1>5 DEF KnowledgeOK, InRunOnce
<1>9. RangeKnown'
  <2> SUFFICES ASSUME pc = "handle", ~cancelled,
                      NEW l \in Accepted, Mined(l)', blockOf'[l] \in MinStart..to
               PROVE  l \in AccountedLogs' \cup PendingLogs'
    BY <1>3 DEF RangeKnown
  <2>1. to \in Int /\ to <= head /\ ~connected /\ l \in Log
    BY DEF Situated, TypeOK, ListenerTypeOK, Accepted
  <2>2. CASE blockOf'[l] = blockOf[l]
    BY <1>4, <1>5, <2>2 DEF KnowledgeOK, RangeKnown, Mined
  <2>3. CASE blockOf'[l] # blockOf[l]
    <3>1. CASE ChainGrows
      <4>1. blockOf'[l] = head + 1
        BY <2>1, <2>3, <3>1 DEF ChainGrows, Mine
      <4> QED
        BY <1>1, <2>1, <4>1, MinStartIsLeast
    <3>2. CASE ChainReorganises
      BY <2>1, <2>3, <3>2 DEF ChainReorganises, Changed, AccountedLogs
    <3> QED
      BY <3>1, <3>2
  <2> QED
    BY <2>2, <2>3
<1>10. \A i \in DOMAIN queue' : queue'[i].block \in Known' /\ queue'[i].block <= head'
  <2>1. \A i \in DOMAIN queue : queue[i].block \in Int /\ queue[i].block \in Known
                                /\ queue[i].block <= head
    BY DEF KnowledgeOK, ChannelKnown, Known
  <2>2. CASE queue' = queue
    BY <1>1, <1>5, <2>1, <2>2
  <2>3. ASSUME connected, NEW s \in Pushed, queue' = queue \o s
        PROVE  \A i \in DOMAIN queue' : queue'[i].block \in Known' /\ queue'[i].block <= head'
    <3>1. s \in Seq(Row) /\ queue \in Seq(Row)
      BY <1>1, PushedParts DEF TypeOK
    <3>2. \A i \in DOMAIN s : s[i].block \in Int /\ s[i].block <= head'
      BY <1>1, PushedBelowHead, ChainAssumption DEF Row
    <3>3. \A i \in DOMAIN s : s[i].block \in Known'
      <4> SUFFICES ASSUME NEW b \in Int, b <= head'
                   PROVE  b \in Known'
        BY <3>2
      <4>1. \A l \in Accepted : blockOf'[l] \in MinStart..b => blockOf'[l] \in MinStart..head'
        BY <1>1, MinStartIsLeast
      <4> QED
        BY <1>5, <2>3, <4>1 DEF Known, AccountedTo
    <3>4. \A i \in DOMAIN queue' : \/ i \in DOMAIN queue /\ queue'[i] = queue[i]
                                   \/ \E j \in DOMAIN s : queue'[i] = s[j]
      BY <2>3, <3>1, Appended
    <3> QED
      BY <1>1, <1>5, <2>1, <3>2, <3>3, <3>4
  <2> QED
    BY <2>2, <2>3 DEF ChainGrows, ChainReorganises, Notify
<1>11. pc' = "mark" => to' \in Known' /\ to' <= head'
  BY <1>1, <1>3, <1>5 DEF KnowledgeOK, ChannelKnown, TypeOK, ListenerTypeOK
<1> QED
  BY <1>2, <1>5, <1>6, <1>7, <1>8, <1>9, <1>10, <1>11 DEF KnowledgeOK, ChannelKnown

\* Mined logs are above all others, and enter the channel behind them.
LEMMA MiningKeepsOrder ==
  ASSUME IInv, ChainGrows, reorgs = 0
  PROVE  OrderOK'
<1> USE DEF IInv
<1>1. /\ TypeOK' /\ ChainTypeOK /\ ChainTypeOK'
      /\ head \in Nat /\ head' = head + 1 /\ Mine
  <2>1. TypeOK' /\ ChainTypeOK' /\ ChainTypeOK
    BY ChainKeepsTypes DEF TypeOK, ListenerTypeOK
  <2> QED
    BY <2>1 DEF ChainTypeOK, ChainGrows, Mine
<1>2. UNCHANGED <<storeVars, procVars, failed, last, connected, window, torn>>
  BY DEF ChainGrows
<1>3. UNCHANGED <<pc, cursor, to, pending, cancelled>>
  BY <1>2 DEF procVars
<1>4. Marks' = Marks /\ PendingLogs' = PendingLogs
  BY <1>2, <1>3 DEF Marks, PendingLogs, storeVars
<1>5. /\ \A l \in Log : Mined(l) /\ Excused(l) => Excused(l)'
      /\ Shared \subseteq Shared'
  BY SharedThroughMining
<1>6. \A l \in Log : Mined(l) => Mined(l)' /\ blockOf'[l] = blockOf[l]
  BY <1>1 DEF Mine, Mined
<1>7. \A l \in torn : l \in Log /\ Mined(l)
  BY DEF OrderOK, TypeOK
<1>8. ChannelOrdered /\ TornLast /\ RangeShared
  BY DEF OrderOK
<1>9. \A l \in torn' : Mined(l)'
  BY <1>2, <1>6, <1>7
<1>10. RangeShared'
  BY <1>2, <1>3, <1>4, <1>5, <1>6, <1>7, <1>8 DEF RangeShared
<1>11. TornLast'
  BY <1>2, <1>3, <1>5, <1>6, <1>7, <1>8 DEF TornLast, ChainGrows, Notify
<1>12. \A b \in Marks : b \in Int /\ b <= head
  BY DEF KnowledgeOK, Known
<1>13. pc = "mark" => to \in Int /\ to <= head
  BY DEF KnowledgeOK, ChannelKnown, Known
<1>14. \A i \in DOMAIN queue : /\ queue[i].log \in Log /\ Mined(queue[i].log)
                               /\ queue[i].block \in Int /\ queue[i].block <= head
                               /\ queue[i].block = blockOf[queue[i].log]
  <2>1. \A i \in DOMAIN queue : queue[i] \in Row
    BY DEF TypeOK
  <2> QED
    BY <1>8, <2>1 DEF Row, ChannelOrdered, KnowledgeOK, ChannelKnown
<1>15. ChannelOrdered'
  <2>1. CASE queue' = queue
    BY <1>3, <1>4, <1>6, <1>8, <1>14, <2>1 DEF ChannelOrdered
  <2>2. ASSUME NEW s \in Pushed, queue' = queue \o s
        PROVE  ChannelOrdered'
    <3>1. s \in Seq(Row) /\ queue \in Seq(Row)
      BY <1>1, PushedParts DEF TypeOK
    <3>2. /\ \A i \in DOMAIN s : /\ s[i].log \in Log /\ s[i].block = head'
                                 /\ ~Mined(s[i].log) /\ blockOf'[s[i].log] = head'
          /\ \A i, j \in DOMAIN s : i < j => s[i].log # s[j].log
      BY <1>1, PushedByMining
    <3>3. /\ DOMAIN queue = 1..Len(queue) /\ Len(queue) \in Nat /\ DOMAIN s \subseteq Int
          /\ \A i \in DOMAIN queue' :
               \/ i \in DOMAIN queue /\ queue'[i] = queue[i]
               \/ /\ i > Len(queue) /\ i - Len(queue) \in DOMAIN s
                  /\ queue'[i] = s[i - Len(queue)]
      BY <2>2, <3>1, Appended
    <3>4. DOMAIN queue' \subseteq Int
      BY <1>1 DEF TypeOK
    <3>5. ASSUME NEW i \in DOMAIN queue'
          PROVE  /\ Mined(queue[i].log)'
                 /\ queue'[i].block = blockOf'[queue'[i].log]
                 /\ \A b \in Marks : b <= queue'[i].block
                 /\ pc = "mark" => to <= queue'[i].block
      <4>1. CASE i \in DOMAIN queue /\ queue'[i] = queue[i]
        BY <1>6, <1>8, <1>14, <4>1 DEF ChannelOrdered
      <4>2. CASE \E j \in DOMAIN s : queue'[i] = s[j]
        <5>1. queue'[i].block = head' /\ blockOf'[queue'[i].log] = head'
          BY <3>2, <4>2
        <5> QED
          BY <1>1, <1>12, <1>13, <5>1 DEF Mined, NoBlock
      <4> QED
        BY <3>3, <4>1, <4>2
    <3>6. ASSUME NEW i \in DOMAIN queue', NEW j \in DOMAIN queue', i < j
          PROVE  queue'[i].block <= queue'[j].block /\ queue'[i].log # queue'[j].log
      <4>1. CASE i \in DOMAIN queue /\ j \in DOMAIN queue
        <5>1. queue'[i] = queue[i] /\ queue'[j] = queue[j]
          BY <3>3, <3>4, <4>1
        <5> QED
          BY <1>8, <3>6, <4>1, <5>1 DEF ChannelOrdered
      <4>2. CASE i \in DOMAIN queue /\ j \notin DOMAIN queue
        <5>1. queue'[i] = queue[i] /\ \E k \in DOMAIN s : queue'[j] = s[k]
          BY <3>3, <3>4, <4>2
        <5> QED
          BY <1>1, <1>14, <3>2, <4>2, <5>1
      <4>3. CASE i \notin DOMAIN queue
        <5>1. i > Len(queue) /\ i - Len(queue) \in DOMAIN s /\ queue'[i] = s[i - Len(queue)]
          BY <3>3, <4>3
        <5>2. j \notin DOMAIN queue
          BY <3>3, <3>4, <3>6, <5>1
        <5>3. j - Len(queue) \in DOMAIN s /\ queue'[j] = s[j - Len(queue)]
          BY <3>3, <5>2
        <5>4. i - Len(queue) < j - Len(queue)
          BY <3>3, <3>4, <3>6
        <5> QED
          BY <1>1, <3>2, <5>1, <5>3, <5>4
      <4> QED
        BY <4>1, <4>2, <4>3
    <3> QED
      BY <1>3, <1>4, <3>5, <3>6 DEF ChannelOrdered
  <2> QED
    BY <2>1, <2>2 DEF ChainGrows, Notify
<1> QED
  BY <1>3, <1>4, <1>5, <1>8, <1>9, <1>10, <1>11, <1>15 DEF OrderOK, InRunOnce

LEMMA ChainKeepsIInv ==
  ASSUME IInv, TypeOK', ChainGrows \/ ChainReorganises
  PROVE  IInv'
<1> USE DEF IInv
<1>1. Situated'
  <2>1. head \in Int /\ head' \in Int /\ head <= head' /\ last \in Int /\ to \in Int
    <3>1. ChainTypeOK' /\ head <= head'
      BY ChainKeepsTypes
    <3>2. ChainTypeOK /\ last \in Int /\ to \in Int
      BY ChainAssumption DEF TypeOK, ListenerTypeOK
    <3> QED
      BY <3>1, <3>2, ChainAssumption DEF ChainTypeOK
  <2>2. UNCHANGED <<pc, cursor, to, last, connected>>
    BY DEF ChainGrows, ChainReorganises, procVars
  <2>3. ~connected => queue' = queue
    BY DEF ChainGrows, ChainReorganises, Notify
  <2> QED
    BY <2>1, <2>2, <2>3 DEF Situated
<1>2. KnowledgeOK'
  BY ChainKeepsKnowledge
<1>3. reorgs' = 0 => reorgs = 0 /\ ChainGrows
  BY DEF ChainGrows, ChainReorganises, TypeOK
<1> QED
  BY <1>1, <1>2, <1>3, MiningKeepsOrder

LEMMA NextIInv == IInv /\ [Next]_vars => IInv'
<1> SUFFICES ASSUME IInv, [Next]_vars
             PROVE  IInv'
  OBVIOUS
<1>1. TypeOK'
  BY NextTypeOK DEF IInv
<1>2. CASE Setup \/ Backfill \/ RetryLater
  BY <1>1, <1>2, SetupKeepsIInv, SubscribeKeepsIInv, HandleKeepsIInv, MarkKeepsIInv
  DEF Setup, Backfill
<1>3. CASE LiveHandled \/ LiveFailed \/ LiveMarked
  BY <1>1, <1>3, LiveKeepsIInv, LiveMarkedKeepsIInv
<1>4. CASE LiveEnds
  <2>1. pc' \in {"backoff", "stopped"} /\ UNCHANGED <<chainVars, storeVars, failed>>
    BY <1>4 DEF LiveEnds, Goto, AfterRunOnce
  <2> QED
    BY <1>1, <1>4, <2>1, DropKeepsIInv DEF LiveEnds
<1>5. CASE Done
  <2>1. CASE Goto("live", "stopped") /\ DropQueue
    BY <1>1, <2>1, DropKeepsIInv DEF Goto
  <2>2. CASE Goto("backoff", "stopped") /\ UNCHANGED socketVars
    BY <1>1, <2>2, CancelKeepsIInv
  <2> QED
    BY <1>5, <2>1, <2>2 DEF Done
<1>6. CASE Restart \/ Crash
  <2>1. DropQueue /\ pc' = "dial" /\ UNCHANGED <<chainVars, storeVars, failed>>
    BY <1>6 DEF Restart, Crash, FreshProcess
  <2> QED
    BY <1>1, <2>1, DropKeepsIInv
<1>7. CASE ChainGrows \/ ChainReorganises
  BY <1>1, <1>7, ChainKeepsIInv
<1>8. CASE Break
  BY <1>1, <1>8, BreakKeepsIInv
<1>9. CASE CancelRun
  BY <1>1, <1>9, CancelKeepsIInv
<1>10. CASE SettleLate \/ UNCHANGED vars
  BY <1>1, <1>10, SettleKeepsIInv
<1> QED
  BY <1>2, <1>3, <1>4, <1>5, <1>6, <1>7, <1>8, <1>9, <1>10 DEF Next, Live

-----------------------------------------------------------------------------
(* The theorems.                                                           *)

\* The invariant behind all that follows: what runOnce, the statements on their
\* way and the channel know of the chain (websocket.go:45-110).
THEOREM Inductive == Spec => []IInv
<1>1. Init => IInv
  BY InitIInv
<1>2. IInv /\ [Next]_vars => IInv'
  BY NextIInv
<1> QED
  BY <1>1, <1>2, PTL DEF Spec

\* Every variable keeps its type.
THEOREM TypeCorrect == Spec => []TypeOK
<1>1. IInv => TypeOK
  BY DEF IInv
<1> QED
  BY <1>1, Inductive, PTL

\* Whatever crashes, reorganises, is cancelled, committed late or disconnected:
\* an accepted log at or below the checkpoint is stored, failed, in the channel,
\* or lost in one of the three ways websocket.go has of losing one.
THEOREM LossesAccounted == Spec => []LossAccounted
<1>1. IInv => LossAccounted
  BY DEF IInv, KnowledgeOK, Marks, Known, LossAccounted
<1> QED
  BY <1>1, Inductive, PTL

\* Without reorganisations a log that a disconnection lost below the checkpoint
\* shares its block with one that was handled (websocket.go:96-107).
THEOREM TornIsShared == Spec => []TornSharesBlock
<1>1. IInv => TornSharesBlock
  BY DEF IInv, OrderOK, Marks, Shared, TornSharesBlock
<1> QED
  BY <1>1, Inductive, PTL

\* Without reorganisations the checkpoint never passes the block of a log that
\* is still in the channel (websocket.go:100-107).
THEOREM ChannelAhead == Spec => []ChannelNotPassed
<1>1. IInv => ChannelNotPassed
  <2> SUFFICES ASSUME IInv, reorgs = 0, NEW i \in DOMAIN queue
               PROVE  queue[i].block >= checkpoint
    BY DEF ChannelNotPassed
  <2>1. checkpoint <= queue[i].block
    BY DEF IInv, OrderOK, ChannelOrdered, Marks
  <2>2. checkpoint \in Int /\ queue[i].block \in Int
    <3>1. queue[i] \in Row
      BY DEF IInv, TypeOK
    <3> QED
      BY <3>1, ChainAssumption DEF IInv, TypeOK, ListenerTypeOK, Row, NoRow
  <2> QED
    BY <2>1, <2>2
<1> QED
  BY <1>1, Inductive, PTL

\* No step of the subscribing listener, nor a late statement, takes the
\* checkpoint back (db.go:82).
THEOREM NeverBack == Spec => CheckpointMonotone
<1>1. TypeOK /\ [Next]_vars => [checkpoint' >= checkpoint]_checkpoint
  <2> SUFFICES ASSUME TypeOK, [Next]_vars, checkpoint' # checkpoint
               PROVE  checkpoint' >= checkpoint
    OBVIOUS
  <2>1. \E b \in 0..MaxBlock : checkpoint' = Raised(b)
    <3>1. CASE MarkBackfilled
      BY <3>1 DEF MarkBackfilled, Mark, MarkOk, MarkFails, MarkAbandons, SaveCheckpoint,
                  AbandonCheckpoint, storeVars, TypeOK, ListenerTypeOK
    <3>2. CASE LiveMarked
      BY <3>2 DEF LiveMarked, SaveCheckpoint, AbandonCheckpoint, storeVars, TypeOK, ListenerTypeOK
    <3>3. CASE SettleLate
      BY <3>3 DEF SettleLate, SettleStep, Settle, SettleEvent, SettleCheckpoint,
                  TypeOK, ListenerTypeOK
    <3>4. CASE HandleBackfilled
      <4>1. \E r \in Row : HandleReturnsNil(r) \/ HandleReturnsError(r)
        BY <3>4 DEF HandleBackfilled, HandleNext, TypeOK, ListenerTypeOK
      <4> QED
        BY <4>1, HandleEffect DEF TypeOK
    <3>5. CASE LiveHandled \/ LiveFailed
      <4>1. \E r \in Row : HandleReturnsNil(r) \/ HandleReturnsError(r)
        BY <3>5 DEF LiveHandled, LiveFailed
      <4> QED
        BY <4>1, HandleEffect DEF TypeOK
    <3>6. CASE Setup \/ FilterOk \/ LiveEnds \/ Done \/ RetryLater \/ CancelRun
      BY <3>6 DEF Setup, DialOk, LoadOk, Load, HeadOk, SubscribeOk, SetupFails, FilterOk,
                  LiveEnds, Done, RetryLater, CancelRun, Cancel, Goto, storeVars
    <3>7. CASE ChainGrows \/ ChainReorganises \/ Break \/ Restart \/ Crash \/ UNCHANGED vars
      BY <3>7 DEF ChainGrows, ChainReorganises, Break, Restart, Crash, FreshProcess, vars,
                  listenerVars, storeVars
    <3> QED
      BY <3>1, <3>2, <3>3, <3>4, <3>5, <3>6, <3>7 DEF Next, Backfill, Live
  <2> QED
    BY <2>1, RaisedIsMax DEF TypeOK, ListenerTypeOK
<1> QED
  BY <1>1, TypeCorrect, PTL DEF Spec, CheckpointMonotone
=============================================================================

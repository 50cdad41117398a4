--------------------------- MODULE ListenerProofs ---------------------------
(***************************************************************************)
(* Facts about the chain, the store and the configuration that the proofs  *)
(* about both listeners use.                                               *)
(***************************************************************************)
EXTENDS Listener, TLAPS

-----------------------------------------------------------------------------
(* The configuration.                                                      *)

\* minStart is the least start_block (poller.go:34-41).
LEMMA MinStartIsLeast ==
  MinStart \in StartBlocks /\ MinStart \in Nat
BY ConfigAssumption DEF MinStart

LEMMA BatchIsPositive == Batch \in Nat \ {0}
BY ConfigAssumption DEF Batch

\* A range is not empty and ends at or below the block it is clamped to.
LEMMA RangeEndInRange ==
  ASSUME NEW safe \in 0..MaxBlock, cursor \in Nat, cursor <= safe
  PROVE  RangeEnd(cursor, safe) \in cursor..safe
<1>1. cursor + Batch - 1 \in cursor..MaxUint64
  BY BatchIsPositive, BatchAssumption, ChainAssumption, ConfigAssumption
<1> QED
  BY <1>1, ChainAssumption DEF RangeEnd

-----------------------------------------------------------------------------
(* The store.                                                              *)

\* The INSERT keeps the table's type and makes its log present.
LEMMA InsertedRow ==
  ASSUME events \in Seq(Row), NEW r \in Row, events' = Inserted(r)
  PROVE  /\ events' \in Seq(Row)
         /\ Recorded' = Recorded \cup {r.log}
         /\ events' = events \/ (r.log \notin Recorded /\ events' = Append(events, r))
<1>1. CASE r.log \in Recorded
  BY <1>1 DEF Inserted, Recorded
<1>2. CASE r.log \notin Recorded
  <2>1. events' = Append(events, r)
    BY <1>2 DEF Inserted
  <2>2. events' \in Seq(Row)
    BY <2>1
  <2>3. /\ DOMAIN events' = DOMAIN events \cup {Len(events) + 1}
        /\ \A i \in DOMAIN events : events'[i] = events[i]
        /\ events'[Len(events) + 1] = r
    BY <2>1
  <2>4. Recorded' = Recorded \cup {r.log}
    BY <2>3 DEF Recorded
  <2> QED
    BY <1>2, <2>1, <2>2, <2>4
<1> QED
  BY <1>1, <1>2

\* The upsert never lowers last_block.
LEMMA RaisedIsMax ==
  ASSUME checkpoint \in 0..MaxBlock \cup {NoRow}, NEW b \in 0..MaxBlock
  PROVE  /\ Raised(b) \in 0..MaxBlock
         /\ Raised(b) >= checkpoint
         /\ Raised(b) \in {b, checkpoint}
BY ChainAssumption DEF Raised, NoRow

-----------------------------------------------------------------------------
(* The chain.                                                              *)

LEMMA LogRowType ==
  ASSUME ChainTypeOK, NEW l \in Log, Mined(l)
  PROVE  LogRow(l) \in Row
BY ChainAssumption DEF ChainTypeOK, Mined, NoBlock, LogRow, Row

LEMMA ChainNextTypeOK ==
  ASSUME ChainTypeOK, ChainNext
  PROVE  ChainTypeOK'
<1>1. CASE Mine
  BY <1>1, ChainAssumption DEF Mine, ChainTypeOK, Mined, NoBlock
<1>2. CASE Reorg
  BY <1>2, ChainAssumption DEF Reorg, Rearranged, ChainTypeOK, Mined, NoBlock
<1> QED
  BY <1>1, <1>2 DEF ChainNext
=============================================================================

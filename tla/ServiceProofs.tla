---------------------------- MODULE ServiceProofs ----------------------------
(***************************************************************************)
(* Proofs about Service, for any number of chains: the store is usable     *)
(* whenever a listener is in it, and main leaves nobody behind.            *)
(***************************************************************************)
EXTENDS Service, FiniteSetTheorems, TLAPS

-----------------------------------------------------------------------------
(* The chains and their goroutines.                                        *)

LEMMA ChainsAreFinite ==
  /\ DOMAIN Chains = 1..Len(Chains) /\ Len(Chains) \in Nat \ {0}
  /\ IsFiniteSet(ChainSet) /\ Cardinality(ChainSet) <= Len(Chains)
<1>1. DOMAIN Chains = 1..Len(Chains) /\ Len(Chains) \in Nat \ {0}
  BY ChainsAssumption
<1>2. Chains \in Surjection(1..Len(Chains), ChainSet)
  BY <1>1, ChainsAssumption DEF Surjection, ChainSet
<1>3. IsFiniteSet(1..Len(Chains)) /\ Cardinality(1..Len(Chains)) = Len(Chains)
  BY <1>1, FS_Interval
<1> QED
  BY <1>1, <1>2, <1>3, FS_Surjection

LEMMA RunningIsFinite ==
  /\ IsFiniteSet(Running)
  /\ Cardinality(Running) \in 0..Len(Chains)
  /\ Cardinality(Running) = 0 <=> Running = {}
<1>1. Running \subseteq ChainSet
  BY DEF Running
<1>2. IsFiniteSet(Running) /\ Cardinality(Running) <= Cardinality(ChainSet)
  BY <1>1, ChainsAreFinite, FS_Subset
<1>3. Cardinality(Running) \in Nat /\ Cardinality(ChainSet) \in Nat
  BY <1>2, ChainsAreFinite, FS_CardinalityType
<1> QED
  BY <1>2, <1>3, ChainsAreFinite, FS_EmptySet

\* A goroutine that runs was started.
LEMMA RunningMeansStarted ==
  ASSUME TypeOK, Counted, NEW c \in ChainSet, listener[c] # "none"
  PROVE  next > 1
<1>1. PICK i \in DOMAIN Chains : c = Chains[i]
  BY DEF ChainSet
<1>2. i \in 1..Len(Chains) /\ ~(i >= next)
  BY <1>1, ChainsAreFinite DEF Counted
<1> QED
  BY <1>2 DEF TypeOK

-----------------------------------------------------------------------------
(* The inductive invariant.                                                *)

LEMMA InitIInv == Init => IInv
<1> SUFFICES ASSUME Init
             PROVE  IInv
  OBVIOUS
<1>1. \A i \in DOMAIN Chains : Chains[i] \in ChainSet /\ i >= next
  BY ChainsAreFinite DEF Init, ChainSet
<1>2. Running = {} /\ waiting = Cardinality(Running)
  BY RunningIsFinite DEF Init, Running
<1>3. Counted
  BY <1>1, <1>2 DEF Init, Counted
<1>4. next \in 1..(Len(Chains) + 1) /\ waiting \in 0..Len(Chains) /\ ~(next > 1)
  BY ChainsAreFinite DEF Init
<1>5. TypeOK
  BY <1>4 DEF Init, TypeOK, Points
<1>6. InSequence
  BY <1>4 DEF Init, InSequence
<1> QED
  BY <1>3, <1>5, <1>6 DEF IInv

\* Steps of main that start no goroutine, and the signal.
LEMMA MainKeepsIInv ==
  ASSUME IInv, UNCHANGED <<next, listener, waiting>>,
         \/ LoadConfig \/ OpenStore \/ MigrateStore \/ NewProcessor \/ SetupFails
         \/ RefuseChain \/ AllStarted \/ ReceiveSignal \/ CancelContext
         \/ WaitForListeners \/ CloseStore \/ Signal
  PROVE  IInv'
<1> USE DEF IInv
<1>1. TypeOK'
  BY DEF TypeOK, LoadConfig, OpenStore, MigrateStore, NewProcessor, SetupFails, Fatal,
         RefuseChain, AllStarted, ReceiveSignal, CancelContext, WaitForListeners, CloseStore,
         Signal, Points
<1>2. Counted'
  BY DEF Counted, Running
<1>3. InSequence'
  BY ChainsAreFinite
  DEF TypeOK, InSequence, LoadConfig, OpenStore, MigrateStore, NewProcessor, SetupFails, Fatal,
      RefuseChain, AllStarted, ReceiveSignal, CancelContext, WaitForListeners, CloseStore, Signal
<1> QED
  BY <1>1, <1>2, <1>3

\* wg.Add(1) comes with a goroutine that was not there.
LEMMA StartKeepsIInv ==
  ASSUME IInv, StartListener
  PROVE  IInv'
<1> USE DEF IInv
<1> DEFINE c == Chains[next]
<1>1. /\ main = "start" /\ next \in DOMAIN Chains /\ c \in ChainSet
      /\ waiting' = waiting + 1 /\ next' = next + 1
      /\ listener' = [listener EXCEPT ![c] = "idle"]
      /\ UNCHANGED <<main, pool, migrated, cancelled, signalled>>
  BY ChainsAreFinite DEF StartListener, TypeOK, ChainSet
<1>2. listener \in [ChainSet -> {"none", "idle", "store", "returned"}] /\ next \in Nat
  BY DEF TypeOK
<1>3. listener[c] = "none"
  BY <1>1, <1>2 DEF Counted
<1>4. Running' = Running \cup {c} /\ c \notin Running
  BY <1>1, <1>2, <1>3 DEF Running
<1>5. Cardinality(Running') = Cardinality(Running) + 1
  BY <1>4, RunningIsFinite, FS_AddElement
<1>6. IsFiniteSet(Running') /\ Cardinality(Running') \in 0..Len(Chains)
  <2>1. Running' \subseteq ChainSet
    BY <1>1, <1>4 DEF Running
  <2>2. IsFiniteSet(Running') /\ Cardinality(Running') <= Cardinality(ChainSet)
    BY <2>1, ChainsAreFinite, FS_Subset
  <2>3. Cardinality(Running') \in Nat /\ Cardinality(ChainSet) \in Nat
    BY <2>2, ChainsAreFinite, FS_CardinalityType
  <2> QED
    BY <2>2, <2>3, ChainsAreFinite
<1>7. \A i \in DOMAIN Chains : listener'[Chains[i]] = "none" <=> i >= next'
  <2> SUFFICES ASSUME NEW i \in DOMAIN Chains
               PROVE  listener'[Chains[i]] = "none" <=> i >= next + 1
    BY <1>1
  <2>1. i \in Nat /\ Chains[i] \in ChainSet /\ (Chains[i] = c <=> i = next)
    BY <1>1, ChainsAreFinite, ChainsAssumption DEF ChainSet
  <2>2. listener'[Chains[i]] = IF i = next THEN "idle" ELSE listener[Chains[i]]
    BY <1>1, <1>2, <2>1
  <2> QED
    BY <1>2, <2>1, <2>2 DEF Counted
<1>8. Counted'
  BY <1>1, <1>5, <1>7 DEF Counted
<1>9. TypeOK'
  BY <1>1, <1>2, <1>5, <1>6, ChainsAreFinite DEF TypeOK, Counted
<1>10. InSequence'
  BY <1>1, <1>2 DEF InSequence
<1> QED
  BY <1>8, <1>9, <1>10

\* wg.Done comes once, with the end of a goroutine.
LEMMA GoroutineKeepsIInv ==
  ASSUME IInv, NEW c \in ChainSet, EnterStore(c) \/ LeaveStore(c) \/ Return(c)
  PROVE  IInv'
<1> USE DEF IInv
<1>1. PICK state \in {"idle", "store", "returned"} :
        /\ listener[c] \in {"idle", "store"}
        /\ listener' = [listener EXCEPT ![c] = state]
        /\ waiting' = IF state = "returned" THEN waiting - 1 ELSE waiting
        /\ main \notin {"exited", "fatal", "killed"}
        /\ UNCHANGED <<main, next, pool, migrated, cancelled, signalled>>
  BY DEF EnterStore, LeaveStore, Return, Set, Gone
<1>2. listener \in [ChainSet -> {"none", "idle", "store", "returned"}] /\ next \in Nat
  BY DEF TypeOK
<1>3. c \in Running /\ Running' = IF state = "returned" THEN Running \ {c} ELSE Running
  BY <1>1, <1>2 DEF Running
<1>4. /\ Cardinality(Running') = IF state = "returned" THEN Cardinality(Running) - 1
                                 ELSE Cardinality(Running)
      /\ Cardinality(Running) # 0
  BY <1>3, RunningIsFinite, FS_RemoveElement
<1>5. \A i \in DOMAIN Chains : listener'[Chains[i]] = "none" <=> i >= next'
  <2> SUFFICES ASSUME NEW i \in DOMAIN Chains
               PROVE  listener'[Chains[i]] = "none" <=> listener[Chains[i]] = "none"
    BY <1>1 DEF Counted
  <2>1. Chains[i] \in ChainSet
    BY DEF ChainSet
  <2> QED
    BY <1>1, <1>2, <2>1
<1>6. Counted'
  BY <1>1, <1>4, <1>5 DEF Counted
<1>7. TypeOK'
  BY <1>1, <1>2, <1>4, RunningIsFinite, ChainsAreFinite DEF TypeOK, Counted
<1>8. InSequence'
  BY <1>1, <1>4 DEF InSequence, Counted
<1> QED
  BY <1>6, <1>7, <1>8

LEMMA NextIInv == IInv /\ [Next]_vars => IInv'
<1> SUFFICES ASSUME IInv, [Next]_vars
             PROVE  IInv'
  OBVIOUS
<1>1. CASE StartListener
  BY <1>1, StartKeepsIInv
<1>2. CASE Main /\ ~StartListener
  BY <1>2, MainKeepsIInv
  DEF Main, LoadConfig, OpenStore, MigrateStore, NewProcessor, SetupFails, Fatal, RefuseChain,
      AllStarted, ReceiveSignal, CancelContext, WaitForListeners, CloseStore
<1>3. CASE Signal
  BY <1>3, MainKeepsIInv DEF Signal
<1>4. CASE \E c \in ChainSet : EnterStore(c) \/ LeaveStore(c) \/ Return(c)
  BY <1>4, GoroutineKeepsIInv
<1>5. CASE UNCHANGED vars
  BY <1>5 DEF vars, IInv, TypeOK, Counted, Running, InSequence
<1> QED
  BY <1>1, <1>2, <1>3, <1>4, <1>5 DEF Next, Terminated

-----------------------------------------------------------------------------
(* The theorems.                                                           *)

\* main's order and wg's counter agree with what the goroutines do.
THEOREM Inductive == Spec => []IInv
BY InitIInv, NextIInv, PTL DEF Spec

\* wg's counter is never negative, nor above the number of chains.
THEOREM TypeCorrect == Spec => []TypeOK
<1>1. IInv => TypeOK
  BY DEF IInv
<1> QED
  BY <1>1, Inductive, PTL

\* However main and the goroutines interleave, a listener in the store finds
\* the pool open and the tables there (main.go:34-39, 66-68).
THEOREM StoreStaysUsable == Spec => []StoreUsable
<1>1. IInv => StoreUsable
  <2> SUFFICES ASSUME IInv, NEW c \in ChainSet, listener[c] = "store"
               PROVE  pool = "open" /\ migrated
    BY DEF StoreUsable
  <2>1. next > 1
    BY RunningMeansStarted DEF IInv
  <2>2. waiting # 0
    BY RunningIsFinite DEF IInv, Counted, Running
  <2> QED
    BY <2>1, <2>2 DEF IInv, InSequence
<1> QED
  BY <1>1, Inductive, PTL

\* When main has said bye, every listener of every chain has returned and the
\* pool is closed (main.go:53-68).
THEOREM NobodyLeftBehind == Spec => []CleanExit
<1>1. IInv => CleanExit
  <2> SUFFICES ASSUME IInv, main = "exited"
               PROVE  pool = "closed" /\ \A c \in ChainSet : listener[c] = "returned"
    BY DEF CleanExit
  <2>1. pool = "closed" /\ Running = {} /\ next = Len(Chains) + 1
    BY RunningIsFinite DEF IInv, InSequence, Counted
  <2>2. ASSUME NEW c \in ChainSet
        PROVE  listener[c] = "returned"
    <3>1. PICK i \in DOMAIN Chains : c = Chains[i]
      BY DEF ChainSet
    <3>2. listener[c] # "none"
      BY <2>1, <3>1, ChainsAreFinite DEF IInv, Counted
    <3>3. listener[c] \notin {"idle", "store"}
      BY <2>1 DEF Running
    <3> QED
      BY <3>2, <3>3 DEF IInv, TypeOK
  <2> QED
    BY <2>1, <2>2
<1> QED
  BY <1>1, Inductive, PTL
=============================================================================

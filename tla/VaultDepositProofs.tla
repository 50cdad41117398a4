------------------------- MODULE VaultDepositProofs -------------------------
(***************************************************************************)
(* Proofs about VaultDeposit, for any number of deposits and workers and   *)
(* however often a deposit is handed over: which document, which transfer  *)
(* and which position belong together, through deaths and refused calls.   *)
(***************************************************************************)
EXTENDS VaultDeposit, FiniteSetTheorems, TLAPS

Worked(w) == Step(w) \/ MinedUnknown(w) \/ \E d \in Deposit : Begin(w, d)

\* What one step of worker w does to the workers.
Alone(w) ==
  \A v \in Worker \ {w} : at'[v] = at[v] /\ job'[v] = job[v] /\ hash'[v] = hash[v]

-----------------------------------------------------------------------------
(* Types.                                                                  *)

\* A worker that is busy has a deposit.
LEMMA BusyHasJob ==
  ASSUME TypeOK, NEW w \in Worker, at[w] # "idle"
  PROVE  job[w] \in Deposit
BY DEF TypeOK, Shape

\* Where a step takes its worker.
LEMMA WorkedControl ==
  ASSUME TypeOK, NEW w \in Worker, Worked(w)
  PROVE  /\ \E p \in Call : at' = [at EXCEPT ![w] = p]
         /\ \/ UNCHANGED job
            \/ job' = [job EXCEPT ![w] = NoDeposit] /\ at'[w] = "idle"
            \/ at[w] = "idle" /\ at'[w] = "check" /\ \E d \in Deposit : job' = [job EXCEPT ![w] = d]
         /\ at[w] # "idle" => (at'[w] = "idle" <=> job'[w] = NoDeposit)
         /\ \/ UNCHANGED hash
            \/ hash' = [hash EXCEPT ![w] = 0]
            \/ at[w] = "transact" /\ hash' = [hash EXCEPT ![w] = Len(sent[job[w]]) + 1]
<1> USE DEF Goes, Proceed, Finish
<1>0. at \in [Worker -> Call] /\ job \in [Worker -> Deposit \cup {NoDeposit}]
  BY DEF TypeOK, Shape
<1>1. CASE \E d \in Deposit : Begin(w, d)
  BY <1>0, <1>1 DEF Begin, Call
<1>2. ASSUME NEW from \in Call \ {"idle"}, Finish(w, from)
      PROVE  /\ at' = [at EXCEPT ![w] = "idle"] /\ at'[w] = "idle"
             /\ job' = [job EXCEPT ![w] = NoDeposit] /\ job'[w] = NoDeposit
             /\ hash' = [hash EXCEPT ![w] = 0]
  BY <1>0, <1>2
<1>3. ASSUME NEW from \in Call \ {"idle"}, NEW p \in Call \ {"idle"}, Goes(w, from, p),
             UNCHANGED job
      PROVE  /\ at' = [at EXCEPT ![w] = p] /\ at'[w] # "idle"
             /\ job'[w] # NoDeposit
  BY <1>0, <1>3 DEF TypeOK
<1>4. CASE Skip(w) \/ Undecodable(w) \/ CreateFails(w) \/ Update(w)
  <2>1. \E from \in {"check", "create", "update"} : Finish(w, from)
    BY <1>4 DEF Skip, Undecodable, CreateFails, Update
  <2> QED
    BY <1>2, <2>1 DEF Call
<1>5. CASE Check(w) \/ Create(w) \/ TransferFails(w) \/ BalanceSuffices(w) \/ MinedOk(w)
           \/ MinedUnknown(w)
  <2>1. \E from \in {"check", "create", "balance", "transact", "mined"} :
          \E p \in {"create", "balance", "position", "transact"} : Proceed(w, from, p)
    BY <1>5 DEF Check, FoundNothing, FoundError, Create, TransferFails, BalanceSuffices,
                MinedOk, MinedUnknown
  <2> QED
    BY <1>3, <2>1 DEF Call
<1>6. CASE Transact(w) \/ MinedBad(w)
  BY <1>3, <1>6 DEF Transact, MinedBad, Call
<1>7. CASE MakePosition(w)
  <2>1. Proceed(w, "position", "update") \/ Finish(w, "position")
    BY <1>7 DEF MakePosition, AfterPosition
  <2> QED
    BY <1>2, <1>3, <2>1 DEF Call
<1> QED
  BY <1>1, <1>4, <1>5, <1>6, <1>7 DEF Worked, Step

\* What a step does to the data of its deposit.
LEMMA WorkedData ==
  ASSUME TypeOK, NEW w \in Worker, Worked(w), at[w] # "idle"
  PROVE  /\ UNCHANGED <<runs, balance>>
         /\ docs' = docs \/ docs' = [docs EXCEPT ![job[w]] = @ + 1]
         /\ \/ logged' = logged
            \/ \E stage \in {"decoding", "saving", "transfer", "processing"} : Log(job[w], stage)
         /\ \/ position' = position
            \/ position' = WithPosition(job[w])
            \/ position' = [position EXCEPT ![job[w]] = "confirmed"]
         /\ sent' \in MaybeSent(job[w])
         /\ \/ excuse' = excuse
            \/ \E what \in {"blind", "raced", "no receipt"} : Excuse(job[w], what)
<1>1. CASE \E d \in Deposit : Begin(w, d)
  BY <1>1 DEF Begin, Goes
<1>2. CASE Skip(w) \/ BalanceSuffices(w) \/ MinedOk(w)
  BY <1>2 DEF Skip, BalanceSuffices, MinedOk, MaybeSent
<1>3. CASE Check(w) \/ MinedUnknown(w)
  BY <1>3 DEF Check, FoundNothing, FoundError, MinedUnknown, MaybeSent
<1>4. CASE Undecodable(w) \/ CreateFails(w) \/ Create(w)
  BY <1>4 DEF Undecodable, CreateFails, Create, MaybeSent
<1>5. CASE TransferFails(w) \/ MinedBad(w) \/ Transact(w)
  BY <1>5 DEF TransferFails, MinedBad, Transact, MaybeSent
<1>6. CASE MakePosition(w) \/ Update(w)
  BY <1>6 DEF MakePosition, Update, MaybeSent
<1> QED
  BY <1>1, <1>2, <1>3, <1>4, <1>5, <1>6 DEF Worked, Step

LEMMA WorkedShape ==
  ASSUME TypeOK, NEW w \in Worker, Worked(w)
  PROVE  /\ Shape' /\ Alone(w)
         /\ at'[w] = "idle" <=> job'[w] = NoDeposit
<1>1. Shape
  BY DEF TypeOK
<1>2. at' \in [Worker -> Call] /\ \A v \in Worker \ {w} : at'[v] = at[v]
  <2>1. \E p \in Call : at' = [at EXCEPT ![w] = p]
    BY WorkedControl
  <2>2. at \in [Worker -> Call]
    BY <1>1 DEF Shape
  <2> QED
    BY <2>1, <2>2
<1>3. /\ job' \in [Worker -> Deposit \cup {NoDeposit}]
      /\ \A v \in Worker \ {w} : job'[v] = job[v]
  <2>1. \/ job' = job
        \/ job' = [job EXCEPT ![w] = NoDeposit]
        \/ \E d \in Deposit : job' = [job EXCEPT ![w] = d]
    BY WorkedControl
  <2>2. job \in [Worker -> Deposit \cup {NoDeposit}]
    BY <1>1 DEF Shape
  <2> QED
    BY <2>1, <2>2
<1>4. hash' \in [Worker -> Nat] /\ \A v \in Worker \ {w} : hash'[v] = hash[v]
  <2>1. \/ hash' = hash
        \/ hash' = [hash EXCEPT ![w] = 0]
        \/ at[w] = "transact" /\ hash' = [hash EXCEPT ![w] = Len(sent[job[w]]) + 1]
    BY WorkedControl
  <2>2. at[w] = "transact" => Len(sent[job[w]]) + 1 \in Nat
    <3>1. at[w] = "transact" => job[w] \in Deposit
      BY BusyHasJob
    <3>2. sent \in [Deposit -> Seq({"pending", "mined", "failed", "dropped"})]
      BY <1>1 DEF Shape
    <3>3. \A d \in Deposit : Len(sent[d]) \in Nat
      BY <3>2
    <3> QED
      BY <3>1, <3>3
  <2>3. hash \in [Worker -> Nat]
    BY <1>1 DEF Shape
  <2> QED
    BY <2>1, <2>2, <2>3
<1>5. CASE at[w] = "idle"
  <2>1. PICK d \in Deposit : Begin(w, d)
    BY <1>5 DEF Worked, Step, Skip, Check, FoundNothing, FoundError, Undecodable, CreateFails,
                Create, TransferFails, BalanceSuffices, Transact, MinedOk, MinedBad, MinedUnknown,
                MakePosition, AfterPosition, Update, Finish, Proceed, Goes
  <2>2. at'[w] = "check" /\ job'[w] = d
    BY <1>1, <2>1 DEF Begin, Goes, Shape
  <2>3. runs' \in [Deposit -> Nat]
    <3>1. runs \in [Deposit -> Nat] /\ runs' = [runs EXCEPT ![d] = @ + 1]
      BY <1>1, <2>1 DEF Begin, Shape
    <3> QED
      BY <3>1
  <2> QED
    BY <1>1, <1>2, <1>3, <1>4, <2>1, <2>2, <2>3, DepositAssumption DEF Begin, Alone, Shape
<1>6. CASE at[w] # "idle"
  <2> DEFINE d == job[w]
  <2>1. d \in Deposit
    BY <1>6, BusyHasJob
  <2>2. /\ UNCHANGED <<runs, balance>>
        /\ docs' = docs \/ docs' = [docs EXCEPT ![d] = @ + 1]
    BY <1>6, WorkedData
  <2>3. docs' \in [Deposit -> Nat]
    <3>1. docs \in [Deposit -> Nat]
      BY <1>1 DEF Shape
    <3> QED
      BY <2>1, <2>2, <3>1
  <2>4. logged' \in [Deposit -> SUBSET {"decoding", "saving", "transfer", "processing"}]
    <3>1. \/ logged' = logged
          \/ \E stage \in {"decoding", "saving", "transfer", "processing"} : Log(d, stage)
      BY <1>6, WorkedData
    <3>2. logged \in [Deposit -> SUBSET {"decoding", "saving", "transfer", "processing"}]
      BY <1>1 DEF Shape
    <3> QED
      BY <2>1, <3>1, <3>2 DEF Log
  <2>5. position' \in [Deposit -> {"none", "active", "confirmed"}]
    <3>1. \/ position' = position
          \/ position' = WithPosition(d)
          \/ position' = [position EXCEPT ![d] = "confirmed"]
      BY <1>6, WorkedData
    <3>2. position \in [Deposit -> {"none", "active", "confirmed"}]
      BY <1>1 DEF Shape
    <3> QED
      BY <2>1, <3>1, <3>2 DEF WithPosition
  <2>6. sent' \in [Deposit -> Seq({"pending", "mined", "failed", "dropped"})]
    <3>1. sent' \in MaybeSent(d)
      BY <1>6, WorkedData
    <3> DEFINE All == {"pending", "mined", "failed", "dropped"}
    <3>2. sent' = sent \/ sent' = [sent EXCEPT ![d] = Append(@, "pending")]
      BY <3>1 DEF MaybeSent
    <3>3. sent \in [Deposit -> Seq(All)] /\ "pending" \in All
      BY <1>1 DEF Shape
    <3> HIDE DEF All
    <3>4. sent' \in [Deposit -> Seq(All)]
      <4>1. Append(sent[d], "pending") \in Seq(All)
        BY <2>1, <3>3
      <4> QED
        BY <2>1, <3>2, <3>3, <4>1
    <3> QED
      BY <3>4 DEF All
  <2>7. excuse' \in [Deposit -> SUBSET {"blind", "raced", "died", "no receipt"}]
    <3>1. \/ excuse' = excuse
          \/ \E what \in {"blind", "raced", "no receipt"} : Excuse(d, what)
      BY <1>6, WorkedData
    <3> DEFINE All == {"blind", "raced", "died", "no receipt"}
    <3>2. excuse' = excuse \/ \E what \in All : excuse' = [excuse EXCEPT ![d] = @ \cup {what}]
      BY <3>1 DEF Excuse
    <3>3. excuse \in [Deposit -> SUBSET All]
      BY <1>1 DEF Shape
    <3> HIDE DEF All
    <3>4. excuse' \in [Deposit -> SUBSET All]
      BY <2>1, <3>2, <3>3
    <3> QED
      BY <3>4 DEF All
  <2>8. at'[w] = "idle" <=> job'[w] = NoDeposit
    BY <1>6, WorkedControl
  <2> QED
    BY <1>1, <1>2, <1>3, <1>4, <2>2, <2>3, <2>4, <2>5, <2>6, <2>7, <2>8 DEF Shape, Alone
<1> QED
  BY <1>5, <1>6

-----------------------------------------------------------------------------
(* Counting workers.                                                       *)

LEMMA WithinIsFinite ==
  ASSUME NEW d, NEW calls
  PROVE  /\ IsFiniteSet(Within(d, calls))
         /\ Cardinality(Within(d, calls)) \in Nat
         /\ Cardinality(Within(d, calls)) = 0 <=> Within(d, calls) = {}
<1>1. Within(d, calls) \subseteq Worker
  BY DEF Within
<1>2. IsFiniteSet(Within(d, calls))
  BY <1>1, DepositAssumption, FS_Subset
<1> QED
  BY <1>2, FS_CardinalityType, FS_EmptySet

\* Two finite sets that agree but for one element.
LEMMA OneMore ==
  ASSUME NEW S, NEW T, NEW w, IsFiniteSet(S), \A v : v # w => (v \in S <=> v \in T)
  PROVE  Cardinality(T) = IF w \in S
                          THEN IF w \in T THEN Cardinality(S) ELSE Cardinality(S) - 1
                          ELSE IF w \in T THEN Cardinality(S) + 1 ELSE Cardinality(S)
<1>1. CASE w \in S /\ w \notin T
  <2>1. T = S \ {w}
    BY <1>1
  <2> QED
    BY <1>1, <2>1, FS_RemoveElement
<1>2. CASE w \notin S /\ w \in T
  <2>1. T = S \cup {w}
    BY <1>2
  <2> QED
    BY <1>2, <2>1, FS_AddElement
<1>3. CASE w \in S <=> w \in T
  <2>1. T = S
    BY <1>3
  <2> QED
    BY <1>3, <2>1
<1> QED
  BY <1>1, <1>2, <1>3

\* A step of one worker moves it in or out, and nobody else.
LEMMA WithinMoves ==
  ASSUME NEW w \in Worker, Alone(w), NEW d, NEW calls
  PROVE  /\ Cardinality(Within(d, calls)) \in Nat /\ Cardinality(Within(d, calls)') \in Nat
         /\ (job[w] = d /\ at[w] \in calls) => Cardinality(Within(d, calls)) > 0
         /\ Cardinality(Within(d, calls)') =
              IF job[w] = d /\ at[w] \in calls
              THEN IF job'[w] = d /\ at'[w] \in calls
                   THEN Cardinality(Within(d, calls)) ELSE Cardinality(Within(d, calls)) - 1
              ELSE IF job'[w] = d /\ at'[w] \in calls
                   THEN Cardinality(Within(d, calls)) + 1 ELSE Cardinality(Within(d, calls))
<1>1. w \in Within(d, calls) <=> job[w] = d /\ at[w] \in calls
  BY DEF Within
<1>2. w \in Within(d, calls)' <=> job'[w] = d /\ at'[w] \in calls
  BY DEF Within
<1>3. \A v : v # w => (v \in Within(d, calls) <=> v \in Within(d, calls)')
  BY DEF Within, Alone
<1>4. IsFiniteSet(Within(d, calls)) /\ Cardinality(Within(d, calls)) \in Nat
  BY WithinIsFinite
<1>5. w \in Within(d, calls) => Cardinality(Within(d, calls)) > 0
  BY <1>4, WithinIsFinite
<1>6. Cardinality(Within(d, calls)') =
        IF w \in Within(d, calls)
        THEN IF w \in Within(d, calls)'
             THEN Cardinality(Within(d, calls)) ELSE Cardinality(Within(d, calls)) - 1
        ELSE IF w \in Within(d, calls)'
             THEN Cardinality(Within(d, calls)) + 1 ELSE Cardinality(Within(d, calls))
  BY <1>3, <1>4, OneMore
<1> QED
  BY <1>1, <1>2, <1>4, <1>5, <1>6

-----------------------------------------------------------------------------
(* What one step of a worker may do to a deposit.                          *)

\* Nothing that was reached is lost.
LEMMA WorkedGrows ==
  ASSUME TypeOK, NEW w \in Worker, Worked(w), NEW e \in Deposit
  PROVE  /\ Moved(e) => Moved(e)'
         /\ logged[e] \subseteq logged'[e]
         /\ excuse[e] \subseteq excuse'[e]
         /\ position[e] # "none" => position'[e] # "none"
         /\ Len(sent[e]) \in Nat
         /\ e # job[w] => /\ docs'[e] = docs[e] /\ sent'[e] = sent[e]
                          /\ logged'[e] = logged[e] /\ excuse'[e] = excuse[e]
                          /\ position'[e] = position[e]
<1> DEFINE d == job[w]
           States == {"pending", "mined", "failed", "dropped"}
<1>1. /\ docs \in [Deposit -> Nat]
      /\ logged \in [Deposit -> SUBSET {"decoding", "saving", "transfer", "processing"}]
      /\ position \in [Deposit -> {"none", "active", "confirmed"}]
      /\ sent \in [Deposit -> Seq(States)]
      /\ excuse \in [Deposit -> SUBSET {"blind", "raced", "died", "no receipt"}]
  BY DEF TypeOK, Shape
<1>0. Len(sent[e]) \in Nat
  <2>1. sent[e] \in Seq(States)
    BY <1>1
  <2> HIDE DEF States
  <2> QED
    BY <2>1
<1>2. CASE at[w] = "idle"
  <2>1. UNCHANGED <<docs, logged, position, sent, excuse>>
    BY <1>2 DEF Worked, Begin, Step, Skip, Check, FoundNothing, FoundError, Undecodable, CreateFails,
                Create, TransferFails, BalanceSuffices, Transact, MinedOk, MinedBad, MinedUnknown,
                MakePosition, AfterPosition, Update, Finish, Proceed, Goes
  <2> QED
    BY <1>0, <2>1 DEF Moved
<1>3. CASE at[w] # "idle"
  <2>1. d \in Deposit
    BY <1>3, BusyHasJob
  <2>2. docs' = docs \/ docs' = [docs EXCEPT ![d] = @ + 1]
    BY <1>3, WorkedData
  <2>3. logged[e] \subseteq logged'[e] /\ (e # d => logged'[e] = logged[e])
    <3>1. logged' = logged \/ \E s : logged' = [logged EXCEPT ![d] = @ \cup {s}]
      BY <1>3, WorkedData DEF Log
    <3>2. DOMAIN logged = Deposit
      BY <1>1
    <3> QED
      BY <2>1, <3>1, <3>2
  <2>4. excuse[e] \subseteq excuse'[e] /\ (e # d => excuse'[e] = excuse[e])
    <3>1. excuse' = excuse \/ \E s : excuse' = [excuse EXCEPT ![d] = @ \cup {s}]
      BY <1>3, WorkedData DEF Excuse
    <3>2. DOMAIN excuse = Deposit
      BY <1>1
    <3> QED
      BY <2>1, <3>1, <3>2
  <2>5. /\ position[e] # "none" => position'[e] # "none"
        /\ e # d => position'[e] = position[e]
    <3>1. \/ position' = position
          \/ position' = WithPosition(d)
          \/ position' = [position EXCEPT ![d] = "confirmed"]
      BY <1>3, WorkedData
    <3>2. DOMAIN position = Deposit
      BY <1>1
    <3> QED
      BY <2>1, <3>1, <3>2 DEF WithPosition
  <2>6. (Moved(e) => Moved(e)') /\ Len(sent[e]) \in Nat /\ (e # d => sent'[e] = sent[e])
    <3>1. sent' = sent \/ sent' = [sent EXCEPT ![d] = Append(@, "pending")]
      BY <1>3, WorkedData DEF MaybeSent
    <3>2. sent[e] \in Seq(States) /\ DOMAIN sent = Deposit
      BY <1>1
    <3> HIDE DEF States
    <3>3. /\ \A i \in DOMAIN sent[e] : /\ i \in DOMAIN Append(sent[e], "pending")
                                       /\ Append(sent[e], "pending")[i] = sent[e][i]
          /\ Len(sent[e]) \in Nat
      BY <3>2
    <3>4. sent'[e] = sent[e] \/ (e = d /\ sent'[e] = Append(sent[e], "pending"))
      BY <2>1, <3>1, <3>2
    <3> QED
      BY <3>3, <3>4 DEF Moved
  <2>7. e # d => docs'[e] = docs[e]
    BY <1>1, <2>1, <2>2
  <2> QED
    BY <2>3, <2>4, <2>5, <2>6, <2>7
<1> QED
  BY <1>2, <1>3

\* Documents, transfers and hand-overs come one at a time and in their order.
Orderly(w, e) ==
  /\ docs'[e] \in {docs[e], docs[e] + 1}
  /\ docs'[e] # docs[e] => job[w] = e /\ at[w] = "create" /\ at'[w] \notin {"check", "create"}
  /\ Len(sent'[e]) \in {Len(sent[e]), Len(sent[e]) + 1}
  /\ Len(sent'[e]) # Len(sent[e]) =>
       job[w] = e /\ at[w] = "transact" /\ at'[w] \notin {"balance", "transact"}
  /\ runs'[e] \in {runs[e], runs[e] + 1} /\ runs'[e] <= MaxRuns[e]
  /\ (job'[w] = e /\ at'[w] \in {"check", "create"}) =>
       (job[w] = e /\ at[w] \in {"check", "create"}) \/ runs'[e] = runs[e] + 1
  /\ (job'[w] = e /\ at'[w] \in {"balance", "transact"}) =>
       (job[w] = e /\ at[w] \in {"balance", "transact"}) \/ docs'[e] = docs[e] + 1
  /\ excuse[e] \subseteq excuse'[e]
  /\ (job'[w] = e /\ at'[w] = "create") =>
       \/ excuse'[e] \cap {"blind", "raced"} # {}
       \/ docs[e] = 0 /\ docs'[e] = 0 /\ Within(e, {"create"}) = {}

LEMMA WorkedOrderly ==
  ASSUME TypeOK, NEW w \in Worker, Worked(w), NEW e \in Deposit
  PROVE  Orderly(w, e)
<1>1. /\ at \in [Worker -> Call] /\ job \in [Worker -> Deposit \cup {NoDeposit}]
      /\ docs \in [Deposit -> Nat] /\ runs \in [Deposit -> Nat] /\ runs[e] <= MaxRuns[e]
      /\ DOMAIN excuse = Deposit /\ DOMAIN sent = Deposit
      /\ e # NoDeposit
  BY DepositAssumption DEF TypeOK, Shape
<1>2. excuse[e] \subseteq excuse'[e] /\ Len(sent[e]) \in Nat
  BY WorkedGrows
<1>3. CASE \E d \in Deposit : Begin(w, d)
  <2>1. PICK d \in Deposit : Begin(w, d)
    BY <1>3
  <2>2. /\ at'[w] = "check" /\ job'[w] = d /\ runs[d] < MaxRuns[d]
        /\ runs' = [runs EXCEPT ![d] = @ + 1]
        /\ UNCHANGED <<docs, sent, excuse>>
    BY <1>1, <2>1 DEF Begin, Goes
  <2>3. MaxRuns[d] \in Nat
    BY DepositAssumption
  <2> QED
    BY <1>1, <2>2, <2>3 DEF Orderly
<1>4. ASSUME UNCHANGED <<runs, docs, sent>>,
             job'[w] = e => job[w] = e,
             at'[w] \in {"check", "create"} => at[w] \in {"check", "create"} /\ at'[w] # "create",
             at'[w] \in {"balance", "transact"} => at[w] \in {"balance", "transact"}
      PROVE  Orderly(w, e)
  BY <1>1, <1>2, <1>4 DEF Orderly
<1>5. ASSUME NEW from \in Call, Finish(w, from)
      PROVE  at[w] = from /\ at'[w] = "idle" /\ job'[w] = NoDeposit
  BY <1>1, <1>5 DEF Finish, Goes
<1>6. ASSUME NEW from \in Call, NEW p \in Call, Goes(w, from, p)
      PROVE  at[w] = from /\ at'[w] = p
  BY <1>1, <1>6 DEF Goes
<1>7. CASE Skip(w) \/ Undecodable(w) \/ Update(w)
  <2>1. /\ \E from \in Call : Finish(w, from)
        /\ UNCHANGED <<runs, docs, sent>>
    BY <1>7 DEF Skip, Undecodable, Update, Call
  <2> QED
    BY <1>1, <1>4, <1>5, <2>1
<1>8. CASE Check(w)
  <2>1. /\ at[w] = "check" /\ at'[w] = "create" /\ UNCHANGED <<job, runs, docs, sent>>
        /\ \/ "blind" \in excuse'[job[w]]
           \/ "raced" \in excuse'[job[w]]
           \/ docs[job[w]] = 0 /\ Rivals(w) = {}
    <3>1. job[w] \in Deposit
      BY <1>8, BusyHasJob DEF Check, FoundNothing, FoundError, Proceed, Goes
    <3> QED
      BY <1>1, <1>6, <1>8, <3>1 DEF Check, FoundNothing, FoundError, Proceed, Goes, Excuse
  <2>2. (Rivals(w) = {} /\ job[w] = e) => Within(e, {"create"}) = {}
    BY <2>1 DEF Rivals, Within
  <2>3. job[w] = e => \/ excuse'[e] \cap {"blind", "raced"} # {}
                      \/ docs[e] = 0 /\ docs'[e] = 0 /\ Within(e, {"create"}) = {}
    BY <2>1, <2>2
  <2> QED
    BY <1>1, <1>2, <2>1, <2>3 DEF Orderly
<1>9. CASE CreateFails(w) \/ Create(w)
  <2>1. /\ at[w] = "create" /\ at'[w] \in {"idle", "balance", "position"}
        /\ job'[w] \in {NoDeposit, job[w]} /\ (at'[w] = "balance" => Create(w))
    BY <1>1, <1>5, <1>6, <1>9 DEF CreateFails, Create, Finish, Proceed, Goes
  <2>2. /\ docs' = docs \/ docs' = [docs EXCEPT ![job[w]] = @ + 1]
        /\ Create(w) => docs' = [docs EXCEPT ![job[w]] = @ + 1]
        /\ UNCHANGED <<runs, sent, excuse>>
    BY <1>9 DEF CreateFails, Create
  <2>3. job[w] \in Deposit
    BY <2>1, BusyHasJob
  <2>4. /\ docs'[e] \in {docs[e], docs[e] + 1}
        /\ docs'[e] # docs[e] => job[w] = e
        /\ (Create(w) /\ job[w] = e) => docs'[e] = docs[e] + 1
    BY <1>1, <2>2, <2>3
  <2> QED
    BY <1>1, <1>2, <2>1, <2>2, <2>4 DEF Orderly
<1>10. CASE TransferFails(w) \/ Transact(w)
  <2>1. /\ at[w] \in {"balance", "transact"} /\ at'[w] \in {"position", "mined"}
        /\ at[w] = "balance" => UNCHANGED sent
        /\ sent' \in MaybeSent(job[w])
        /\ UNCHANGED <<job, runs, docs, excuse>>
    BY <1>1, <1>10 DEF TransferFails, Transact, Proceed, Goes, MaybeSent
  <2>2. job[w] \in Deposit
    BY <2>1, BusyHasJob
  <2>3. sent'[e] = sent[e] \/ (e = job[w] /\ sent'[e] = Append(sent[e], "pending"))
    BY <1>1, <2>1, <2>2 DEF MaybeSent
  <2>4. Len(Append(sent[e], "pending")) = Len(sent[e]) + 1
    <3>1. sent[e] \in Seq({"pending", "mined", "failed", "dropped"})
      BY DEF TypeOK, Shape
    <3> QED
      BY <3>1
  <2>5. /\ Len(sent'[e]) \in {Len(sent[e]), Len(sent[e]) + 1}
        /\ Len(sent'[e]) # Len(sent[e]) => job[w] = e /\ at[w] = "transact"
    BY <1>1, <2>1, <2>3, <2>4
  <2> QED
    BY <1>1, <1>2, <2>1, <2>5 DEF Orderly
<1>11. CASE BalanceSuffices(w)
  BY <1>1, <1>4, <1>6, <1>11 DEF BalanceSuffices, Proceed, Call
<1>12. CASE MinedOk(w) \/ MinedBad(w) \/ MinedUnknown(w)
  BY <1>1, <1>4, <1>6, <1>12 DEF MinedOk, MinedBad, MinedUnknown, Proceed, Call
<1>13. CASE MakePosition(w)
  <2>1. at[w] = "position" /\ at'[w] \in {"update", "idle"} /\ job'[w] \in {job[w], NoDeposit}
    BY <1>1, <1>13 DEF MakePosition, AfterPosition, Proceed, Finish, Goes
  <2> QED
    BY <1>1, <1>4, <1>13, <2>1 DEF MakePosition
<1> QED
  BY <1>3, <1>7, <1>8, <1>9, <1>10, <1>11, <1>12, <1>13 DEF Worked, Step

\* The counts of documents, transfers and workers keep their order.
LEMMA WorkedKeepsCounts ==
  ASSUME TypeOK, HandedOut, MintsBacked, DoublesExplained, NEW w \in Worker, Worked(w)
  PROVE  /\ HandedOut' /\ MintsBacked' /\ DoublesExplained'
         /\ \A d \in Deposit : docs'[d] <= runs'[d] /\ runs'[d] <= MaxRuns[d]
                               /\ Len(sent'[d]) <= runs'[d]
<1>1. Alone(w) /\ Shape /\ Shape'
  BY WorkedShape DEF TypeOK
<1>2. SUFFICES ASSUME NEW e \in Deposit
               PROVE  /\ docs'[e] + Cardinality(Within(e, {"check", "create"})') <= runs'[e]
                      /\ Len(sent'[e]) + Cardinality(Within(e, {"balance", "transact"})') <= docs'[e]
                      /\ docs'[e] + Cardinality(Within(e, {"create"})') > 1 =>
                           excuse'[e] \cap {"blind", "raced"} # {}
                      /\ docs'[e] <= runs'[e] /\ runs'[e] <= MaxRuns[e]
                      /\ Len(sent'[e]) <= runs'[e]
  BY DEF HandedOut, MintsBacked, DoublesExplained, Transferring
<1>3. /\ docs[e] \in Nat /\ runs[e] \in Nat /\ docs'[e] \in Nat /\ runs'[e] \in Nat
      /\ MaxRuns[e] \in Nat
  BY <1>1, DepositAssumption DEF Shape
<1>4. Len(sent[e]) \in Nat /\ Orderly(w, e)
  BY WorkedGrows, WorkedOrderly
<1>5. Len(sent'[e]) \in Nat
  BY <1>4 DEF Orderly
<1>6. docs'[e] + Cardinality(Within(e, {"check", "create"})') <= runs'[e]
  <2>1. docs[e] + Cardinality(Within(e, {"check", "create"})) <= runs[e]
    BY DEF HandedOut
  <2> DEFINE calls == {"check", "create"}
             before == Cardinality(Within(e, calls))
             after == Cardinality(Within(e, calls)')
             in == job[w] = e /\ at[w] \in calls
             stays == job'[w] = e /\ at'[w] \in calls
  <2>2. /\ before \in Nat /\ after \in Nat
        /\ after = IF in THEN IF stays THEN before ELSE before - 1
                   ELSE IF stays THEN before + 1 ELSE before
    BY <1>1, WithinMoves
  <2>3. /\ docs'[e] \in {docs[e], docs[e] + 1}
        /\ docs'[e] # docs[e] => in /\ ~stays
        /\ runs'[e] \in {runs[e], runs[e] + 1}
        /\ stays => in \/ runs'[e] = runs[e] + 1
    BY <1>4 DEF Orderly
  <2>4. docs[e] + before <= runs[e]
    BY <2>1
  <2> HIDE DEF before, after, in, stays
  <2>5. docs'[e] + after <= runs'[e]
    BY <1>3, <2>2, <2>3, <2>4
  <2> QED
    BY <2>5 DEF after
<1>7. Len(sent'[e]) + Cardinality(Within(e, {"balance", "transact"})') <= docs'[e]
  <2>1. Len(sent[e]) + Cardinality(Within(e, {"balance", "transact"})) <= docs[e]
    BY DEF MintsBacked, Transferring
  <2> DEFINE calls == {"balance", "transact"}
             before == Cardinality(Within(e, calls))
             after == Cardinality(Within(e, calls)')
             in == job[w] = e /\ at[w] \in calls
             stays == job'[w] = e /\ at'[w] \in calls
  <2>2. /\ before \in Nat /\ after \in Nat
        /\ after = IF in THEN IF stays THEN before ELSE before - 1
                   ELSE IF stays THEN before + 1 ELSE before
    BY <1>1, WithinMoves
  <2>3. /\ docs'[e] \in {docs[e], docs[e] + 1}
        /\ docs'[e] # docs[e] => ~in
        /\ Len(sent'[e]) \in {Len(sent[e]), Len(sent[e]) + 1}
        /\ Len(sent'[e]) # Len(sent[e]) => in /\ ~stays
        /\ stays => in \/ docs'[e] = docs[e] + 1
    BY <1>4 DEF Orderly
  <2>4. Len(sent[e]) + before <= docs[e]
    BY <2>1
  <2> DEFINE old == Len(sent[e])
             new == Len(sent'[e])
  <2>6. /\ old \in Nat /\ new \in Nat /\ old + before <= docs[e]
        /\ new \in {old, old + 1} /\ (new # old => in /\ ~stays)
    BY <1>4, <1>5, <2>3, <2>4
  <2> HIDE DEF before, after, in, stays, old, new
  <2>5. new + after <= docs'[e]
    BY <1>3, <2>2, <2>3, <2>6
  <2> QED
    BY <2>5 DEF after, new
<1>8. docs'[e] + Cardinality(Within(e, {"create"})') > 1 => excuse'[e] \cap {"blind", "raced"} # {}
  <2>1. docs[e] + Cardinality(Within(e, {"create"})) > 1 => excuse'[e] \cap {"blind", "raced"} # {}
    BY <1>4 DEF DoublesExplained, Orderly
  <2>2. Within(e, {"create"}) = {} => Cardinality(Within(e, {"create"})) = 0
    BY WithinIsFinite
  <2>3. /\ docs'[e] \in {docs[e], docs[e] + 1}
        /\ docs'[e] # docs[e] => job[w] = e /\ at[w] = "create" /\ at'[w] # "create"
        /\ (job'[w] = e /\ at'[w] = "create") =>
             \/ excuse'[e] \cap {"blind", "raced"} # {}
             \/ docs[e] = 0 /\ docs'[e] = 0 /\ Cardinality(Within(e, {"create"})) = 0
    BY <1>4, <2>2 DEF Orderly
  <2> DEFINE before == Cardinality(Within(e, {"create"}))
             after == Cardinality(Within(e, {"create"})')
             in == job[w] = e /\ at[w] = "create"
             stays == job'[w] = e /\ at'[w] = "create"
             excused == excuse'[e] \cap {"blind", "raced"} # {}
  <2>4. /\ before \in Nat /\ after \in Nat
        /\ after = IF in THEN IF stays THEN before ELSE before - 1
                   ELSE IF stays THEN before + 1 ELSE before
    BY <1>1, WithinMoves
  <2>5. /\ docs[e] + before > 1 => excused
        /\ docs'[e] \in {docs[e], docs[e] + 1}
        /\ docs'[e] # docs[e] => in /\ ~stays
        /\ stays => excused \/ (docs[e] = 0 /\ docs'[e] = 0 /\ before = 0)
    BY <2>1, <2>3
  <2> HIDE DEF before, after, in, stays, excused
  <2>6. docs'[e] + after > 1 => excused
    BY <1>3, <2>4, <2>5
  <2> QED
    BY <2>6 DEF after, excused
<1>9. Cardinality(Within(e, {"check", "create"})') \in Nat
      /\ Cardinality(Within(e, {"balance", "transact"})') \in Nat
  BY <1>1, WithinMoves
<1>10. runs'[e] <= MaxRuns[e]
  BY <1>4 DEF Orderly
<1>11. docs'[e] <= runs'[e]
  BY <1>3, <1>6, <1>9
<1>12. Len(sent'[e]) <= docs'[e]
  BY <1>3, <1>5, <1>7, <1>9
<1>13. Len(sent'[e]) <= runs'[e]
  BY <1>3, <1>5, <1>11, <1>12
<1> QED
  BY <1>6, <1>7, <1>8, <1>10, <1>11, <1>13

-----------------------------------------------------------------------------
(* The hash a worker carries.                                              *)

\* Where the hash of a worker after its step comes from.
LEMMA WorkedHash ==
  ASSUME TypeOK, HashKept, NEW w \in Worker, Worked(w)
  PROVE  \/ hash'[w] = 0 /\ at'[w] \notin {"mined", "update"}
         \/ /\ job[w] \in Deposit /\ job'[w] = job[w] /\ at'[w] = "mined"
            /\ hash'[w] = Len(sent[job[w]]) + 1
            /\ Len(sent'[job[w]]) = Len(sent[job[w]]) + 1
         \/ /\ job[w] \in Deposit /\ job'[w] = job[w] /\ at'[w] \in {"position", "update"}
            /\ hash'[w] = hash[w] /\ hash[w] # 0
            /\ Moved(job[w])' \/ "no receipt" \in excuse'[job[w]]
<1> DEFINE States == {"pending", "mined", "failed", "dropped"}
<1>1. /\ at \in [Worker -> Call] /\ job \in [Worker -> Deposit \cup {NoDeposit}]
      /\ hash \in [Worker -> Nat]
      /\ sent \in [Deposit -> Seq(States)]
      /\ DOMAIN excuse = Deposit
  BY DEF TypeOK, Shape
<1>2. at[w] \in {"idle", "check", "create", "balance", "transact"} => hash[w] = 0
  BY DEF HashKept
<1>3. ASSUME NEW from \in Call, NEW p \in Call, Goes(w, from, p)
      PROVE  at[w] = from /\ at'[w] = p
  BY <1>1, <1>3 DEF Goes
<1>4. CASE \E d \in Deposit : Begin(w, d)
  BY <1>1, <1>2, <1>3, <1>4 DEF Begin, Call
<1>5. ASSUME NEW from \in Call, Finish(w, from)
      PROVE  hash'[w] = 0 /\ at'[w] = "idle"
  BY <1>1, <1>5 DEF Finish, Goes
<1>6. CASE Skip(w) \/ Undecodable(w) \/ CreateFails(w) \/ Update(w)
  <2>1. \E from \in Call : Finish(w, from)
    BY <1>6 DEF Skip, Undecodable, CreateFails, Update, Call
  <2> QED
    BY <1>5, <2>1
<1>7. CASE Check(w) \/ Create(w) \/ TransferFails(w) \/ BalanceSuffices(w)
  <2>1. /\ at[w] \in {"check", "create", "balance", "transact"} /\ UNCHANGED hash
        /\ at'[w] \in {"create", "balance", "position", "transact"}
    BY <1>3, <1>7 DEF Check, FoundNothing, FoundError, Create, TransferFails, BalanceSuffices,
                      Proceed, Call
  <2> QED
    BY <1>2, <2>1
<1>8. CASE Transact(w)
  <2>1. at[w] = "transact" /\ at'[w] = "mined" /\ UNCHANGED job
    BY <1>3, <1>8 DEF Transact, Call
  <2>2. job[w] \in Deposit
    BY <2>1, BusyHasJob
  <2>3. /\ hash'[w] = Len(sent[job[w]]) + 1
        /\ sent'[job[w]] = Append(sent[job[w]], "pending")
    BY <1>1, <1>8, <2>2 DEF Transact
  <2>4. Len(Append(sent[job[w]], "pending")) = Len(sent[job[w]]) + 1
    BY <1>1, <2>2
  <2> QED
    BY <2>1, <2>2, <2>3, <2>4
<1>9. CASE MinedOk(w) \/ MinedUnknown(w)
  <2>1. at[w] = "mined" /\ at'[w] = "position" /\ UNCHANGED <<job, hash, sent>>
    BY <1>3, <1>9 DEF MinedOk, MinedUnknown, Proceed, Call
  <2>2. job[w] \in Deposit
    BY <2>1, BusyHasJob
  <2>3. hash[w] # 0
    BY <2>1 DEF HashKept
  <2>4. hash[w] \in DOMAIN sent[job[w]]
    <3>1. hash[w] \in 0..Len(sent[job[w]])
      BY <2>1 DEF TypeOK
    <3>2. sent[job[w]] \in Seq(States)
      BY <1>1, <2>2
    <3> HIDE DEF States
    <3>3. DOMAIN sent[job[w]] = 1..Len(sent[job[w]]) /\ Len(sent[job[w]]) \in Nat
      BY <3>2
    <3> QED
      BY <2>3, <3>1, <3>3
  <2>5. Moved(job[w])' \/ "no receipt" \in excuse'[job[w]]
    <3>1. CASE MinedOk(w)
      <4>1. sent'[job'[w]][hash[w]] = "mined" /\ hash[w] \in DOMAIN sent'[job'[w]]
        BY <2>1, <2>4, <3>1 DEF MinedOk, Transfer
      <4> QED
        BY <4>1 DEF Moved
    <3>2. CASE MinedUnknown(w)
      BY <1>1, <2>2, <3>2 DEF MinedUnknown, Excuse
    <3> QED
      BY <1>9, <3>1, <3>2
  <2> QED
    BY <2>1, <2>2, <2>3, <2>5
<1>10. CASE MinedBad(w)
  BY <1>1, <1>3, <1>10 DEF MinedBad, Call
<1>11. CASE MakePosition(w)
  <2>1. CASE Finish(w, "position")
    BY <1>5, <2>1 DEF Call
  <2>2. CASE hash[w] # 0 /\ Proceed(w, "position", "update")
    <3>1. at[w] = "position" /\ at'[w] = "update" /\ UNCHANGED <<job, hash>>
      BY <1>3, <2>2 DEF Proceed, Call
    <3>2. job[w] \in Deposit
      BY <3>1, BusyHasJob
    <3>3. Moved(job[w]) \/ "no receipt" \in excuse[job[w]]
      BY <2>2, <3>1 DEF HashKept
    <3>4. Moved(job[w])' \/ "no receipt" \in excuse'[job[w]]
      BY <3>1, <3>2, <3>3, WorkedGrows DEF Moved
    <3> QED
      BY <2>2, <3>1, <3>2, <3>4
  <2> QED
    BY <1>11, <2>1, <2>2 DEF MakePosition, AfterPosition
<1> QED
  BY <1>4, <1>6, <1>7, <1>8, <1>9, <1>10, <1>11 DEF Worked, Step

\* The hash stays one of a transfer that was sent.
LEMMA WorkedKeepsHash ==
  ASSUME TypeOK, HashKept, NEW w \in Worker, Worked(w)
  PROVE  /\ HashKept'
         /\ \A v \in Worker :
              hash'[v] \in IF at'[v] = "idle" THEN {0} ELSE 0..Len(sent'[job'[v]])
<1>1. Alone(w)
  BY WorkedShape
<1>2. SUFFICES ASSUME NEW v \in Worker
               PROVE  /\ at'[v] \in {"idle", "check", "create", "balance", "transact"} => hash'[v] = 0
                      /\ at'[v] \in {"mined", "update"} => hash'[v] # 0
                      /\ (at'[v] \in {"position", "update"} /\ hash'[v] # 0) =>
                           Moved(job[v])' \/ "no receipt" \in excuse'[job'[v]]
                      /\ hash'[v] \in IF at'[v] = "idle" THEN {0} ELSE 0..Len(sent'[job'[v]])
  BY DEF HashKept
<1>3. /\ hash[v] \in Nat
      /\ hash[v] \in IF at[v] = "idle" THEN {0} ELSE 0..Len(sent[job[v]])
      /\ \A e \in Deposit : /\ Len(sent[e]) \in Nat /\ Len(sent'[e]) \in Nat
                            /\ Len(sent'[e]) >= Len(sent[e])
  <2>1. hash \in [Worker -> Nat]
    BY DEF TypeOK, Shape
  <2>2. hash[v] \in IF at[v] = "idle" THEN {0} ELSE 0..Len(sent[job[v]])
    BY DEF TypeOK
  <2>3. ASSUME NEW e \in Deposit
        PROVE  /\ Len(sent[e]) \in Nat /\ Len(sent'[e]) \in Nat
               /\ Len(sent'[e]) >= Len(sent[e])
    <3>1. Len(sent[e]) \in Nat
      BY WorkedGrows
    <3>2. Len(sent'[e]) \in {Len(sent[e]), Len(sent[e]) + 1}
      BY WorkedOrderly DEF Orderly
    <3> QED
      BY <3>1, <3>2
  <2> QED
    BY <2>1, <2>2, <2>3
<1>4. CASE v # w
  <2>1. at'[v] = at[v] /\ job'[v] = job[v] /\ hash'[v] = hash[v]
    BY <1>1, <1>4 DEF Alone
  <2>2. at[v] # "idle" => job[v] \in Deposit
    BY BusyHasJob
  <2>3. at[v] # "idle" => /\ Moved(job[v]) => Moved(job[v])'
                          /\ excuse[job[v]] \subseteq excuse'[job[v]]
    BY <2>1, <2>2, WorkedGrows DEF Moved
  <2>4. at[v] # "idle" => hash[v] \in 0..Len(sent'[job[v]])
    <3>1. SUFFICES ASSUME at[v] # "idle"
                   PROVE  hash[v] \in 0..Len(sent'[job[v]])
      OBVIOUS
    <3>2. /\ Len(sent[job[v]]) \in Nat /\ Len(sent'[job[v]]) \in Nat
          /\ Len(sent'[job[v]]) >= Len(sent[job[v]])
          /\ hash[v] <= Len(sent[job[v]])
      BY <1>3, <2>2, <3>1
    <3> QED
      BY <1>3, <3>2
  <2> QED
    BY <1>3, <2>1, <2>3, <2>4 DEF HashKept
<1>5. CASE v = w
  <2>1. CASE hash'[w] = 0 /\ at'[w] \notin {"mined", "update"}
    <3>1. at'[w] # "idle" => Len(sent'[job'[w]]) \in Nat
      <4>1. at'[w] # "idle" => job'[w] \in Deposit
        BY WorkedShape DEF Shape
      <4> QED
        BY <1>3, <4>1
    <3> QED
      BY <1>5, <2>1, <3>1
  <2>2. CASE /\ job[w] \in Deposit /\ job'[w] = job[w] /\ at'[w] = "mined"
             /\ hash'[w] = Len(sent[job[w]]) + 1
             /\ Len(sent'[job[w]]) = Len(sent[job[w]]) + 1
    <3>1. Len(sent[job[w]]) \in Nat
      BY <1>3, <2>2
    <3> QED
      BY <1>5, <2>2, <3>1
  <2>3. CASE /\ job[w] \in Deposit /\ job'[w] = job[w] /\ at'[w] \in {"position", "update"}
             /\ hash'[w] = hash[w] /\ hash[w] # 0
             /\ Moved(job[w])' \/ "no receipt" \in excuse'[job[w]]
    <3>1. /\ Len(sent[job[w]]) \in Nat /\ Len(sent'[job[w]]) \in Nat
          /\ Len(sent'[job[w]]) >= Len(sent[job[w]])
      BY <1>3, <2>3
    <3>2. hash[w] \in Nat /\ hash[w] <= Len(sent[job[w]])
      <4>1. hash[w] \in Nat /\ hash[w] \in IF at[w] = "idle" THEN {0} ELSE 0..Len(sent[job[w]])
        BY <1>3, <1>5
      <4>2. hash[w] \in 0..Len(sent[job[w]])
        BY <2>3, <4>1
      <4> QED
        BY <3>1, <4>1, <4>2
    <3>3. Moved(job[w])' \/ "no receipt" \in excuse'[job'[w]]
      BY <2>3
    <3>4. hash'[w] \in 0..Len(sent'[job'[w]])
      <4>1. hash'[w] = hash[w] /\ job'[w] = job[w]
        BY <2>3
      <4> QED
        BY <3>1, <3>2, <4>1
    <3>5. at'[w] \in {"position", "update"} /\ hash'[w] # 0
      BY <2>3
    <3> QED
      BY <1>5, <3>3, <3>4, <3>5
  <2> QED
    BY <2>1, <2>2, <2>3, WorkedHash
<1> QED
  BY <1>4, <1>5

-----------------------------------------------------------------------------
(* What becomes of a recorded deposit.                                     *)

\* Only a worker with a hash confirms.
LEMMA WorkedKeepsConfirmed ==
  ASSUME TypeOK, HashKept, ConfirmedIsPaid, NEW w \in Worker, Worked(w)
  PROVE  ConfirmedIsPaid'
<1>1. SUFFICES ASSUME NEW e \in Deposit, position'[e] = "confirmed"
               PROVE  Moved(e)' \/ "no receipt" \in excuse'[e]
  BY DEF ConfirmedIsPaid, Moved
<1>2. /\ Moved(e) => Moved(e)'
      /\ excuse[e] \subseteq excuse'[e]
  BY WorkedGrows
<1>3. CASE position[e] = "confirmed"
  BY <1>2, <1>3 DEF ConfirmedIsPaid, Moved
<1>4. CASE position[e] # "confirmed"
  <2>1. DOMAIN position = Deposit /\ at[w] # "idle"
    <3>1. \A d \in Deposit : Begin(w, d) => UNCHANGED position
      BY DEF Begin
    <3>2. Step(w) \/ MinedUnknown(w) => at[w] # "idle"
      BY DEF Step, Skip, Check, FoundNothing, FoundError, Undecodable, CreateFails, Create,
             TransferFails, BalanceSuffices, Transact, MinedOk, MinedBad, MinedUnknown,
             MakePosition, AfterPosition, Update, Finish, Proceed, Goes
    <3> QED
      BY <1>1, <1>4, <3>1, <3>2 DEF Worked, TypeOK, Shape
  <2>2. job[w] \in Deposit
    BY <2>1, BusyHasJob
  <2>3. position' # WithPosition(job[w])
    BY <1>1, <1>4, <2>1, <2>2 DEF WithPosition
  <2>4. Update(w)
    <3>1. UNCHANGED position \/ Update(w)
      BY <2>1, <2>3 DEF Worked, Begin, Goes, Step, Skip, Check, Undecodable, CreateFails, Create,
                        TransferFails, BalanceSuffices, Transact, MinedOk, MinedBad, MinedUnknown,
                        MakePosition
    <3> QED
      BY <1>1, <1>4, <3>1
  <2>5. e = job[w] /\ at[w] = "update"
    BY <1>1, <1>4, <2>1, <2>2, <2>4 DEF Update, Finish, Goes
  <2> QED
    BY <1>2, <2>5 DEF HashKept
<1> QED
  BY <1>3, <1>4

\* Worker w has e and is about to make one of these calls.
Has(w, e, calls) == job[w] = e /\ at[w] \in calls

\* A worker supplies what a recorded deposit lacks, or still has it in hand.
LEMMA WorkedSupplies ==
  ASSUME TypeOK, HashKept, NEW w \in Worker, Worked(w), NEW e \in Deposit,
         docs'[e] # docs[e] \/ Has(w, e, {"balance", "transact", "mined", "position"})
  PROVE  /\ Placed(e)' \/ Has(w, e, {"balance", "transact", "mined", "position"})'
         /\ (e \in Backend /\ ~Has(w, e, {"position"})) =>
              Settled(e)' \/ Has(w, e, {"balance", "transact", "mined"})'
<1> DEFINE States == {"pending", "mined", "failed", "dropped"}
<1>1. /\ at \in [Worker -> Call] /\ job \in [Worker -> Deposit \cup {NoDeposit}]
      /\ docs \in [Deposit -> Nat]
      /\ sent \in [Deposit -> Seq(States)]
      /\ DOMAIN logged = Deposit /\ DOMAIN position = Deposit /\ DOMAIN excuse = Deposit
  BY DEF TypeOK, Shape
<1>2. ASSUME NEW from \in Call, NEW p \in Call, Goes(w, from, p)
      PROVE  at[w] = from /\ at'[w] = p
  BY <1>1, <1>2 DEF Goes
<1>3. CASE (\E d \in Deposit : Begin(w, d)) \/ Skip(w) \/ Check(w) \/ Undecodable(w) \/ Update(w)
  <2>1. /\ at[w] \in {"idle", "check", "create", "update"} /\ UNCHANGED docs
    BY <1>3 DEF Begin, Skip, Check, FoundNothing, FoundError, Undecodable, Update, Finish,
                Proceed, Goes
  <2> QED
    BY <2>1 DEF Has
<1>4. CASE CreateFails(w)
  <2>1. at[w] = "create"
    BY <1>4 DEF CreateFails, Finish, Goes
  <2>2. job[w] = e
    BY <1>1, <1>4, <2>1, BusyHasJob DEF CreateFails, Has
  <2>3. "saving" \in logged'[e]
    BY <1>1, <1>4, <2>2 DEF CreateFails, Log
  <2> QED
    BY <2>3 DEF Placed, Settled
<1>5. CASE Create(w)
  <2>1. /\ at[w] = "create" /\ job'[w] = job[w]
        /\ at'[w] = IF job[w] \in Backend THEN "balance" ELSE "position"
    BY <1>1, <1>5 DEF Create, Proceed, Goes
  <2>2. job[w] = e
    BY <1>1, <1>5, <2>1, BusyHasJob DEF Create, Has
  <2> QED
    BY <2>1, <2>2 DEF Has
<1>6. CASE BalanceSuffices(w) \/ Transact(w)
  <2>1. at[w] \in {"balance", "transact"} /\ at'[w] \in {"transact", "mined"}
        /\ UNCHANGED <<job, docs>>
    BY <1>2, <1>6 DEF BalanceSuffices, Transact, Proceed, Call
  <2> QED
    BY <2>1 DEF Has
<1>7. CASE TransferFails(w) \/ MinedOk(w) \/ MinedBad(w) \/ MinedUnknown(w)
  <2>1. at[w] \in {"balance", "transact", "mined"} /\ at'[w] = "position"
        /\ UNCHANGED <<job, docs>>
    BY <1>2, <1>7 DEF TransferFails, MinedOk, MinedBad, MinedUnknown, Proceed, Call
  <2>2. job[w] = e /\ job'[w] = e
    BY <2>1 DEF Has
  <2>3. Settled(e)'
    <3>1. CASE TransferFails(w) \/ MinedBad(w)
      <4>1. "transfer" \in logged'[e]
        BY <1>1, <2>2, <3>1 DEF TransferFails, MinedBad, Log
      <4> QED
        BY <4>1 DEF Settled
    <3>2. CASE MinedUnknown(w)
      BY <1>1, <2>2, <3>2 DEF MinedUnknown, Excuse, Settled
    <3>3. CASE MinedOk(w)
      <4>1. at[w] = "mined" /\ UNCHANGED <<sent, hash>> /\ sent[e][hash[w]] = "mined"
        BY <2>2, <3>3 DEF MinedOk, Proceed, Goes, Transfer
      <4>2. hash[w] # 0 /\ hash[w] \in 0..Len(sent[e])
        BY <2>2, <4>1 DEF HashKept, TypeOK
      <4>3. hash[w] \in DOMAIN sent[e]
        <5>1. sent[e] \in Seq(States)
          BY <1>1
        <5> HIDE DEF States
        <5>2. DOMAIN sent[e] = 1..Len(sent[e]) /\ Len(sent[e]) \in Nat
          BY <5>1
        <5> QED
          BY <4>2, <5>2
      <4>4. Moved(e)'
        BY <4>1, <4>3 DEF Moved
      <4> QED
        BY <4>4 DEF Settled
    <3> QED
      BY <1>7, <3>1, <3>2, <3>3
  <2> QED
    BY <2>1, <2>2, <2>3 DEF Has
<1>8. CASE MakePosition(w)
  <2>1. at[w] = "position" /\ UNCHANGED docs
    BY <1>8 DEF MakePosition, AfterPosition, Proceed, Finish, Goes
  <2>2. Has(w, e, {"position"}) /\ job[w] = e
    BY <2>1 DEF Has
  <2>3. position'[e] # "none" \/ "processing" \in logged'[e]
    BY <1>1, <1>8, <2>2 DEF MakePosition, Log, WithPosition
  <2> QED
    BY <2>2, <2>3 DEF Placed
<1> QED
  BY <1>3, <1>4, <1>5, <1>6, <1>7, <1>8 DEF Worked, Step

LEMMA WorkedKeepsInHand ==
  ASSUME TypeOK, HashKept, InHand, NEW w \in Worker, Worked(w)
  PROVE  InHand'
<1> DEFINE P == {"balance", "transact", "mined", "position"}
           S == {"balance", "transact", "mined"}
<1>1. SUFFICES ASSUME NEW e \in Deposit, docs'[e] > 0
               PROVE  /\ Placed(e)' \/ Within(e, P)' # {}
                      /\ e \in Backend => Settled(e)' \/ Within(e, S)' # {}
  BY DEF InHand
<1>2. Placed(e) => Placed(e)'
  BY WorkedGrows DEF Placed
<1>3. Settled(e) => Settled(e)'
  BY WorkedGrows DEF Settled
<1>4. ASSUME NEW calls
      PROVE  /\ Has(w, e, calls)' => Within(e, calls)' # {}
             /\ Within(e, calls) # {} => Has(w, e, calls) \/ Within(e, calls)' # {}
  BY WorkedShape DEF Alone, Has, Within
<1>5. CASE docs'[e] # docs[e]
  <2>1. ~Has(w, e, {"position"})
    BY <1>5, WorkedOrderly DEF Orderly, Has
  <2> QED
    BY <1>4, <1>5, <2>1, WorkedSupplies
<1>6. CASE docs'[e] = docs[e]
  <2>1. /\ Placed(e) \/ Within(e, P) # {}
        /\ e \in Backend => Settled(e) \/ Within(e, S) # {}
    BY <1>1, <1>6 DEF InHand
  <2>2. Has(w, e, P) => Placed(e)' \/ Within(e, P)' # {}
    BY <1>4, WorkedSupplies
  <2>3. (Has(w, e, S) /\ e \in Backend) => Settled(e)' \/ Within(e, S)' # {}
    <3>1. Has(w, e, S) => Has(w, e, P) /\ ~Has(w, e, {"position"})
      BY DEF Has
    <3> QED
      BY <1>4, <3>1, WorkedSupplies
  <2> QED
    BY <1>2, <1>3, <1>4, <2>1, <2>2, <2>3
<1> QED
  BY <1>5, <1>6

-----------------------------------------------------------------------------
(* The inductive invariant.                                                *)

LEMMA InitIInv == Init => IInv
<1>1. SUFFICES ASSUME Init
               PROVE  IInv
  OBVIOUS
<1>2. Shape
  <2>1. /\ at \in [Worker -> Call] /\ job \in [Worker -> Deposit \cup {NoDeposit}]
        /\ hash \in [Worker -> Nat] /\ runs \in [Deposit -> Nat] /\ docs \in [Deposit -> Nat]
        /\ balance \in 0..Supply
    BY <1>1, DepositAssumption DEF Init, Call
  <2>2. logged \in [Deposit -> SUBSET {"decoding", "saving", "transfer", "processing"}]
    BY <1>1 DEF Init
  <2>3. position \in [Deposit -> {"none", "active", "confirmed"}]
    BY <1>1 DEF Init
  <2>4. sent \in [Deposit -> Seq({"pending", "mined", "failed", "dropped"})]
    BY <1>1 DEF Init
  <2>5. excuse \in [Deposit -> SUBSET {"blind", "raced", "died", "no receipt"}]
    BY <1>1 DEF Init
  <2> QED
    BY <2>1, <2>2, <2>3, <2>4, <2>5 DEF Shape
<1>3. ASSUME NEW e \in Deposit
      PROVE  /\ docs[e] = 0 /\ runs[e] = 0 /\ MaxRuns[e] \in Nat
             /\ sent[e] = << >> /\ Len(sent[e]) = 0 /\ position[e] = "none"
  BY <1>1, DepositAssumption DEF Init
<1>4. ASSUME NEW w \in Worker
      PROVE  at[w] = "idle" /\ job[w] = NoDeposit /\ hash[w] = 0
  BY <1>1 DEF Init
<1>5. ASSUME NEW e \in Deposit, NEW calls
      PROVE  Cardinality(Within(e, calls)) = 0
  <2>1. Within(e, calls) = {}
    BY <1>4, DepositAssumption DEF Within
  <2> QED
    BY <2>1, WithinIsFinite
<1>6. TypeOK
  BY <1>2, <1>3, <1>4 DEF TypeOK
<1>7. HandedOut /\ MintsBacked /\ DoublesExplained
  BY <1>3, <1>5 DEF HandedOut, MintsBacked, DoublesExplained, Transferring
<1>8. HashKept /\ InHand /\ ConfirmedIsPaid
  <2>1. HashKept
    BY <1>4 DEF HashKept
  <2>2. InHand
    BY <1>3 DEF InHand
  <2>3. ConfirmedIsPaid
    BY <1>3 DEF ConfirmedIsPaid
  <2> QED
    BY <2>1, <2>2, <2>3
<1> QED
  BY <1>6, <1>7, <1>8 DEF IInv

LEMMA WorkedIInv ==
  ASSUME IInv, NEW w \in Worker, Worked(w)
  PROVE  IInv'
<1>1. TypeOK /\ HandedOut /\ MintsBacked /\ DoublesExplained /\ HashKept /\ InHand /\ ConfirmedIsPaid
  BY DEF IInv
<1>2. TypeOK'
  <2>1. Shape'
    BY <1>1, WorkedShape
  <2>2. \A d \in Deposit : docs'[d] <= runs'[d] /\ runs'[d] <= MaxRuns[d] /\ Len(sent'[d]) <= runs'[d]
    BY <1>1, WorkedKeepsCounts
  <2>3. \A v \in Worker : at'[v] = "idle" <=> job'[v] = NoDeposit
    <3>1. at'[w] = "idle" <=> job'[w] = NoDeposit
      BY <1>1, WorkedShape
    <3>2. \A v \in Worker \ {w} : at'[v] = at[v] /\ job'[v] = job[v]
      BY <1>1, WorkedShape DEF Alone
    <3> QED
      BY <1>1, <3>1, <3>2 DEF TypeOK
  <2>4. \A v \in Worker : hash'[v] \in IF at'[v] = "idle" THEN {0} ELSE 0..Len(sent'[job'[v]])
    BY <1>1, WorkedKeepsHash
  <2> QED
    BY <2>1, <2>2, <2>3, <2>4 DEF TypeOK
<1>3. HandedOut' /\ MintsBacked' /\ DoublesExplained'
  BY <1>1, WorkedKeepsCounts
<1>4. HashKept'
  BY <1>1, WorkedKeepsHash
<1>5. InHand'
  BY <1>1, WorkedKeepsInHand
<1>6. ConfirmedIsPaid'
  BY <1>1, WorkedKeepsConfirmed
<1> QED
  BY <1>2, <1>3, <1>4, <1>5, <1>6 DEF IInv

\* What the token's chain does to a transfer leaves its number alone.
LEMMA ChainIInv ==
  ASSUME IInv, Mine \/ Drop
  PROVE  IInv'
<1> DEFINE States == {"pending", "mined", "failed", "dropped"}
<1>1. /\ UNCHANGED <<at, job, hash, runs, docs, logged, position, excuse>>
      /\ balance' \in 0..Supply
  <2>1. balance \in 0..Supply /\ Supply \in Nat /\ Tokens \in [Deposit -> Nat]
    BY DepositAssumption DEF IInv, TypeOK, Shape
  <2> QED
    BY <2>1 DEF Mine, Drop, workers
<1>0. PICK d \in Deposit : \E i \in DOMAIN sent[d] : \E s \in States :
        sent[d][i] = "pending" /\ sent' = [sent EXCEPT ![d][i] = s]
  <2>1. CASE Mine
    BY <2>1 DEF Mine
  <2>2. CASE Drop
    BY <2>2 DEF Drop
  <2> QED
    BY <2>1, <2>2
<1>2. PICK i \in DOMAIN sent[d], s \in States :
        sent[d][i] = "pending" /\ sent' = [sent EXCEPT ![d][i] = s]
  BY <1>0
<1>3. sent \in [Deposit -> Seq(States)]
  BY DEF IInv, TypeOK, Shape
<1>4. ASSUME NEW e \in Deposit
      PROVE  /\ sent'[e] \in Seq(States)
             /\ Len(sent'[e]) = Len(sent[e])
             /\ Moved(e) => Moved(e)'
  <2>1. CASE e # d
    <3>1. sent'[e] = sent[e]
      BY <1>2, <1>3, <2>1
    <3> QED
      BY <1>3, <3>1 DEF Moved
  <2>2. CASE e = d
    <3>1. sent'[e] = [sent[e] EXCEPT ![i] = s] /\ sent[e] \in Seq(States) /\ i \in DOMAIN sent[e]
      BY <1>2, <1>3, <2>2
    <3>2. s \in States /\ sent[e][i] # "mined"
      BY <1>2, <2>2
    <3> HIDE DEF States
    <3>3. /\ [sent[e] EXCEPT ![i] = s] \in Seq(States)
          /\ Len([sent[e] EXCEPT ![i] = s]) = Len(sent[e])
      BY <3>1, <3>2
    <3>4. \A j \in DOMAIN sent[e] : sent[e][j] = "mined" =>
            j \in DOMAIN sent'[e] /\ sent'[e][j] = "mined"
      BY <3>1, <3>2
    <3> QED
      BY <3>1, <3>3, <3>4 DEF Moved
  <2> QED
    BY <2>1, <2>2
<1>5. sent' \in [Deposit -> Seq(States)]
  <2>1. DOMAIN sent' = Deposit /\ sent' = [e \in Deposit |-> sent'[e]]
    BY <1>2, <1>3
  <2> QED
    BY <1>4, <2>1
<1>6. \A e, calls : Within(e, calls)' = Within(e, calls)
  BY <1>1 DEF Within
<1>7. TypeOK'
  <2>1. Shape'
    BY <1>1, <1>5 DEF IInv, TypeOK, Shape
  <2>2. ASSUME NEW w \in Worker
        PROVE  hash'[w] \in IF at'[w] = "idle" THEN {0} ELSE 0..Len(sent'[job'[w]])
    <3>1. at[w] # "idle" => job[w] \in Deposit
      BY BusyHasJob DEF IInv
    <3> QED
      BY <1>1, <1>4, <3>1 DEF IInv, TypeOK
  <2> QED
    BY <1>1, <1>4, <2>1, <2>2 DEF IInv, TypeOK
<1>8. HandedOut' /\ MintsBacked' /\ DoublesExplained'
  BY <1>1, <1>4, <1>6 DEF IInv, HandedOut, MintsBacked, DoublesExplained, Transferring
<1>9. HashKept'
  <2>1. ASSUME NEW w \in Worker, at[w] # "idle"
        PROVE  Moved(job[w]) => Moved(job[w])'
    BY <1>1, <1>4, <2>1, BusyHasJob DEF IInv, Moved
  <2> QED
    BY <1>1, <2>1 DEF IInv, HashKept
<1>10. InHand' /\ ConfirmedIsPaid'
  <2>1. \A e \in Deposit : (Settled(e) => Settled(e)') /\ (Placed(e) => Placed(e)')
    BY <1>1, <1>4 DEF Settled, Placed
  <2>2. InHand'
    BY <1>1, <1>6, <2>1 DEF IInv, InHand
  <2>3. ConfirmedIsPaid'
    BY <1>1, <1>4 DEF IInv, ConfirmedIsPaid, Moved
  <2> QED
    BY <2>2, <2>3
<1> QED
  BY <1>7, <1>8, <1>9, <1>10 DEF IInv

LEMMA DieIInv ==
  ASSUME IInv, Die
  PROVE  IInv'
<1> DEFINE Excuses == {"blind", "raced", "died", "no receipt"}
<1>1. /\ UNCHANGED <<runs, docs, logged, position, sent, balance>>
      /\ \A w \in Worker : at'[w] = "idle" /\ job'[w] = NoDeposit /\ hash'[w] = 0
      /\ at' \in [Worker -> Call] /\ job' \in [Worker -> Deposit \cup {NoDeposit}]
      /\ hash' \in [Worker -> Nat]
  BY DEF Die, Call
<1>2. /\ excuse' \in [Deposit -> SUBSET Excuses]
      /\ \A e \in Deposit : /\ excuse[e] \subseteq excuse'[e]
                            /\ InProgress(e) => "died" \in excuse'[e]
  <2>1. excuse \in [Deposit -> SUBSET Excuses]
    BY DEF IInv, TypeOK, Shape
  <2>2. "died" \in Excuses
    OBVIOUS
  <2> HIDE DEF Excuses
  <2> QED
    BY <2>1, <2>2 DEF Die
<1>3. ASSUME NEW e \in Deposit, NEW calls
      PROVE  /\ Cardinality(Within(e, calls)') = 0
             /\ Cardinality(Within(e, calls)) \in Nat
             /\ Within(e, calls) # {} => "died" \in excuse'[e]
  <2>1. Within(e, calls)' = {}
    BY <1>1, DepositAssumption DEF Within
  <2>2. Within(e, calls) # {} => InProgress(e)
    BY DEF Within, InProgress
  <2> QED
    BY <1>2, <2>1, <2>2, WithinIsFinite, FS_EmptySet
<1>4. ASSUME NEW e \in Deposit
      PROVE  /\ docs[e] \in Nat /\ runs[e] \in Nat /\ docs[e] <= runs[e]
             /\ Len(sent[e]) \in Nat
  <2>1. sent[e] \in Seq({"pending", "mined", "failed", "dropped"}) /\ docs[e] \in Nat
        /\ runs[e] \in Nat /\ docs[e] <= runs[e]
    BY DEF IInv, TypeOK, Shape
  <2> QED
    BY <2>1
<1>5. TypeOK'
  <2>1. Shape'
    BY <1>1, <1>2 DEF IInv, TypeOK, Shape
  <2> QED
    BY <1>1, <2>1 DEF IInv, TypeOK
<1>6. HandedOut'
  BY <1>1, <1>3, <1>4 DEF HandedOut
<1>7. MintsBacked'
  <2>1. ASSUME NEW e \in Deposit
        PROVE  Len(sent'[e]) + Cardinality(Transferring(e)') <= docs'[e]
    <3>1. Len(sent[e]) + Cardinality(Within(e, {"balance", "transact"})) <= docs[e]
      BY DEF IInv, MintsBacked, Transferring
    <3> QED
      BY <1>1, <1>3, <1>4, <3>1 DEF Transferring
  <2> QED
    BY <2>1 DEF MintsBacked
<1>8. DoublesExplained'
  <2>1. ASSUME NEW e \in Deposit, docs[e] > 1
        PROVE  excuse[e] \cap {"blind", "raced"} # {}
    <3>1. docs[e] + Cardinality(Within(e, {"create"})) > 1
      BY <1>3, <1>4, <2>1
    <3> QED
      BY <3>1 DEF IInv, DoublesExplained
  <2>2. ASSUME NEW e \in Deposit, docs'[e] + Cardinality(Within(e, {"create"})') > 1
        PROVE  excuse'[e] \cap {"blind", "raced"} # {}
    <3>1. docs[e] > 1
      BY <1>1, <1>3, <1>4, <2>2
    <3> QED
      BY <1>2, <2>1, <3>1
  <2> QED
    BY <2>2 DEF DoublesExplained
<1>9. HashKept'
  BY <1>1 DEF HashKept
<1>10. InHand'
  BY <1>1, <1>2, <1>3 DEF IInv, InHand, Placed, Settled, Moved
<1>11. ConfirmedIsPaid'
  BY <1>1, <1>2 DEF IInv, ConfirmedIsPaid
<1> QED
  BY <1>5, <1>6, <1>7, <1>8, <1>9, <1>10, <1>11 DEF IInv

LEMMA NextIInv == IInv /\ [Next]_vars => IInv'
<1>1. ASSUME IInv, UNCHANGED vars
      PROVE  IInv'
  <2>1. UNCHANGED <<at, job, hash, runs, docs, logged, position, sent, balance, excuse>>
    BY <1>1 DEF vars, workers
  <2>2. \A e, calls : Within(e, calls)' = Within(e, calls)
    BY <2>1 DEF Within
  <2>3. TypeOK'
    BY <1>1, <2>1 DEF IInv, TypeOK, Shape
  <2>4. HandedOut' /\ MintsBacked' /\ DoublesExplained'
    BY <1>1, <2>1, <2>2 DEF IInv, HandedOut, MintsBacked, DoublesExplained, Transferring
  <2>5. HashKept' /\ InHand' /\ ConfirmedIsPaid'
    BY <1>1, <2>1, <2>2 DEF IInv, HashKept, InHand, ConfirmedIsPaid, Placed, Settled, Moved
  <2> QED
    BY <2>3, <2>4, <2>5 DEF IInv
<1> QED
  BY <1>1, WorkedIInv, ChainIInv, DieIInv DEF Next, Worked

-----------------------------------------------------------------------------
(* Theorems.                                                               *)

(***************************************************************************)
(* The inductive invariant holds of every behaviour of the deposits,       *)
(* however often each is handed out and whenever the process dies.         *)
(***************************************************************************)
THEOREM Inductive == Spec => []IInv
BY InitIInv, NextIInv, PTL DEF Spec

(***************************************************************************)
(* Types; a deposit has no more documents and no more transfers than times *)
(* it was handed to a worker, and a hash is one of its own transfers.      *)
(***************************************************************************)
THEOREM TypeCorrect == Spec => []TypeOK
<1>1. IInv => TypeOK
  BY DEF IInv
<1> QED
  BY <1>1, Inductive, PTL

(***************************************************************************)
(* Each transfer of processVaultDepositEvent has a vault_events document   *)
(* of its own, stored before it (lines 2697-2767).                         *)
(***************************************************************************)
THEOREM TransfersAreBacked == Spec => []MintsBacked
<1>1. IInv => MintsBacked
  BY DEF IInv
<1> QED
  BY <1>1, Inductive, PTL

(***************************************************************************)
(* A second transfer of one deposit needs two workers between the check    *)
(* and the document, or a check answered by an error (lines 2461-2475).    *)
(***************************************************************************)
THEOREM DoublesHaveACause == Spec => []DoubleMintExplained
<1>1. IInv => DoubleMintExplained
  <2>1. SUFFICES ASSUME IInv, NEW d \in Deposit, Len(sent[d]) > 1
                 PROVE  excuse[d] \cap {"blind", "raced"} # {}
    BY DEF DoubleMintExplained
  <2>2. docs[d] \in Nat /\ Len(sent[d]) \in Nat
    <3>1. docs[d] \in Nat /\ sent[d] \in Seq({"pending", "mined", "failed", "dropped"})
      BY <2>1 DEF IInv, TypeOK, Shape
    <3> QED
      BY <3>1
  <2>3. /\ Cardinality(Within(d, {"balance", "transact"})) \in Nat
        /\ Cardinality(Within(d, {"create"})) \in Nat
    BY WithinIsFinite
  <2>4. Len(sent[d]) + Cardinality(Within(d, {"balance", "transact"})) <= docs[d]
    BY <2>1 DEF IInv, MintsBacked, Transferring
  <2>5. docs[d] + Cardinality(Within(d, {"create"})) > 1
    BY <2>1, <2>2, <2>3, <2>4
  <2> QED
    BY <2>1, <2>5 DEF IInv, DoublesExplained
<1> QED
  BY <1>1, Inductive, PTL

(***************************************************************************)
(* No recorded deposit of the backend is left unpaid without a transfer    *)
(* out, a logged error, an unseen receipt or a death (lines 2709-2767).    *)
(***************************************************************************)
THEOREM UnpaidHasACause == Spec => []UnpaidExplained
<1>1. IInv => UnpaidExplained
  <2>1. SUFFICES ASSUME IInv, NEW d \in Backend, docs[d] > 0, ~InProgress(d)
                 PROVE  \/ \E i \in DOMAIN sent[d] : sent[d][i] \in {"pending", "mined"}
                        \/ logged[d] \cap {"saving", "transfer"} # {}
                        \/ excuse[d] \cap {"died", "no receipt"} # {}
    BY DEF UnpaidExplained
  <2>2. d \in Deposit
    BY DepositAssumption
  <2>3. Within(d, {"balance", "transact", "mined"}) = {}
    BY <2>1 DEF Within, InProgress
  <2>4. Settled(d)
    BY <2>1, <2>2, <2>3 DEF IInv, InHand
  <2> QED
    BY <2>4 DEF Settled, Moved
<1> QED
  BY <1>1, Inductive, PTL

(***************************************************************************)
(* mint_tx_status = "confirmed" is only written when the tokens have moved *)
(* or their receipt could not be had (lines 1557-1570, 1603-1614).         *)
(***************************************************************************)
THEOREM ConfirmationIsTrue == Spec => []ConfirmedIsPaid
<1>1. IInv => ConfirmedIsPaid
  BY DEF IInv
<1> QED
  BY <1>1, Inductive, PTL

(***************************************************************************)
(* A recorded deposit nobody works on has its position, unless an error    *)
(* was logged for it or the process died under it (line 2763).             *)
(***************************************************************************)
THEOREM RecordsGetPositions == Spec => []PositionOfRecord
<1>1. IInv => PositionOfRecord
  <2>1. SUFFICES ASSUME IInv, NEW d \in Deposit, docs[d] > 0, position[d] = "none", ~InProgress(d)
                 PROVE  \/ logged[d] \cap {"saving", "processing"} # {}
                        \/ "died" \in excuse[d]
    BY DEF PositionOfRecord
  <2>2. Within(d, {"balance", "transact", "mined", "position"}) = {}
    BY <2>1 DEF Within, InProgress
  <2>3. Placed(d)
    BY <2>1, <2>2 DEF IInv, InHand
  <2> QED
    BY <2>1, <2>3 DEF Placed
<1> QED
  BY <1>1, Inductive, PTL
=============================================================================

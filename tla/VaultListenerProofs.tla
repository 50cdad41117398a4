------------------------- MODULE VaultListenerProofs -------------------------
(***************************************************************************)
(* Proofs about VaultListener, for every history of vault logs and any     *)
(* number of faults and requests: every loss and every double effect of    *)
(* the vault's events has one of the listed causes, the status of a vault  *)
(* follows the chain, and a scheduled buyout pays for each position once.  *)
(***************************************************************************)
EXTENDS VaultListener, FiniteSetTheorems, TLAPS

-----------------------------------------------------------------------------
(* The logs and their sequences.                                           *)

\* The logs are numbered in the order of their blocks.
LEMMA TheChain ==
  ASSUME chain \in Chains
  PROVE  /\ chain \in Seq(Log)
         /\ Len(chain) \in Nat /\ Index = 1..Len(chain)
         /\ IsFiniteSet(Index) /\ Index \in SUBSET Nat
         /\ \A i \in Index : chain[i] \in Log /\ chain[i].tx \in Nat \ {0} /\ chain[i].kind \in Signature
         /\ \A i, j \in Index : i < j => chain[i].tx <= chain[j].tx
         /\ \A i \in Index :
              chain[i].kind \in Deposits \cup Redemptions \cup Mints => Place(i) \in Holding
         /\ \A i \in Index : chain[i].date \in Nat /\ chain[i].vault \in Vault
<1>1. /\ chain \in Seq(Log)
      /\ \A i \in Index : chain[i].tx \in Nat \ {0}
      /\ \A i, j \in Index : i < j => chain[i].tx <= chain[j].tx
      /\ \A i \in Index :
           chain[i].kind \in Deposits \cup Redemptions \cup Mints => chain[i].position \in Position
  BY HandlersAssumption DEF Index
<1>2. Len(chain) \in Nat /\ Index = 1..Len(chain)
  BY <1>1 DEF Index
<1>3. IsFiniteSet(Index) /\ Index \in SUBSET Nat
  BY <1>2, FS_Interval
<1>4. \A i \in Index : chain[i] \in Log
  BY <1>1, <1>2
<1>5. \A i \in Index : chain[i].kind \in Signature /\ chain[i].date \in Nat /\ chain[i].vault \in Vault
  BY <1>4 DEF Log, Vault
<1>6. \A i \in Index :
        chain[i].kind \in Deposits \cup Redemptions \cup Mints => Place(i) \in Holding
  BY <1>1, <1>5 DEF Place, Holding
<1> QED
  BY <1>1, <1>2, <1>3, <1>4, <1>5, <1>6

\* What is defined from the chain stays with it.
LEMMA SameChain ==
  ASSUME UNCHANGED chain
  PROVE  /\ Index' = Index /\ Vault' = Vault /\ Holding' = Holding /\ Height' = Height
         /\ \A i : Place(i)' = Place(i)
BY DEF Index, Vault, Holding, Height, Place

\* InOrder lists every log of S once, in ascending order.
LEMMA InOrderAscends ==
  ASSUME chain \in Chains, NEW S \in SUBSET Index
  PROVE  /\ Cardinality(S) \in Nat
         /\ InOrder(S) \in Seq(Index) /\ Len(InOrder(S)) = Cardinality(S)
         /\ Logs(InOrder(S)) = S
         /\ \A a, b \in 1..Cardinality(S) : a < b => InOrder(S)[a] < InOrder(S)[b]
<1> DEFINE n == Cardinality(S)
           Upto(i) == {j \in S : j <= i}
           rank == [i \in S |-> Cardinality(Upto(i))]
           s == InOrder(S)
<1>1. IsFiniteSet(S) /\ \A i \in S : i \in Nat
  BY TheChain, FS_Subset
<1>2. n \in Nat
  BY <1>1, FS_CardinalityType
<1>3. ASSUME NEW i \in S
      PROVE  IsFiniteSet(Upto(i)) /\ Cardinality(Upto(i)) \in 1..n
  <2>1. IsFiniteSet(Upto(i)) /\ Cardinality(Upto(i)) <= n
    BY <1>1, FS_Subset
  <2>2. i \in Upto(i)
    BY <1>1
  <2>3. Cardinality(Upto(i)) \in Nat \ {0}
    BY <2>1, <2>2, FS_CardinalityType, FS_EmptySet
  <2> QED
    BY <1>2, <2>1, <2>3
<1>4. ASSUME NEW i \in S, NEW j \in S, i < j
      PROVE  Cardinality(Upto(i)) < Cardinality(Upto(j))
  <2>1. \A k \in S : k <= i => k <= j
    BY <1>1, <1>4
  <2>2. j <= j /\ ~(j <= i)
    BY <1>1, <1>4
  <2>3. Upto(i) \in SUBSET Upto(j) /\ j \in Upto(j) /\ j \notin Upto(i)
    BY <2>1, <2>2
  <2>4. Cardinality(Upto(i)) <= Cardinality(Upto(j)) /\ Cardinality(Upto(i)) # Cardinality(Upto(j))
    BY <1>3, <2>3, FS_Subset
  <2> HIDE DEF Upto
  <2>5. Cardinality(Upto(i)) \in Nat /\ Cardinality(Upto(j)) \in Nat
    BY <1>2, <1>3
  <2> QED
    BY <2>4, <2>5
<1> HIDE DEF n
<1>5. rank \in [S -> 1..n] /\ \A i \in S : rank[i] = Cardinality(Upto(i))
  BY <1>3
<1> HIDE DEF rank
<1>6. ASSUME NEW i \in S, NEW j \in S
      PROVE  (rank[i] = rank[j] => i = j) /\ (rank[i] < rank[j] => i < j)
  <2>1. rank[i] \in Nat /\ rank[j] \in Nat /\ i \in Nat /\ j \in Nat
    BY <1>1, <1>2, <1>5
  <2>2. (i < j => rank[i] < rank[j]) /\ (j < i => rank[j] < rank[i])
    BY <1>4, <1>5
  <2> QED
    BY <2>1, <2>2
<1>7. \A k \in 1..n : \E i \in S : rank[i] = k
  <2>1. rank \in Injection(S, 1..n)
    BY <1>5, <1>6 DEF Injection, IsInjective
  <2>2. IsFiniteSet(1..n) /\ Cardinality(1..n) = n
    BY <1>2, FS_Interval
  <2>3. rank \in Surjection(S, 1..n)
    BY <2>1, <2>2, FS_Injection DEF n
  <2> QED
    BY <2>3 DEF Surjection
<1>8. ASSUME NEW k \in 1..n
      PROVE  s[k] \in S /\ rank[s[k]] = k
  <2>1. s[k] = CHOOSE i \in S : Cardinality(Upto(i)) = k
    BY DEF InOrder, n
  <2>2. \E i \in S : Cardinality(Upto(i)) = k
    BY <1>5, <1>7
  <2> HIDE DEF s
  <2>3. s[k] \in S /\ Cardinality(Upto(s[k])) = k
    BY <2>1, <2>2
  <2> QED
    BY <1>5, <2>3
<1>9. s \in [1..n -> S]
  <2>1. s = [k \in 1..n |-> CHOOSE i \in S : Cardinality(Upto(i)) = k]
    BY DEF InOrder, n
  <2> HIDE DEF s, Upto
  <2> QED
    BY <1>8, <2>1
<1> HIDE DEF s
<1>10. s \in Seq(Index) /\ Len(s) = n /\ DOMAIN s = 1..n
  <2>1. s \in [1..n -> Index]
    BY <1>9
  <2> QED
    BY <1>2, <2>1
<1>11. Logs(s) = S
  <2>1. ASSUME NEW i \in S
        PROVE  rank[i] \in 1..n /\ s[rank[i]] = i
    BY <1>5, <1>6, <1>8
  <2> QED
    BY <1>8, <1>10, <2>1 DEF Logs
<1>12. \A a, b \in 1..n : a < b => s[a] < s[b]
  BY <1>6, <1>8
<1> QED
  BY <1>2, <1>10, <1>11, <1>12 DEF s, n

\* The requests by range and by position hand over sequences of logs.
LEMMA GroupedType ==
  ASSUME chain \in Chains, NEW S \in SUBSET Index, NEW group, NEW s \in Grouped(S, group)
  PROVE  s \in Seq(Index)
<1>1. Cardinality(S) \in Nat
  BY InOrderAscends
<1>2. s \in [1..Cardinality(S) -> Index]
  BY DEF Grouped
<1> QED
  BY <1>1, <1>2

\* Every log of s stands in relation R to those behind it.
Related(s, R) == \A a, b \in DOMAIN s : a < b => <<s[a], s[b]>> \in R

LEMMA ConcatLogs ==
  ASSUME NEW I, NEW s \in Seq(I), NEW t \in Seq(I)
  PROVE  /\ s \o t \in Seq(I)
         /\ Logs(s \o t) = Logs(s) \cup Logs(t)
         /\ \A R : (/\ Related(s, R) /\ Related(t, R)
                    /\ \A x \in Logs(s), y \in Logs(t) : <<x, y>> \in R) => Related(s \o t, R)
<1> DEFINE u == s \o t
           m == Len(s)
           n == Len(t)
<1>1. m \in Nat /\ DOMAIN s = 1..m /\ n \in Nat /\ DOMAIN t = 1..n
  OBVIOUS
<1>2. /\ u \in Seq(I) /\ DOMAIN u = 1..(m + n)
      /\ \A a \in 1..m : u[a] = s[a]
      /\ \A a \in 1..(m + n) : a > m => u[a] = t[a - m]
  OBVIOUS
<1> HIDE DEF u, m, n
<1>3. \A a \in 1..m : a \in 1..(m + n) /\ u[a] = s[a]
  BY <1>1, <1>2
<1>4. \A a \in 1..n : a + m \in 1..(m + n) /\ u[a + m] = t[a]
  <2> TAKE a \in 1..n
  <2>1. a + m \in 1..(m + n) /\ a + m > m /\ (a + m) - m = a
    BY <1>1
  <2> QED
    BY <1>2, <2>1
<1>5. \A a \in 1..(m + n) : (a \in 1..m /\ u[a] = s[a]) \/ (a - m \in 1..n /\ u[a] = t[a - m])
  <2> TAKE a \in 1..(m + n)
  <2>1. CASE a <= m
    BY <1>1, <1>2, <2>1
  <2>2. CASE a > m
    <3>1. a - m \in 1..n
      BY <1>1, <2>2
    <3> QED
      BY <1>2, <2>2, <3>1
  <2> QED
    BY <1>1, <2>1, <2>2
<1>6. Logs(u) = Logs(s) \cup Logs(t)
  <2>1. \A x \in Logs(u) : x \in Logs(s) \cup Logs(t)
    BY <1>1, <1>2, <1>5 DEF Logs
  <2>2. \A x \in Logs(s) : x \in Logs(u)
    BY <1>1, <1>2, <1>3 DEF Logs
  <2>3. \A a \in 1..n : t[a] \in Logs(u)
    <3> TAKE a \in 1..n
    <3>1. a + m \in DOMAIN u /\ u[a + m] = t[a]
      BY <1>2, <1>4
    <3> QED
      BY <3>1 DEF Logs
  <2> QED
    BY <1>1, <2>1, <2>2, <2>3 DEF Logs
<1>7. ASSUME NEW R, Related(s, R), Related(t, R),
             \A x \in Logs(s), y \in Logs(t) : <<x, y>> \in R
      PROVE  Related(u, R)
  <2> SUFFICES ASSUME NEW a \in 1..(m + n), NEW b \in 1..(m + n), a < b
               PROVE  <<u[a], u[b]>> \in R
    BY <1>2 DEF Related
  <2>1. CASE b <= m
    <3>1. a \in 1..m /\ b \in 1..m
      BY <1>1, <2>1
    <3> QED
      BY <1>1, <1>3, <1>7, <3>1 DEF Related
  <2>2. CASE a > m
    <3>1. a - m \in 1..n /\ b - m \in 1..n /\ a - m < b - m /\ b > m
      BY <1>1, <2>2
    <3> QED
      BY <1>1, <1>2, <1>7, <2>2, <3>1 DEF Related
  <2>3. CASE a <= m /\ b > m
    <3>1. a \in 1..m /\ b - m \in 1..n
      BY <1>1, <2>3
    <3>2. u[a] \in Logs(s) /\ u[b] \in Logs(t)
      BY <1>1, <1>2, <2>3, <3>1 DEF Logs
    <3> QED
      BY <1>7, <3>2
  <2> QED
    BY <1>1, <2>1, <2>2, <2>3
<1> QED
  BY <1>2, <1>6, <1>7 DEF u

LEMMA TailLogs ==
  ASSUME NEW I, NEW s \in Seq(I), s # << >>
  PROVE  /\ Head(s) \in I /\ Tail(s) \in Seq(I)
         /\ Head(s) \in Logs(s) /\ Logs(s) = Logs(Tail(s)) \cup {Head(s)}
         /\ (Tail(s) = << >> <=> Len(s) = 1)
         /\ \A R : Related(s, R) =>
              Related(Tail(s), R) /\ \A y \in Logs(Tail(s)) : <<Head(s), y>> \in R
<1> DEFINE t == Tail(s)
           n == Len(s)
<1>1. n \in Nat /\ n >= 1 /\ DOMAIN s = 1..n
  OBVIOUS
<1>2. /\ Head(s) = s[1] /\ s[1] \in I
      /\ t \in Seq(I) /\ Len(t) = n - 1 /\ DOMAIN t = 1..(n - 1)
      /\ \A a \in 1..(n - 1) : t[a] = s[a + 1]
  OBVIOUS
<1> HIDE DEF t, n
<1>3. t = << >> <=> n = 1
  <2>1. t \in Seq(I)
    BY <1>2
  <2>2. t = << >> <=> Len(t) = 0
    BY <2>1
  <2> QED
    BY <1>1, <1>2, <2>2
<1>4. 1 \in 1..n /\ \A a \in 1..(n - 1) : a + 1 \in 1..n /\ t[a] = s[a + 1]
  BY <1>1, <1>2
<1>5. \A b \in 1..n : b = 1 \/ (b - 1 \in 1..(n - 1) /\ t[b - 1] = s[b])
  <2> TAKE b \in 1..n
  <2>1. b = 1 \/ (b - 1 \in 1..(n - 1) /\ (b - 1) + 1 = b)
    BY <1>1
  <2> QED
    BY <1>2, <2>1
<1>6. Head(s) \in Logs(s) /\ Logs(s) = Logs(t) \cup {Head(s)}
  <2>1. \A b \in 1..n : s[b] \in Logs(t) \/ s[b] = Head(s)
    BY <1>2, <1>5 DEF Logs
  <2>2. Head(s) \in Logs(s) /\ \A x \in Logs(t) : x \in Logs(s)
    BY <1>1, <1>2, <1>4 DEF Logs
  <2> QED
    BY <1>1, <2>1, <2>2 DEF Logs
<1>7. ASSUME NEW R, Related(s, R)
      PROVE  Related(t, R) /\ \A y \in Logs(t) : <<Head(s), y>> \in R
  <2>1. ASSUME NEW a \in 1..(n - 1), NEW b \in 1..(n - 1), a < b
        PROVE  <<t[a], t[b]>> \in R
    <3>1. a + 1 \in 1..n /\ b + 1 \in 1..n /\ a + 1 < b + 1
      BY <1>1, <2>1
    <3> QED
      BY <1>1, <1>2, <1>7, <3>1 DEF Related
  <2>2. ASSUME NEW a \in 1..(n - 1)
        PROVE  <<Head(s), t[a]>> \in R
    <3>1. a + 1 \in 1..n /\ 1 < a + 1
      BY <1>1
    <3> QED
      BY <1>1, <1>2, <1>4, <1>7, <3>1 DEF Related
  <2> QED
    BY <1>2, <2>1, <2>2 DEF Related, Logs
<1> QED
  BY <1>2, <1>3, <1>6, <1>7 DEF t, n

\* The relation that the two passes keep, when the logs of added come from
\* receipts: deposits first, and otherwise the order of the chain.
PassOrder(added) ==
  {xy \in Index \X Index :
     /\ chain[xy[2]].kind \in Deposits => chain[xy[1]].kind \in Deposits
     /\ chain[xy[1]].kind \notin Deposits /\ xy[2] \notin added => xy[1] < xy[2]}

LEMMA TwoPassesOrder ==
  ASSUME chain \in Chains, NEW S \in SUBSET Index, NEW added \in SUBSET Index,
         S \cap added = {}
  PROVE  /\ TwoPasses(S, added) \in Seq(Index)
         /\ Logs(TwoPasses(S, added)) = S \cup added
         /\ Related(TwoPasses(S, added), PassOrder(added))
<1> DEFINE R == PassOrder(added)
           d1 == InOrder(AreDeposits(S))
           d2 == InOrder(AreDeposits(added))
           o1 == InOrder(S \ AreDeposits(S))
           o2 == InOrder(added \ AreDeposits(added))
<1>1. /\ AreDeposits(S) \in SUBSET Index /\ AreDeposits(added) \in SUBSET Index
      /\ S \ AreDeposits(S) \in SUBSET Index /\ added \ AreDeposits(added) \in SUBSET Index
      /\ \A x \in AreDeposits(S) \cup AreDeposits(added) : chain[x].kind \in Deposits
      /\ \A x \in (S \ AreDeposits(S)) \cup (added \ AreDeposits(added)) : chain[x].kind \notin Deposits
  BY DEF AreDeposits
<1>2. ASSUME NEW T \in SUBSET Index,
             \A x, y \in T : x < y => <<x, y>> \in R
      PROVE  InOrder(T) \in Seq(Index) /\ Logs(InOrder(T)) = T /\ Related(InOrder(T), R)
  <2> DEFINE s == InOrder(T)
  <2>1. /\ Cardinality(T) \in Nat /\ s \in Seq(Index) /\ Len(s) = Cardinality(T) /\ Logs(s) = T
        /\ \A a, b \in 1..Cardinality(T) : a < b => s[a] < s[b]
    BY InOrderAscends
  <2> HIDE DEF s
  <2>2. DOMAIN s = 1..Cardinality(T) /\ \A a \in DOMAIN s : s[a] \in T
    BY <2>1 DEF Logs
  <2> QED
    BY <1>2, <2>1, <2>2 DEF Related, s
<1>3. d1 \in Seq(Index) /\ Logs(d1) = AreDeposits(S) /\ Related(d1, R)
  BY <1>1, <1>2 DEF PassOrder
<1>4. d2 \in Seq(Index) /\ Logs(d2) = AreDeposits(added) /\ Related(d2, R)
  BY <1>1, <1>2 DEF PassOrder
<1>5. o1 \in Seq(Index) /\ Logs(o1) = S \ AreDeposits(S) /\ Related(o1, R)
  BY <1>1, <1>2 DEF PassOrder
<1>6. o2 \in Seq(Index) /\ Logs(o2) = added \ AreDeposits(added) /\ Related(o2, R)
  BY <1>1, <1>2 DEF PassOrder
<1>7. /\ \A x, y \in AreDeposits(S) \cup AreDeposits(added) : <<x, y>> \in R
      /\ \A x \in AreDeposits(S) \cup AreDeposits(added) :
           \A y \in (S \ AreDeposits(S)) \cup (added \ AreDeposits(added)) : <<x, y>> \in R
      /\ \A x \in S \ AreDeposits(S), y \in added \ AreDeposits(added) : <<x, y>> \in R
  BY <1>1 DEF PassOrder
<1> DEFINE e1 == d1 \o d2
           e2 == e1 \o o1
<1> HIDE DEF d1, d2, o1, o2, R
<1>8. e1 \in Seq(Index) /\ Logs(e1) = AreDeposits(S) \cup AreDeposits(added) /\ Related(e1, R)
  BY <1>3, <1>4, <1>7, ConcatLogs
<1> HIDE DEF e1
<1>9. e2 \in Seq(Index) /\ Logs(e2) = Logs(e1) \cup (S \ AreDeposits(S)) /\ Related(e2, R)
  <2>1. \A x \in Logs(e1), y \in Logs(o1) : <<x, y>> \in R
    BY <1>5, <1>7, <1>8
  <2> QED
    BY <1>5, <1>8, <2>1, ConcatLogs
<1> HIDE DEF e2
<1>10. \A x \in Logs(e2), y \in Logs(o2) : <<x, y>> \in R
  BY <1>6, <1>7, <1>8, <1>9
<1>11. e2 \o o2 \in Seq(Index) /\ Logs(e2 \o o2) = Logs(e2) \cup Logs(o2) /\ Related(e2 \o o2, R)
  BY <1>6, <1>9, <1>10, ConcatLogs
<1>12. AreDeposits(S) \cup (S \ AreDeposits(S)) = S
       /\ AreDeposits(added) \cup (added \ AreDeposits(added)) = added
  BY DEF AreDeposits
<1>13. TwoPasses(S, added) = e2 \o o2
  BY DEF TwoPasses, d1, d2, o1, o2, e1, e2
<1> QED
  BY <1>6, <1>8, <1>9, <1>11, <1>12, <1>13 DEF R

-----------------------------------------------------------------------------
(* Types.                                                                  *)

StoreOK ==
  /\ docs \in SUBSET Index
  /\ done \in [Index -> Nat]
  /\ position \in [Holding -> {"none", "active", "completed"}]
  /\ depositTime \in [Holding -> Nat]
  /\ scheduled \in SUBSET Index /\ buyouts \in SUBSET Index
  /\ counted \in [Index -> [Holding -> Nat]]
  /\ booked \in [Index -> [Holding -> Nat]]
  /\ status \in Index \cup {0}

WorkersOK ==
  /\ at \in [Worker -> Call]
  /\ todo \in [Worker -> Seq(Index)]
  /\ \A w \in Worker : at[w] = "idle" <=> todo[w] = << >>
  /\ mode \in [Worker -> Mode]
  /\ list \in [Worker -> SUBSET Holding]
  /\ buyout \in [Worker -> Index \cup {0}]

ExcuseOK == excuse \in [Index -> SUBSET Mishap]

FaultsOK == faults \in 0..MaxFaults

LEMMA HandlersTypes ==
  HandlersTypeOK <=> chain \in Chains /\ StoreOK /\ WorkersOK /\ ExcuseOK /\ FaultsOK
BY DEF HandlersTypeOK, StoreOK, WorkersOK, ExcuseOK, FaultsOK

LEMMA TheJob ==
  ASSUME chain \in Chains, WorkersOK, NEW w \in Worker, Working(w)
  PROVE  /\ Job(w) \in Index /\ todo[w] \in Seq(Index) /\ Tail(todo[w]) \in Seq(Index)
         /\ Job(w) \in Logs(todo[w]) /\ Logs(todo[w]) = Logs(Tail(todo[w])) \cup {Job(w)}
         /\ (Tail(todo[w]) = << >> <=> Len(todo[w]) = 1)
         /\ chain[Job(w)].kind \in Signature
<1>1. todo[w] \in Seq(Index) /\ todo[w] # << >>
  BY DEF WorkersOK, Working
<1>2. /\ Head(todo[w]) \in Index /\ Tail(todo[w]) \in Seq(Index)
      /\ Head(todo[w]) \in Logs(todo[w]) /\ Logs(todo[w]) = Logs(Tail(todo[w])) \cup {Head(todo[w])}
      /\ (Tail(todo[w]) = << >> <=> Len(todo[w]) = 1)
  BY <1>1, TailLogs
<1>3. chain[Head(todo[w])].kind \in Signature
  BY <1>2, TheChain
<1> QED
  BY <1>1, <1>2, <1>3 DEF Job

LEMMA FirstCalls ==
  ASSUME NEW i, chain[i].kind \in Signature
  PROVE  /\ FirstCall(i) \in {"apply", "create", "check"}
         /\ FirstCall(i) = "apply" <=> chain[i].kind \in Mints
         /\ FirstCall(i) = "create" <=> chain[i].kind \in StatusEvents
         /\ FirstCall(i) = "check" <=> chain[i].kind \notin Mints \cup StatusEvents
         /\ AfterCheck(i) \in {"apply", "list", "create"}
         /\ AfterCheck(i) = "apply" <=> chain[i].kind \in Undocumented
         /\ AfterCheck(i) = "list" <=> chain[i].kind = "BuyoutScheduled"
BY DEF FirstCall, AfterCheck, Mints, StatusEvents, Undocumented

LEMMA ReadyType ==
  ASSUME chain \in Chains, NEW m \in Mode, NEW s \in Seq(Index)
  PROVE  /\ Ready(m, s) \in Call
         /\ Ready(m, s) = "idle" <=> s = << >>
         /\ s # << >> /\ m \in {"none", "forced"} => Ready(m, s) = FirstCall(Head(s))
         /\ s # << >> /\ m \notin {"none", "forced"} => Ready(m, s) = "lookup"
<1>1. CASE s = << >>
  BY <1>1 DEF Ready, Call
<1>2. CASE s # << >>
  <2>1. chain[Head(s)].kind \in Signature
    BY <1>2, TailLogs, TheChain
  <2>2. FirstCall(Head(s)) \in {"apply", "create", "check"}
    BY <2>1, FirstCalls
  <2> QED
    BY <1>2, <2>2 DEF Ready, Call, Mode
<1> QED
  BY <1>1, <1>2

LEMMA FinishType ==
  ASSUME chain \in Chains, WorkersOK, NEW w \in Worker, Working(w), NEW from, Finish(w, from)
  PROVE  WorkersOK'
<1> DEFINE s == Tail(todo[w])
<1>1. s \in Seq(Index) /\ mode[w] \in Mode
  BY TheJob DEF WorkersOK
<1>2. Ready(mode[w], s) \in Call /\ (Ready(mode[w], s) = "idle" <=> s = << >>)
  BY <1>1, ReadyType
<1>3. /\ todo' = [todo EXCEPT ![w] = s]
      /\ at' = [at EXCEPT ![w] = Ready(mode[w], s)]
      /\ mode' = [mode EXCEPT ![w] = IF Len(todo[w]) = 1 THEN "none" ELSE mode[w]]
      /\ list' = [list EXCEPT ![w] = {}]
      /\ buyout' = [buyout EXCEPT ![w] = 0]
      /\ Index' = Index /\ Holding' = Holding
  BY SameChain DEF Finish, WorkersOK
<1> HIDE DEF s
<1> QED
  BY <1>1, <1>2, <1>3 DEF WorkersOK, Mode

LEMMA ProceedType ==
  ASSUME chain \in Chains, WorkersOK, NEW w \in Worker, Working(w), NEW from,
         NEW to \in Call \ {"idle"}, Proceed(w, from, to),
         list' \in [Worker -> SUBSET Holding], buyout' \in [Worker -> Index \cup {0}]
  PROVE  WorkersOK'
<1>1. /\ at' = [at EXCEPT ![w] = to] /\ UNCHANGED <<todo, mode>>
      /\ Index' = Index /\ Holding' = Holding
  BY SameChain DEF Proceed
<1> QED
  BY <1>1 DEF WorkersOK, Working

LEMMA SumType == \A S : SumOf(S) \in [Holding -> Nat]
BY DEF SumOf

LEMMA EffectType ==
  ASSUME chain \in Chains, StoreOK, NEW i \in Index, NEW listed, Effect(i, listed), UNCHANGED chain
  PROVE  StoreOK'
<1>1. Index' = Index /\ Holding' = Holding
  BY SameChain
<1>2. Positions(i) \in [Holding -> {"none", "active", "completed"}]
  BY DEF Positions, StoreOK
<1>3. done' \in [Index -> Nat]
  BY DEF Effect, StoreOK
<1>4. status' \in Index \cup {0}
  BY DEF Effect, StoreOK, VaultStatus
<1>5. DepositTimes(i) \in [Holding -> Nat]
  BY TheChain DEF DepositTimes, StoreOK
<1>6. scheduled' \in SUBSET Index /\ buyouts' \in SUBSET Index
  <2>1. scheduled' \in {scheduled, {}} /\ buyouts' \in {buyouts, {}, buyouts \cup {i}}
    BY DEF Effect
  <2> QED
    BY <2>1 DEF StoreOK
<1>7. booked' \in [Index -> [Holding -> Nat]]
  <2>1. booked' = booked \/ booked' = [booked EXCEPT ![i] = SumOf(listed)]
    BY DEF Effect
  <2> QED
    BY <2>1, SumType DEF StoreOK
<1> QED
  BY <1>1, <1>2, <1>3, <1>4, <1>5, <1>6, <1>7 DEF Effect, StoreOK

LEMMA DocumentType ==
  ASSUME chain \in Chains, StoreOK, WorkersOK, NEW w \in Worker, Working(w), Document(w),
         UNCHANGED chain
  PROVE  StoreOK'
<1>1. Index' = Index /\ Holding' = Holding /\ Job(w) \in Index
  BY TheJob, SameChain
<1>2. counted' \in [Index -> [Holding -> Nat]]
  <2>1. counted' = counted \/ counted' = [counted EXCEPT ![Job(w)] = SumOf(list[w])]
    BY DEF Document
  <2>2. SumOf(list[w]) \in [Holding -> Nat] /\ counted \in [Index -> [Holding -> Nat]]
    BY SumType DEF StoreOK
  <2> DEFINE sum == SumOf(list[w])
             j == Job(w)
  <2>3. \A f \in [Index -> [Holding -> Nat]] : \A g \in [Holding -> Nat] :
          [f EXCEPT ![j] = g] \in [Index -> [Holding -> Nat]]
    OBVIOUS
  <2>4. counted' \in [Index -> [Holding -> Nat]]
    BY <2>1, <2>2, <2>3
  <2> QED
    BY <1>1, <2>4
<1>3. scheduled' \in SUBSET Index
  BY <1>1 DEF Document, StoreOK
<1> QED
  BY <1>1, <1>2, <1>3 DEF Document, StoreOK, holdings

LEMMA NoteType ==
  ASSUME ExcuseOK, UNCHANGED chain,
         \/ UNCHANGED excuse
         \/ \E i : \E what \in Mishap : Note(i, what)
  PROVE  ExcuseOK'
BY DEF ExcuseOK, Note, Index

LEMMA FaultType ==
  ASSUME FaultsOK, Fault \/ UNCHANGED faults
  PROVE  FaultsOK'
BY HandlersAssumption DEF FaultsOK, Fault

LEMMA AfterCreateType ==
  ASSUME chain \in Chains, WorkersOK, NEW w \in Worker, Working(w), AfterCreate(w)
  PROVE  WorkersOK' /\ UNCHANGED chain
<1>1. "apply" \in Call \ {"idle"}
  BY DEF Call
<1>2. Finish(w, "create") \/ (Proceed(w, "create", "apply") /\ UNCHANGED findings)
  BY DEF AfterCreate
<1>3. CASE Finish(w, "create")
  BY <1>3, FinishType DEF Finish
<1>4. CASE Proceed(w, "create", "apply") /\ UNCHANGED findings
  BY <1>1, <1>4, ProceedType DEF Proceed, WorkersOK, findings
<1> QED
  BY <1>2, <1>3, <1>4

LEMMA AfterApplyType ==
  ASSUME chain \in Chains, WorkersOK, NEW w \in Worker, Working(w), AfterApply(w)
  PROVE  WorkersOK' /\ UNCHANGED chain
<1>1. "create" \in Call \ {"idle"} /\ "tally" \in Call \ {"idle"}
  BY DEF Call
<1>2. \/ Finish(w, "apply")
      \/ Proceed(w, "apply", "create") /\ UNCHANGED findings
      \/ Proceed(w, "apply", "tally") /\ UNCHANGED findings
  BY DEF AfterApply
<1>3. CASE Finish(w, "apply")
  BY <1>3, FinishType DEF Finish
<1>4. CASE Proceed(w, "apply", "create") /\ UNCHANGED findings
  BY <1>1, <1>4, ProceedType DEF Proceed, WorkersOK, findings
<1>5. CASE Proceed(w, "apply", "tally") /\ UNCHANGED findings
  BY <1>1, <1>5, ProceedType DEF Proceed, WorkersOK, findings
<1> QED
  BY <1>2, <1>3, <1>4, <1>5

LEMMA SameStore ==
  ASSUME StoreOK, UNCHANGED store, UNCHANGED chain
  PROVE  StoreOK'
BY SameChain DEF StoreOK, store, holdings, sums

LEMMA Incremented ==
  ASSUME StoreOK, NEW f \in [Index -> [Holding -> Nat]], NEW b, NEW h
  PROVE  [f EXCEPT ![b][h] = @ + 1] \in [Index -> [Holding -> Nat]]
<1>1. CASE b \in Index /\ h \in Holding
  <2>1. f[b] \in [Holding -> Nat] /\ f[b][h] + 1 \in Nat
    BY <1>1
  <2>2. [f[b] EXCEPT ![h] = @ + 1] \in [Holding -> Nat]
    BY <1>1, <2>1
  <2> QED
    BY <1>1, <2>2
<1>2. CASE b \in Index /\ h \notin Holding
  <2>1. [f[b] EXCEPT ![h] = @ + 1] = f[b]
    BY <1>2
  <2> QED
    BY <1>2, <2>1
<1>3. CASE b \notin Index
  BY <1>3
<1> QED
  BY <1>1, <1>2, <1>3

LEMMA FundedType ==
  ASSUME StoreOK, NEW w \in Worker, Funded(w) \/ Booked(w), UNCHANGED chain
  PROVE  StoreOK'
<1>1. Index' = Index /\ Holding' = Holding
  BY SameChain
<1>2. CASE Funded(w)
  <2>1. counted' \in [Index -> [Holding -> Nat]]
    BY <1>2, Incremented DEF Funded, StoreOK
  <2> QED
    BY <1>1, <1>2, <2>1 DEF Funded, StoreOK, holdings
<1>3. CASE Booked(w)
  <2>1. booked' \in [Index -> [Holding -> Nat]]
    <3>1. \/ booked' = booked
          \/ \E b \in buyouts : booked' = [booked EXCEPT ![b][Place(Job(w))] = @ + 1]
      BY <1>3 DEF Booked
    <3>2. booked \in [Index -> [Holding -> Nat]]
      BY DEF StoreOK
    <3> QED
      BY <3>1, <3>2, Incremented
  <2> QED
    BY <1>1, <1>3, <2>1 DEF Booked, StoreOK, holdings
<1> QED
  BY <1>2, <1>3

\* A step of a handler keeps the types (one case for each remote call).
LEMMA HandleType ==
  ASSUME HandlersTypeOK, NEW w \in Worker, Handle(w)
  PROVE  HandlersTypeOK'
<1>1. chain \in Chains /\ StoreOK /\ WorkersOK /\ ExcuseOK /\ FaultsOK /\ Working(w)
  BY HandlersTypes DEF Handle
<1> DEFINE i == Job(w)
<1>2. /\ i \in Index /\ FirstCall(i) \in Call \ {"idle"} /\ AfterCheck(i) \in Call \ {"idle"}
      /\ {"apply", "weigh", "fund", "book"} \subseteq Call \ {"idle"}
  BY <1>1, TheJob, FirstCalls DEF Call
<1>3. \A what \in {"refused", "blind", "raced", "overtaken"} : what \in Mishap
  BY DEF Mishap
<1> HIDE DEF i
<1> SUFFICES StoreOK' /\ WorkersOK' /\ ExcuseOK' /\ FaultsOK' /\ UNCHANGED chain
  <2>1. chain' = chain => chain' \in Chains
    BY <1>1
  <2> QED
    BY <2>1, HandlersTypes DEF HandlersTypeOK, StoreOK, WorkersOK, ExcuseOK, FaultsOK
<1>4. CASE Lookup(w)
  <2>1. UNCHANGED <<store, excuse>>
    BY <1>4 DEF Lookup
  <2>2. Finish(w, "lookup") \/ (Proceed(w, "lookup", FirstCall(i)) /\ UNCHANGED findings)
    BY <1>4 DEF Lookup, i
  <2>3. WorkersOK' /\ UNCHANGED chain
    <3>1. CASE Finish(w, "lookup")
      BY <1>1, <3>1, FinishType DEF Finish
    <3>2. CASE Proceed(w, "lookup", FirstCall(i)) /\ UNCHANGED findings
      BY <1>1, <1>2, <3>2, ProceedType DEF Proceed, WorkersOK, findings
    <3> QED
      BY <2>2, <3>1, <3>2
  <2>4. Fault \/ UNCHANGED faults
    BY <1>4 DEF Lookup
  <2> QED
    BY <1>1, <2>1, <2>3, <2>4, SameStore, NoteType, FaultType
<1>5. CASE SkipDuplicate(w) \/ SkipUnsupported(w)
  <2>1. Finish(w, "check") /\ UNCHANGED <<store, faults>>
    BY <1>5 DEF SkipDuplicate, SkipUnsupported
  <2>2. UNCHANGED excuse \/ Note(i, "overtaken")
    BY <1>5 DEF SkipDuplicate, SkipUnsupported, i
  <2>3. WorkersOK' /\ UNCHANGED chain
    BY <1>1, <2>1, FinishType DEF Finish
  <2> QED
    BY <1>1, <1>3, <2>1, <2>2, <2>3, SameStore, NoteType, FaultType
<1>6. CASE FoundNothing(w) \/ FoundError(w)
  <2>1. Proceed(w, "check", AfterCheck(i)) /\ UNCHANGED <<store, findings>> /\ (Fault \/ UNCHANGED faults)
    BY <1>6 DEF FoundNothing, FoundError, i
  <2>2. UNCHANGED excuse \/ Note(i, "raced") \/ Note(i, "blind")
    BY <1>6 DEF FoundNothing, FoundError, i
  <2>3. WorkersOK' /\ UNCHANGED chain
    BY <1>1, <1>2, <2>1, ProceedType DEF Proceed, WorkersOK, findings
  <2> QED
    BY <1>1, <1>3, <2>1, <2>2, <2>3, SameStore, NoteType, FaultType
<1>7. CASE Undecodable(w)
  <2>1. PICK from : Finish(w, from)
    BY <1>7 DEF Undecodable
  <2>2. Fault /\ Note(i, "refused") /\ UNCHANGED store
    BY <1>7 DEF Undecodable, i
  <2>3. WorkersOK' /\ UNCHANGED chain
    BY <1>1, <2>1, FinishType DEF Finish
  <2> QED
    BY <1>1, <1>3, <2>2, <2>3, SameStore, NoteType, FaultType
<1>8. CASE ListPositions(w)
  <2>1. Proceed(w, "list", "apply") /\ UNCHANGED store
    BY <1>8 DEF ListPositions
  <2>2. list' \in [Worker -> SUBSET Holding] /\ buyout' \in [Worker -> Index \cup {0}]
    BY <1>1, <1>8 DEF ListPositions, WorkersOK
  <2>3. (UNCHANGED excuse /\ UNCHANGED faults) \/ (Note(i, "blind") /\ Fault)
    BY <1>8 DEF ListPositions, i
  <2>4. WorkersOK' /\ UNCHANGED chain
    BY <1>1, <1>2, <2>1, <2>2, ProceedType DEF Proceed
  <2> QED
    BY <1>1, <1>3, <2>1, <2>3, <2>4, SameStore, NoteType, FaultType
<1>9. CASE Create(w)
  <2>1. AfterCreate(w) /\ Document(w) /\ UNCHANGED <<excuse, faults>>
    BY <1>9 DEF Create
  <2>2. WorkersOK' /\ UNCHANGED chain
    BY <1>1, <2>1, AfterCreateType
  <2>3. StoreOK'
    BY <1>1, <2>1, <2>2, DocumentType
  <2> QED
    BY <1>1, <2>1, <2>2, <2>3, NoteType, FaultType
<1>10. CASE CreateFails(w)
  <2>1. Fault /\ (Document(w) \/ UNCHANGED store)
    BY <1>10 DEF CreateFails
  <2>2. (AfterCreate(w) /\ UNCHANGED excuse) \/ (Finish(w, "create") /\ Note(i, "refused"))
    BY <1>10 DEF CreateFails, i
  <2>3. WorkersOK' /\ UNCHANGED chain
    BY <1>1, <2>2, AfterCreateType, FinishType DEF Finish
  <2>4. StoreOK'
    BY <1>1, <2>1, <2>3, DocumentType, SameStore
  <2> QED
    BY <1>1, <1>3, <2>1, <2>2, <2>3, <2>4, NoteType, FaultType
<1>11. CASE Apply(w)
  <2>1. AfterApply(w) /\ Effect(i, list[w]) /\ UNCHANGED <<excuse, faults>>
    BY <1>11 DEF Apply, i
  <2>2. WorkersOK' /\ UNCHANGED chain
    BY <1>1, <2>1, AfterApplyType
  <2>3. StoreOK'
    BY <1>1, <1>2, <2>1, <2>2, EffectType
  <2> QED
    BY <1>1, <2>1, <2>2, <2>3, NoteType, FaultType
<1>12. CASE ApplyFails(w)
  <2>1. Fault /\ (Effect(i, list[w]) \/ UNCHANGED store) /\ Note(i, "refused")
    BY <1>12 DEF ApplyFails, i
  <2>2. AfterApply(w) \/ Finish(w, "apply")
    BY <1>12 DEF ApplyFails
  <2>3. WorkersOK' /\ UNCHANGED chain
    BY <1>1, <2>2, AfterApplyType, FinishType DEF Finish
  <2>4. StoreOK'
    BY <1>1, <1>2, <2>1, <2>3, EffectType, SameStore
  <2> QED
    BY <1>1, <1>3, <2>1, <2>3, <2>4, NoteType, FaultType
<1>13. CASE Tally(w) \/ Weigh(w) \/ TallyFails(w)
  <2>1. /\ UNCHANGED store /\ (Fault \/ UNCHANGED faults)
        /\ UNCHANGED excuse \/ Note(i, "refused")
    BY <1>13 DEF Tally, Weigh, TallyFails, i
  <2>2. \/ \E from : Finish(w, from)
        \/ \E b \in scheduled : /\ Proceed(w, "tally", "weigh")
                                /\ buyout' = [buyout EXCEPT ![w] = b] /\ UNCHANGED list
        \/ Proceed(w, "weigh", "fund") /\ UNCHANGED findings
    BY <1>13 DEF Tally, Weigh, TallyFails
  <2>3. WorkersOK' /\ UNCHANGED chain
    <3>1. CASE \E from : Finish(w, from)
      BY <1>1, <3>1, FinishType DEF Finish
    <3>2. ASSUME NEW b \in scheduled, Proceed(w, "tally", "weigh"),
                 buyout' = [buyout EXCEPT ![w] = b], UNCHANGED list
          PROVE  WorkersOK' /\ UNCHANGED chain
      <4>1. buyout' \in [Worker -> Index \cup {0}] /\ list' \in [Worker -> SUBSET Holding]
        BY <1>1, <3>2 DEF WorkersOK, StoreOK
      <4> QED
        BY <1>1, <1>2, <3>2, <4>1, ProceedType DEF Proceed
    <3>3. CASE Proceed(w, "weigh", "fund") /\ UNCHANGED findings
      BY <1>1, <1>2, <3>3, ProceedType DEF Proceed, WorkersOK, findings
    <3> QED
      BY <2>2, <3>1, <3>2, <3>3
  <2> QED
    BY <1>1, <1>3, <2>1, <2>3, SameStore, NoteType, FaultType
<1>14. CASE Fund(w) \/ FundFails(w)
  <2>1. /\ Proceed(w, "fund", "book") /\ UNCHANGED findings /\ (Fault \/ UNCHANGED faults)
        /\ UNCHANGED excuse \/ Note(i, "refused")
        /\ Funded(w) \/ UNCHANGED store
    BY <1>14 DEF Fund, FundFails, i
  <2>2. WorkersOK' /\ UNCHANGED chain
    BY <1>1, <1>2, <2>1, ProceedType DEF Proceed, WorkersOK, findings
  <2>3. StoreOK'
    BY <1>1, <2>1, <2>2, SameStore, FundedType
  <2> QED
    BY <1>1, <1>3, <2>1, <2>2, <2>3, NoteType, FaultType
<1>15. CASE Book(w) \/ BookFails(w)
  <2>1. /\ Finish(w, "book") /\ (Fault \/ UNCHANGED faults)
        /\ UNCHANGED excuse \/ Note(i, "refused")
        /\ Booked(w) \/ UNCHANGED store
    BY <1>15 DEF Book, BookFails, i
  <2>2. WorkersOK' /\ UNCHANGED chain
    BY <1>1, <2>1, FinishType DEF Finish
  <2>3. StoreOK'
    BY <1>1, <2>1, <2>2, SameStore, FundedType
  <2> QED
    BY <1>1, <1>3, <2>1, <2>2, <2>3, NoteType, FaultType
<1> QED
  BY <1>4, <1>5, <1>6, <1>7, <1>8, <1>9, <1>10, <1>11, <1>12, <1>13, <1>14, <1>15 DEF Handle, Check

ListenerOK ==
  /\ watched \in SUBSET entered /\ entered \in SUBSET Vault
  /\ client \in {"none", "open", "closed"}
  /\ next \in 1..(Height + 1)
  /\ upto \in 0..Height
  /\ synced \in NoState..Height

LEMMA AllTypes ==
  TypeOK <=> chain \in Chains /\ StoreOK /\ WorkersOK /\ ExcuseOK /\ FaultsOK /\ ListenerOK
BY HandlersTypes DEF TypeOK, ListenerOK

LEMMA AllTypesNext ==
  TypeOK' <=> (chain \in Chains)' /\ StoreOK' /\ WorkersOK' /\ ExcuseOK' /\ FaultsOK' /\ ListenerOK'
BY DEF TypeOK, HandlersTypeOK, StoreOK, WorkersOK, ExcuseOK, FaultsOK, ListenerOK

LEMMA TheHeight ==
  ASSUME chain \in Chains
  PROVE  Height \in Nat /\ \A i \in Index : chain[i].tx \in 1..Height
<1>1. /\ Len(chain) \in Nat /\ Index = 1..Len(chain) /\ chain \in Seq(Log)
      /\ \A i \in Index : chain[i].tx \in Nat \ {0}
      /\ \A i, j \in Index : i < j => chain[i].tx <= chain[j].tx
  BY TheChain
<1>2. CASE chain = << >>
  BY <1>1, <1>2 DEF Height
<1>3. CASE chain # << >>
  <2> DEFINE n == Len(chain)
  <2>1. n \in Index
    BY <1>1, <1>3
  <2>2. Height = chain[n].tx /\ Height \in Nat
    BY <1>1, <1>3, <2>1 DEF Height
  <2>3. ASSUME NEW i \in Index
        PROVE  chain[i].tx <= chain[n].tx
    <3>1. i = n \/ i < n
      BY <1>1
    <3>2. chain[i].tx \in Nat
      BY <1>1
    <3> QED
      BY <1>1, <2>1, <2>2, <3>1, <3>2
  <2> QED
    BY <1>1, <2>2, <2>3
<1> QED
  BY <1>2, <1>3

LEMMA TakesType ==
  ASSUME chain \in Chains, WorkersOK, StoreOK, NEW w \in Worker, NEW m \in Mode,
         NEW s \in Seq(Index), Takes(w, m, s)
  PROVE  WorkersOK' /\ StoreOK' /\ UNCHANGED chain
<1>1. /\ todo' = [todo EXCEPT ![w] = s]
      /\ at' = [at EXCEPT ![w] = Ready(m, s)]
      /\ mode' = [mode EXCEPT ![w] = IF s = << >> THEN "none" ELSE m]
      /\ UNCHANGED <<chain, store, findings>> /\ Index' = Index /\ Holding' = Holding
  BY SameChain DEF Takes
<1>2. Ready(m, s) \in Call /\ (Ready(m, s) = "idle" <=> s = << >>) /\ "none" \in Mode
  BY ReadyType DEF Mode
<1>3. WorkersOK'
  BY <1>1, <1>2 DEF WorkersOK, findings
<1> QED
  BY <1>1, <1>3, SameStore

\* A batch begins with the watched logs but for those cut off, of which the
\* receipts bring some back.
LEMMA FetchShape ==
  ASSUME chain \in Chains, Fetch \/ FetchTruncated
  PROVE  /\ Between /\ (Fault \/ UNCHANGED faults)
         /\ \E e \in next..Height : \E cut, added \in SUBSET Index :
              /\ cut \subseteq {i \in Batch(e) : chain[i].vault \in watched} /\ added \subseteq cut
              /\ \A i \in added : chain[i].kind \in Supplemented
              /\ Fetched(e, cut, added)
<1>1. CASE Fetch
  <2>1. {} \in SUBSET Index
    OBVIOUS
  <2> QED
    BY <1>1, <2>1 DEF Fetch
<1>2. CASE FetchTruncated
  <2>1. Between /\ Fault
    BY <1>2 DEF FetchTruncated
  <2>2. PICK e \in next..Height :
          \E b \in next..e :
            LET asked == {i \in LogsOf(b) : chain[i].vault \in watched}
            IN \E first \in asked :
                 LET cut == {i \in asked : i > first}
                 IN Fetched(e, cut, {}) \/ Fetched(e, cut, Receipt(b) \cap cut)
    BY <1>2 DEF FetchTruncated
  <2>3. PICK b \in next..e :
          LET asked == {i \in LogsOf(b) : chain[i].vault \in watched}
          IN \E first \in asked :
               LET cut == {i \in asked : i > first}
               IN Fetched(e, cut, {}) \/ Fetched(e, cut, Receipt(b) \cap cut)
    BY <2>2
  <2> DEFINE asked == {i \in LogsOf(b) : chain[i].vault \in watched}
  <2>4. PICK first \in asked :
          LET cut == {i \in asked : i > first}
          IN Fetched(e, cut, {}) \/ Fetched(e, cut, Receipt(b) \cap cut)
    BY <2>3
  <2> DEFINE cut == {i \in asked : i > first}
  <2>5. cut \in SUBSET Index /\ cut \subseteq {i \in Batch(e) : chain[i].vault \in watched}
    BY DEF LogsOf, Batch
  <2>6. {} \in SUBSET Index /\ Receipt(b) \cap cut \in SUBSET Index /\ Receipt(b) \cap cut \subseteq cut
        /\ \A i \in Receipt(b) \cap cut : chain[i].kind \in Supplemented
    BY <2>5 DEF Receipt
  <2> QED
    BY <2>1, <2>4, <2>5, <2>6
<1> QED
  BY <1>1, <1>2

\* A request to the manual trigger hands over logs, or applies a document.
StoredEvent(i) ==
  /\ EventName(chain[i].kind) \in {"VaultDeposit", "VaultRedeemed", "RedemptionRequested",
                                   "PositionStatusUpdated", "VaultRolledOver"}
  /\ Effect(i, {})
  /\ Note(i, "stored")
  /\ Fault
  /\ UNCHANGED <<chain, workers, entered, watched, client, next, upto, synced>>

LEMMA TriggerShape ==
  ASSUME chain \in Chains, ManualTrigger
  PROVE  \/ Accepts /\ \E m \in Mode : \E s \in Seq(Index) : Requested(m, s)
         \/ \E i \in docs : StoredEvent(i)
<1>1. "none" \in Mode /\ Forced("by name") \in SUBSET Mode /\ Forced("by signature") \in SUBSET Mode
  BY DEF Forced, Mode
<1>2. CASE ManualTriggerByTxHash
  <2>1. PICK b \in Block, m \in Forced("by name") : Requested(m, InOrder(OfTransaction(b)))
    BY <1>2 DEF ManualTriggerByTxHash
  <2>2. InOrder(OfTransaction(b)) \in Seq(Index)
    BY InOrderAscends DEF OfTransaction, LogsOf
  <2> QED
    BY <1>1, <1>2, <2>1, <2>2 DEF ManualTriggerByTxHash
<1>3. CASE ManualTriggerByBlockRange
  <2>1. PICK lo \in Block, hi \in Block, m \in Forced("by signature"), kinds \in TypeFilter :
          \E s \in Grouped(OfRange(lo, hi, kinds), [i \in Index |-> chain[i].vault]) :
            Requested(m, s)
    BY <1>3 DEF ManualTriggerByBlockRange
  <2>2. OfRange(lo, hi, kinds) \in SUBSET Index
    BY DEF OfRange
  <2> QED
    BY <1>1, <1>3, <2>1, <2>2, GroupedType DEF ManualTriggerByBlockRange
<1>4. CASE ManualTriggerByUserAndPosition
  <2>1. PICK p \in Position, m \in Forced("by name") :
          LET found == {chain[i].tx : i \in {j \in docs : InVaultEvents(j) /\ chain[j].position = p}}
          IN \E s \in Grouped(UNION {OfTransaction(b) : b \in found}, [i \in Index |-> chain[i].tx]) :
               Requested(m, s)
    BY <1>4 DEF ManualTriggerByUserAndPosition
  <2> DEFINE found == {chain[i].tx : i \in {j \in docs : InVaultEvents(j) /\ chain[j].position = p}}
             S == UNION {OfTransaction(b) : b \in found}
  <2>2. S \in SUBSET Index
    BY DEF OfTransaction, LogsOf
  <2>3. \E s \in Grouped(S, [i \in Index |-> chain[i].tx]) : Requested(m, s)
    BY <2>1
  <2> HIDE DEF S
  <2> QED
    BY <1>1, <1>4, <2>2, <2>3, GroupedType DEF ManualTriggerByUserAndPosition
<1>5. CASE ManualTriggerByStoredEvent
  BY <1>5 DEF ManualTriggerByStoredEvent, StoredEvent
<1>6. CASE FixMissingEvents
  <2>1. PICK b \in Block :
          Requested("none", InOrder({i \in LogsOf(b) : chain[i].kind = "VaultRolledOver"}))
    BY <1>6 DEF FixMissingEvents
  <2>2. InOrder({i \in LogsOf(b) : chain[i].kind = "VaultRolledOver"}) \in Seq(Index)
    BY InOrderAscends DEF LogsOf
  <2> QED
    BY <1>1, <1>6, <2>1, <2>2 DEF FixMissingEvents
<1> QED
  BY <1>2, <1>3, <1>4, <1>5, <1>6 DEF ManualTrigger

LEMMA InitType == Init => TypeOK
<1> SUFFICES ASSUME Init
             PROVE  TypeOK
  OBVIOUS
<1>1. chain \in Chains
  BY DEF Init, HandlersInit
<1>2. StoreOK
  BY DEF Init, HandlersInit, StoreOK
<1>3. WorkersOK
  BY <1>1, TheChain DEF Init, HandlersInit, WorkersOK, Call, Mode
<1>4. ExcuseOK
  BY DEF Init, HandlersInit, ExcuseOK
<1>5. FaultsOK
  BY HandlersAssumption DEF Init, HandlersInit, FaultsOK
<1>6. ListenerOK
  BY <1>1, TheHeight, ListenerAssumption DEF Init, ListenerOK, NoState
<1> QED
  BY <1>1, <1>2, <1>3, <1>4, <1>5, <1>6, AllTypes

\* Start touches no document and no worker, and leaves behind the monitor only
\* what it notes.
LEMMA StartType ==
  ASSUME TypeOK, Start
  PROVE  TypeOK'
<1>1. chain \in Chains /\ StoreOK /\ WorkersOK /\ ExcuseOK /\ FaultsOK /\ ListenerOK
  BY AllTypes
<1>2. PICK p \in Vault \ entered :
        EntryFails(p) \/ FirstEntry(p) \/ FirstEntryAfresh(p) \/ FirstEntryFails(p) \/ FurtherEntry(p)
  BY DEF Start
<1>3. UNCHANGED <<chain, store, workers, upto>> /\ (Fault \/ UNCHANGED faults)
  BY <1>2 DEF EntryFails, FirstEntry, FirstEntryAfresh, FirstEntryFails, FurtherEntry, handlerVars
<1>4. Vault' = Vault /\ Height' = Height /\ Index' = Index /\ Holding' = Holding
  BY <1>3, SameChain
<1>5. /\ entered' = entered \cup {p} /\ watched' \in {watched, {p}, watched \cup {p}}
      /\ client' \in {client, "open", "closed"}
  BY <1>2 DEF EntryFails, FirstEntry, FirstEntryAfresh, FirstEntryFails, FurtherEntry
<1>6. next' \in 1..(Height + 1) /\ synced' \in NoState..Height
  <2>1. CASE EntryFails(p) \/ FirstEntryFails(p) \/ FurtherEntry(p)
    BY <1>1, <2>1 DEF EntryFails, FirstEntryFails, FurtherEntry, ListenerOK
  <2>2. CASE FirstEntry(p)
    BY <1>1, <2>2, TheHeight DEF FirstEntry, ListenerOK, NoState
  <2>3. CASE FirstEntryAfresh(p)
    BY <1>1, <2>3, TheHeight DEF FirstEntryAfresh, ListenerOK, NoState
  <2> QED
    BY <1>2, <2>1, <2>2, <2>3
<1>7. ListenerOK'
  <2>1. watched' \subseteq entered' /\ entered' \subseteq Vault
    BY <1>1, <1>5 DEF ListenerOK
  <2> QED
    BY <1>1, <1>3, <1>4, <1>5, <1>6, <2>1 DEF ListenerOK
<1>8. ExcuseOK'
  <2>1. CASE UNCHANGED excuse
    BY <1>1, <1>4, <2>1 DEF ExcuseOK
  <2>2. CASE FirstEntryAfresh(p)
    <3>1. excuse' = [i \in Index |->
                      IF chain[i].tx \in (synced + 1)..(next' - 1) THEN excuse[i] \cup {"skipped"}
                      ELSE excuse[i]]
      BY <2>2 DEF FirstEntryAfresh
    <3>2. "skipped" \in Mishap /\ \A i \in Index : excuse[i] \in SUBSET Mishap
      BY <1>1 DEF ExcuseOK, Mishap
    <3> QED
      BY <1>4, <3>1, <3>2 DEF ExcuseOK
  <2> QED
    BY <1>2, <2>1, <2>2 DEF EntryFails, FirstEntry, FirstEntryFails, FurtherEntry, handlerVars
<1>9. WorkersOK' /\ StoreOK'
  <2>1. WorkersOK'
    BY <1>1, <1>3, <1>4 DEF WorkersOK, workers, findings
  <2> QED
    BY <1>1, <1>3, <2>1, SameStore
<1> QED
  BY <1>1, <1>3, <1>7, <1>8, <1>9, AllTypesNext, FaultType

LEMMA FetchType ==
  ASSUME TypeOK, Fetch \/ FetchTruncated
  PROVE  TypeOK'
<1>1. chain \in Chains /\ StoreOK /\ WorkersOK /\ ExcuseOK /\ FaultsOK /\ ListenerOK
  BY AllTypes
<1>2. Fault \/ UNCHANGED faults
  BY <1>1, FetchShape
<1>3. PICK e \in next..Height, cut \in SUBSET Index, added \in SUBSET Index :
        /\ cut \subseteq {i \in Batch(e) : chain[i].vault \in watched} /\ added \subseteq cut
        /\ Fetched(e, cut, added)
  BY <1>1, FetchShape
<1> DEFINE asked == {i \in Batch(e) : chain[i].vault \in watched}
           s == TwoPasses(asked \ cut, added)
<1>4. asked \ cut \in SUBSET Index /\ (asked \ cut) \cap added = {}
  BY <1>3 DEF Batch
<1>5. s \in Seq(Index)
  BY <1>1, <1>4, TwoPassesOrder
<1>6. /\ Takes(Monitor, "none", s) /\ upto' = e
      /\ UNCHANGED <<entered, watched, client, next, synced>>
  BY <1>3 DEF Fetched
<1>7. Monitor \in Worker /\ "none" \in Mode
  BY ListenerAssumption DEF Mode
<1> HIDE DEF s
<1>8. WorkersOK' /\ StoreOK' /\ UNCHANGED chain
  BY <1>1, <1>5, <1>6, <1>7, TakesType
<1>9. ExcuseOK'
  <2> DEFINE noted == [i \in Index |->
                 (IF i \in Batch(e) \ asked THEN {"unwatched"} ELSE {}) \cup
                 (IF i \in cut \ added THEN {"cut"} ELSE {}) \cup
                 (IF i \in added THEN {"appended"} ELSE {}) \cup
                 (IF i \in Hoisted((asked \ cut) \cup added) THEN {"hoisted"} ELSE {})]
  <2>1. excuse' = [i \in Index |-> excuse[i] \cup noted[i]]
    BY <1>3 DEF Fetched
  <2>2. \A i \in Index : noted[i] \subseteq {"unwatched", "cut", "appended", "hoisted"}
    OBVIOUS
  <2> HIDE DEF noted
  <2>3. {"unwatched", "cut", "appended", "hoisted"} \subseteq Mishap
    BY DEF Mishap
  <2>4. \A i \in Index : excuse[i] \cup noted[i] \in SUBSET Mishap
    BY <1>1, <2>2, <2>3 DEF ExcuseOK
  <2>5. excuse' \in [Index -> SUBSET Mishap]
    BY <2>1, <2>4
  <2> QED
    BY <1>8, <2>5 DEF ExcuseOK, Index
<1>10. ListenerOK'
  <2>1. Vault' = Vault /\ Height' = Height /\ e \in 0..Height
    BY <1>1, <1>8, TheHeight, SameChain DEF ListenerOK
  <2> QED
    BY <1>1, <1>6, <2>1 DEF ListenerOK
<1> QED
  BY <1>1, <1>2, <1>8, <1>9, <1>10, AllTypesNext, FaultType

LEMMA TriggerType ==
  ASSUME TypeOK, ManualTrigger
  PROVE  TypeOK'
<1>1. chain \in Chains /\ StoreOK /\ WorkersOK /\ ExcuseOK /\ FaultsOK /\ ListenerOK
  BY AllTypes
<1>2. "triggered" \in Mishap /\ "stored" \in Mishap /\ Trigger \in Worker
  BY ListenerAssumption DEF Mishap
<1> SUFFICES /\ WorkersOK' /\ StoreOK' /\ ExcuseOK' /\ Fault /\ UNCHANGED chain
             /\ UNCHANGED <<entered, watched, client, next, upto, synced>>
  <2>1. UNCHANGED <<chain, entered, watched, client, next, upto, synced>> => ListenerOK'
    BY <1>1, SameChain DEF ListenerOK
  <2> QED
    BY <1>1, <2>1, AllTypesNext, FaultType
<1>3. CASE Accepts /\ \E m \in Mode : \E s \in Seq(Index) : Requested(m, s)
  <2>1. PICK m \in Mode, s \in Seq(Index) : Requested(m, s)
    BY <1>3
  <2>2. /\ Takes(Trigger, m, s) /\ Fault
        /\ UNCHANGED <<entered, watched, client, next, upto, synced>>
    BY <1>3, <2>1 DEF Requested, Accepts
  <2>3. WorkersOK' /\ StoreOK' /\ UNCHANGED chain
    BY <1>1, <1>2, <2>2, TakesType
  <2>4. ExcuseOK'
    <3>1. excuse' = [i \in Index |->
                       IF i \in Logs(s) THEN excuse[i] \cup {"triggered"} ELSE excuse[i]]
      BY <2>1 DEF Requested
    <3> QED
      BY <1>1, <1>2, <2>3, <3>1 DEF ExcuseOK, Index
  <2> QED
    BY <2>2, <2>3, <2>4
<1>4. CASE \E i \in docs : StoredEvent(i)
  <2>1. PICK i \in docs : StoredEvent(i)
    BY <1>4
  <2>2. /\ Effect(i, {}) /\ Note(i, "stored") /\ Fault
        /\ UNCHANGED <<chain, workers, entered, watched, client, next, upto, synced>>
    BY <2>1 DEF StoredEvent
  <2>3. StoreOK'
    BY <1>1, <2>1, <2>2, EffectType DEF StoreOK
  <2>4. ExcuseOK'
    BY <1>1, <1>2, <2>2, NoteType
  <2>5. WorkersOK'
    BY <1>1, <2>2, SameChain DEF WorkersOK, workers, findings
  <2> QED
    BY <2>2, <2>3, <2>4, <2>5
<1> QED
  BY <1>1, <1>3, <1>4, TriggerShape

LEMMA NextType == TypeOK /\ [Next]_vars => TypeOK'
<1> SUFFICES ASSUME TypeOK, [Next]_vars
             PROVE  TypeOK'
  OBVIOUS
<1>1. chain \in Chains /\ StoreOK /\ WorkersOK /\ ExcuseOK /\ FaultsOK /\ ListenerOK
  BY AllTypes
<1>2. UNCHANGED chain => /\ Vault' = Vault /\ Height' = Height
                         /\ Index' = Index /\ Holding' = Holding
  BY SameChain
<1>3. Height \in Nat
  BY <1>1, TheHeight
<1>4. CASE \E w \in Worker : Handle(w) /\ UNCHANGED listenerVars
  <2>1. PICK w \in Worker : Handle(w) /\ UNCHANGED listenerVars
    BY <1>4
  <2>2. HandlersTypeOK'
    BY <2>1, HandleType DEF TypeOK
  <2>3. UNCHANGED chain
    BY <2>1 DEF Handle, Lookup, Check, SkipDuplicate, SkipUnsupported, FoundNothing, FoundError,
       Undecodable, ListPositions, Create, CreateFails, AfterCreate, Apply, ApplyFails, AfterApply,
       Tally, Weigh, TallyFails, Fund, FundFails, Book, BookFails, Finish, Proceed
  <2> QED
    BY <1>1, <1>2, <2>1, <2>2, <2>3 DEF TypeOK, ListenerOK, listenerVars
<1>5. CASE Start
  BY <1>5, StartType
<1>6. CASE Fetch \/ FetchTruncated
  BY <1>6, FetchType
<1>7. CASE Save
  <2>1. /\ next' = upto + 1 /\ synced' \in {upto, synced} /\ (Fault \/ UNCHANGED faults)
        /\ UNCHANGED <<chain, store, workers, excuse, entered, watched, client, upto>>
    BY <1>7 DEF Save, NextBatch
  <2>2. next' \in 1..(Height + 1) /\ synced' \in NoState..Height
    BY <1>1, <1>3, <2>1 DEF ListenerOK, NoState
  <2>3. WorkersOK' /\ StoreOK' /\ ExcuseOK' /\ ListenerOK'
    BY <1>1, <1>2, <2>1, <2>2 DEF WorkersOK, StoreOK, ExcuseOK, ListenerOK, workers, findings, store, holdings, sums
  <2> QED
    BY <1>1, <2>1, <2>3, AllTypesNext, FaultType
<1>8. CASE StepBack
  <2>1. /\ next' \in 1..(next - 1) /\ upto' = 0 /\ Fault
        /\ UNCHANGED <<chain, store, workers, excuse, entered, watched, client, synced>>
    BY <1>8 DEF StepBack
  <2>2. next' \in 1..(Height + 1) /\ upto' \in 0..Height
    BY <1>1, <1>3, <2>1 DEF ListenerOK
  <2>3. WorkersOK' /\ StoreOK' /\ ExcuseOK' /\ ListenerOK'
    BY <1>1, <1>2, <2>1, <2>2 DEF WorkersOK, StoreOK, ExcuseOK, ListenerOK, workers, findings, store, holdings, sums
  <2> QED
    BY <1>1, <2>1, <2>3, AllTypesNext, FaultType
<1>9. CASE ManualTrigger
  BY <1>9, TriggerType
<1>10. CASE Die
  <2>1. /\ Fault /\ entered' = {} /\ watched' = {} /\ client' = "none" /\ next' = 1 /\ upto' = 0
        /\ UNCHANGED <<chain, store, synced>>
    BY <1>10 DEF Die
  <2>2. WorkersOK'
    <3>1. /\ at' = [w \in Worker |-> "idle"] /\ todo' = [w \in Worker |-> << >>]
          /\ mode' = [w \in Worker |-> "none"] /\ list' = [w \in Worker |-> {}]
          /\ buyout' = [w \in Worker |-> 0]
      BY <1>10 DEF Die
    <3>2. "idle" \in Call /\ "none" \in Mode /\ << >> \in Seq(Index')
      BY DEF Call, Mode
    <3> QED
      BY <3>1, <3>2 DEF WorkersOK
  <2>3. ExcuseOK'
    <3>1. "died" \in Mishap /\ "interrupted" \in Mishap
      BY DEF Mishap
    <3>2. \A i \in Index : excuse[i] \in SUBSET Mishap
      BY <1>1 DEF ExcuseOK
    <3>3. excuse' \in [Index -> SUBSET Mishap]
      BY <1>10, <3>1, <3>2 DEF Die
    <3> QED
      BY <1>2, <2>1, <3>3 DEF ExcuseOK
  <2>4. StoreOK' /\ ListenerOK'
    BY <1>1, <1>2, <1>3, <2>1 DEF StoreOK, ListenerOK, store, holdings, sums
  <2> QED
    BY <1>1, <2>1, <2>2, <2>3, <2>4, AllTypesNext, FaultType
<1>11. CASE UNCHANGED vars
  BY <1>1, <1>2, <1>11 DEF vars, handlerVars, listenerVars, store, holdings, sums, workers, findings,
     TypeOK, HandlersTypeOK
<1> QED
  BY <1>4, <1>5, <1>6, <1>7, <1>8, <1>9, <1>10, <1>11 DEF Next

-----------------------------------------------------------------------------
(* What a step of a handler amounts to.                                    *)

\* Worker w has come to the end of its log, or to its next call.
Leaves(w, from) ==
  /\ at[w] = from
  /\ todo'[w] = Tail(todo[w])
  /\ at'[w] = Ready(mode[w], Tail(todo[w]))
  /\ mode'[w] = mode[w] \/ (mode'[w] = "none" /\ Tail(todo[w]) = << >>)

Calls(w, from, to) ==
  /\ at[w] = from /\ at'[w] = to
  /\ todo'[w] = todo[w] /\ mode'[w] = mode[w]

\* The documents, the effects and what the chain is mirrored in stay.
Kept == UNCHANGED <<docs, done, position, depositTime, status>>

Searched(w) ==
  /\ Leaves(w, "lookup") \/ Calls(w, "lookup", FirstCall(Job(w)))
  /\ Kept /\ UNCHANGED excuse

Skipped(w) ==
  /\ Leaves(w, "check") /\ Kept
  /\ \/ ~Supported(Job(w))
     \/ /\ Duplicate(Job(w))
        /\ (\E v \in Rivals(w) : at[v] = "apply") => "overtaken" \in excuse'[Job(w)]

Entered(w) ==
  /\ Calls(w, "check", AfterCheck(Job(w))) /\ Kept
  /\ Supported(Job(w))
  /\ \/ "blind" \in excuse'[Job(w)]
     \/ /\ ~Duplicate(Job(w))
        /\ (\E v \in Rivals(w) : at[v] \in {"list", "create", "apply"}) => "raced" \in excuse'[Job(w)]

Listed(w) == Calls(w, "list", "apply") /\ Kept

Created(w) ==
  /\ IF \/ chain[Job(w)].kind = "BuyoutScheduled"
        \/ chain[Job(w)].kind \in StatusEvents /\ ~ComputeLabs(Job(w))
     THEN Leaves(w, "create") ELSE Calls(w, "create", "apply")
  /\ docs' = docs \cup {Job(w)} \/ (chain[Job(w)].kind \in StatusEvents /\ docs' = docs)
  /\ UNCHANGED <<done, position, depositTime, status, excuse>>

Failed(w) ==
  /\ "refused" \in excuse'[Job(w)]
  /\ \/ Kept /\ \E from \in {"list", "create", "apply"} : Leaves(w, from)
     \/ /\ Leaves(w, "create")
        /\ docs' = docs \cup {Job(w)} /\ UNCHANGED <<done, position, depositTime, status>>
     \/ Leaves(w, "apply") /\ Effect(Job(w), list[w])

Applied(w) ==
  /\ \/ /\ chain[Job(w)].kind = "BuyoutScheduled" /\ Calls(w, "apply", "create")
        /\ Effect(Job(w), list[w])
     \/ /\ chain[Job(w)].kind = "CLGPUTokensTransferred" /\ Calls(w, "apply", "tally")
        /\ Effect(Job(w), list[w]) \/ (Kept /\ "refused" \in excuse'[Job(w)])
     \/ /\ chain[Job(w)].kind \notin {"BuyoutScheduled", "CLGPUTokensTransferred"}
        /\ Leaves(w, "apply") /\ Effect(Job(w), list[w])

\* The calls of the funding, which change nothing but its sums.
Tallied(w) ==
  /\ Kept
  /\ \/ Calls(w, "tally", "weigh") /\ buyout'[w] \in scheduled
     \/ Leaves(w, "tally") /\ (scheduled = {} \/ "refused" \in excuse'[Job(w)])
     \/ Calls(w, "weigh", "fund") /\ FindsPosition(Job(w)) /\ Due(w)
     \/ Leaves(w, "weigh") /\ (~(FindsPosition(Job(w)) /\ Due(w)) \/ "refused" \in excuse'[Job(w)])
     \/ Calls(w, "fund", "book")
     \/ Leaves(w, "book")

\* The other worker goes on, and the other logs keep their history.
Alone(w) ==
  /\ \A v \in Worker \ {w} : todo'[v] = todo[v] /\ at'[v] = at[v] /\ mode'[v] = mode[v]
  /\ \A j \in Index \ {Job(w)} : excuse'[j] = excuse[j]
  /\ excuse[Job(w)] \subseteq excuse'[Job(w)]
  /\ UNCHANGED chain

\* What the step does to the findings of the workers and to the sums of a buyout.
Funds(w) ==
  LET i == Job(w)
      scheduling == at[w] = "create" /\ chain[i].kind = "BuyoutScheduled"
  IN /\ \A v \in Worker \ {w} : list'[v] = list[v] /\ buyout'[v] = buyout[v]
     /\ buyout'[w] \in {0, buyout[w]} \cup scheduled
     /\ todo'[w] = todo[w] =>
          /\ at[w] = "tally" \/ buyout'[w] = buyout[w]
          /\ at[w] = "list" \/ list'[w] = list[w]
          /\ at[w] = "list" =>
               \/ "blind" \in excuse'[i]
               \/ list'[w] = {p \in Holding : position[p] = "active" /\ p[2] = "compute_labs"}
     /\ scheduling =>
          /\ UNCHANGED <<buyouts, booked>>
          /\ \/ "refused" \in excuse'[i] /\ UNCHANGED <<scheduled, counted>>
             \/ /\ i \in docs' /\ scheduled' = scheduled \cup {i}
                /\ counted' = [counted EXCEPT ![i] = SumOf(list[w])]
     /\ at[w] = "apply" =>
          Effect(i, list[w]) \/ ("refused" \in excuse'[i] /\ UNCHANGED sums)
     /\ at[w] = "fund" => Funded(w) \/ ("refused" \in excuse'[i] /\ UNCHANGED sums)
     /\ at[w] = "book" => Booked(w) \/ ("refused" \in excuse'[i] /\ UNCHANGED sums)
     /\ ~scheduling /\ at[w] \notin {"apply", "fund", "book"} => UNCHANGED sums

LEMMA FinishMeans ==
  ASSUME chain \in Chains, WorkersOK, NEW w \in Worker, Working(w), NEW from, Finish(w, from)
  PROVE  /\ Leaves(w, from) /\ UNCHANGED chain
         /\ \A v \in Worker \ {w} : todo'[v] = todo[v] /\ at'[v] = at[v] /\ mode'[v] = mode[v]
<1>1. Tail(todo[w]) = << >> <=> Len(todo[w]) = 1
  BY TheJob
<1> QED
  BY <1>1 DEF Finish, Leaves, WorkersOK

LEMMA ProceedMeans ==
  ASSUME WorkersOK, NEW w \in Worker, NEW from, NEW to, Proceed(w, from, to)
  PROVE  /\ Calls(w, from, to) /\ UNCHANGED chain
         /\ \A v \in Worker \ {w} : todo'[v] = todo[v] /\ at'[v] = at[v] /\ mode'[v] = mode[v]
BY DEF Proceed, Calls, WorkersOK

LEMMA NoteMeans ==
  ASSUME ExcuseOK, NEW i \in Index, NEW what, Note(i, what)
  PROVE  /\ what \in excuse'[i] /\ excuse[i] \subseteq excuse'[i]
         /\ \A j \in Index \ {i} : excuse'[j] = excuse[j]
BY DEF ExcuseOK, Note

LEMMA HandleMeans ==
  ASSUME TypeOK, NEW w \in Worker, Handle(w)
  PROVE  /\ Working(w) /\ Alone(w)
         /\ \/ Searched(w) \/ Skipped(w) \/ Entered(w) \/ Listed(w) \/ Created(w)
            \/ Failed(w) \/ Applied(w) \/ Tallied(w)
<1>1. chain \in Chains /\ StoreOK /\ WorkersOK /\ ExcuseOK /\ Working(w) /\ Job(w) \in Index
  BY AllTypes, TheJob DEF Handle
<1> DEFINE i == Job(w)
           Mild == \A j \in Index \ {i} : excuse'[j] = excuse[j]
           Worse == excuse[i] \subseteq excuse'[i]
           Rest == /\ \A v \in Worker \ {w} : todo'[v] = todo[v] /\ at'[v] = at[v] /\ mode'[v] = mode[v]
                   /\ UNCHANGED chain
<1>2. ASSUME UNCHANGED excuse
      PROVE  Mild /\ Worse
  BY <1>2
<1>3. ASSUME NEW what, Note(i, what)
      PROVE  Mild /\ Worse /\ what \in excuse'[i]
  BY <1>1, <1>3, NoteMeans
<1>4. UNCHANGED store => Kept
  BY DEF store, holdings, Kept
<1>5. Rest /\ Mild /\ Worse => Alone(w)
  BY DEF Alone
<1>6. ASSUME NEW from, Finish(w, from)
      PROVE  Leaves(w, from) /\ Rest
  BY <1>1, <1>6, FinishMeans
<1>7. ASSUME NEW from, NEW to, Proceed(w, from, to)
      PROVE  Calls(w, from, to) /\ Rest
  BY <1>1, <1>7, ProceedMeans
<1> HIDE DEF i, Mild, Worse, Rest
<1>8. CASE Lookup(w)
  <2>1. Kept /\ UNCHANGED excuse
    BY <1>4, <1>8 DEF Lookup
  <2>2. Finish(w, "lookup") \/ Proceed(w, "lookup", FirstCall(i))
    BY <1>8 DEF Lookup, i
  <2>3. (Leaves(w, "lookup") \/ Calls(w, "lookup", FirstCall(i))) /\ Rest
    BY <1>6, <1>7, <2>2
  <2> QED
    BY <1>1, <1>2, <1>5, <2>1, <2>3 DEF Searched, i
<1>9. CASE SkipDuplicate(w)
  <2>1. Finish(w, "check") /\ Duplicate(i) /\ Kept
    BY <1>4, <1>9 DEF SkipDuplicate, i
  <2>2. UNCHANGED excuse \/ Note(i, "overtaken")
    BY <1>9 DEF SkipDuplicate, i
  <2>3. (\E v \in Rivals(w) : at[v] = "apply") => Note(i, "overtaken")
    BY <1>9 DEF SkipDuplicate, i
  <2>4. Alone(w) /\ Leaves(w, "check")
    BY <1>2, <1>3, <1>5, <1>6, <2>1, <2>2
  <2> QED
    BY <1>1, <1>3, <2>1, <2>3, <2>4 DEF Skipped, i
<1>10. CASE SkipUnsupported(w)
  <2>1. Finish(w, "check") /\ ~Supported(i) /\ Kept /\ UNCHANGED excuse
    BY <1>4, <1>10 DEF SkipUnsupported, i
  <2>2. Alone(w) /\ Leaves(w, "check")
    BY <1>2, <1>5, <1>6, <2>1
  <2> QED
    BY <1>1, <2>1, <2>2 DEF Skipped, i
<1>11. CASE FoundNothing(w)
  <2>1. Proceed(w, "check", AfterCheck(i)) /\ Supported(i) /\ ~Duplicate(i) /\ Kept
    BY <1>4, <1>11 DEF FoundNothing, i
  <2>2. UNCHANGED excuse \/ Note(i, "raced")
    BY <1>11 DEF FoundNothing, i
  <2>3. (\E v \in Rivals(w) : at[v] \in {"list", "create", "apply"}) => Note(i, "raced")
    BY <1>11 DEF FoundNothing, i
  <2>4. Alone(w) /\ Calls(w, "check", AfterCheck(i))
    BY <1>2, <1>3, <1>5, <1>7, <2>1, <2>2
  <2> QED
    BY <1>1, <1>3, <2>1, <2>3, <2>4 DEF Entered, i
<1>12. CASE FoundError(w)
  <2>1. Proceed(w, "check", AfterCheck(i)) /\ Supported(i) /\ Note(i, "blind") /\ Kept
    BY <1>4, <1>12 DEF FoundError, i
  <2>2. Alone(w) /\ Calls(w, "check", AfterCheck(i)) /\ "blind" \in excuse'[i]
    BY <1>3, <1>5, <1>7, <2>1
  <2> QED
    BY <1>1, <2>1, <2>2 DEF Entered, i
<1>13. CASE Undecodable(w)
  <2>1. PICK from \in {"list", "create", "apply"} : Finish(w, from)
    BY <1>13 DEF Undecodable
  <2>2. Note(i, "refused") /\ Kept
    BY <1>4, <1>13 DEF Undecodable, i
  <2>3. Alone(w) /\ Leaves(w, from) /\ "refused" \in excuse'[i]
    BY <1>3, <1>5, <1>6, <2>1, <2>2
  <2> QED
    BY <1>1, <2>1, <2>2, <2>3 DEF Failed, i
<1>14. CASE ListPositions(w)
  <2>1. Proceed(w, "list", "apply") /\ Kept /\ (UNCHANGED excuse \/ Note(i, "blind"))
    BY <1>4, <1>14 DEF ListPositions, i
  <2>2. Alone(w) /\ Calls(w, "list", "apply")
    BY <1>2, <1>3, <1>5, <1>7, <2>1
  <2> QED
    BY <1>1, <2>1, <2>2 DEF Listed
<1>15. ASSUME AfterCreate(w), UNCHANGED excuse
       PROVE  /\ Alone(w)
              /\ IF \/ chain[i].kind = "BuyoutScheduled"
                    \/ chain[i].kind \in StatusEvents /\ ~ComputeLabs(i)
                 THEN Leaves(w, "create") ELSE Calls(w, "create", "apply")
  BY <1>2, <1>5, <1>6, <1>7, <1>15 DEF AfterCreate, i
<1>16. Document(w) => docs' = docs \cup {i} /\ UNCHANGED <<done, position, depositTime, status>>
  BY DEF Document, holdings, i
<1>17. CASE Create(w)
  <2>1. AfterCreate(w) /\ Document(w) /\ UNCHANGED excuse
    BY <1>17 DEF Create
  <2> QED
    BY <1>1, <1>15, <1>16, <2>1 DEF Created, i
<1>18. CASE CreateFails(w)
  <2>1. Document(w) \/ Kept
    BY <1>4, <1>18 DEF CreateFails
  <2>2. CASE chain[i].kind \in StatusEvents
    <3>1. AfterCreate(w) /\ UNCHANGED excuse
      BY <1>18, <2>2 DEF CreateFails, i
    <3> QED
      BY <1>1, <1>15, <1>16, <2>1, <2>2, <3>1 DEF Created, Kept, i
  <2>3. CASE chain[i].kind \notin StatusEvents
    <3>1. Finish(w, "create") /\ Note(i, "refused")
      BY <1>18, <2>3 DEF CreateFails, i
    <3>2. Alone(w) /\ Leaves(w, "create") /\ "refused" \in excuse'[i]
      BY <1>3, <1>5, <1>6, <3>1
    <3> QED
      BY <1>1, <1>16, <2>1, <3>2 DEF Failed, i
  <2> QED
    BY <2>2, <2>3
<1>19. CASE Apply(w)
  <2>1. AfterApply(w) /\ Effect(i, list[w]) /\ UNCHANGED excuse
    BY <1>19 DEF Apply, i
  <2>2. Mild /\ Worse
    BY <1>2, <2>1
  <2>3. CASE chain[i].kind = "BuyoutScheduled"
    <3>1. Proceed(w, "apply", "create")
      BY <2>1, <2>3 DEF AfterApply, i
    <3> QED
      BY <1>1, <1>5, <1>7, <2>1, <2>2, <2>3, <3>1 DEF Applied, i
  <2>4. CASE chain[i].kind = "CLGPUTokensTransferred"
    <3>1. Proceed(w, "apply", "tally")
      BY <2>1, <2>4 DEF AfterApply, i
    <3> QED
      BY <1>1, <1>5, <1>7, <2>1, <2>2, <2>4, <3>1 DEF Applied, i
  <2>5. CASE chain[i].kind \notin {"BuyoutScheduled", "CLGPUTokensTransferred"}
    <3>1. Finish(w, "apply")
      BY <2>1, <2>5 DEF AfterApply, i
    <3> QED
      BY <1>1, <1>5, <1>6, <2>1, <2>2, <2>5, <3>1 DEF Applied, i
  <2> QED
    BY <2>3, <2>4, <2>5
<1>20. CASE ApplyFails(w)
  <2>1. (Effect(i, list[w]) \/ Kept) /\ Note(i, "refused")
    BY <1>4, <1>20 DEF ApplyFails, i
  <2>2. Mild /\ Worse /\ "refused" \in excuse'[i]
    BY <1>3, <2>1
  <2>3. CASE chain[i].kind = "CLGPUTokensTransferred"
    <3>1. Proceed(w, "apply", "tally")
      BY <1>20, <2>3 DEF ApplyFails, AfterApply, i
    <3> QED
      BY <1>1, <1>5, <1>7, <2>1, <2>2, <2>3, <3>1 DEF Applied, i
  <2>4. CASE chain[i].kind # "CLGPUTokensTransferred"
    <3>1. Finish(w, "apply")
      BY <1>20, <2>4 DEF ApplyFails, AfterApply, i
    <3>2. Leaves(w, "apply") /\ Alone(w)
      BY <1>5, <1>6, <2>2, <3>1
    <3> QED
      BY <1>1, <2>1, <2>2, <3>2 DEF Failed, i
  <2> QED
    BY <2>3, <2>4
<1>21. CASE Tally(w)
  <2>1. Kept /\ UNCHANGED excuse
    BY <1>4, <1>21 DEF Tally
  <2>2. CASE scheduled = {} /\ Finish(w, "tally")
    BY <1>1, <1>2, <1>5, <1>6, <2>1, <2>2 DEF Tallied
  <2>3. CASE \E b \in scheduled : Proceed(w, "tally", "weigh") /\ buyout' = [buyout EXCEPT ![w] = b]
    <3>1. Proceed(w, "tally", "weigh") /\ buyout'[w] \in scheduled
      BY <1>1, <2>3 DEF WorkersOK
    <3> QED
      BY <1>1, <1>2, <1>5, <1>7, <2>1, <3>1 DEF Tallied
  <2> QED
    BY <1>21, <2>2, <2>3 DEF Tally
<1>22. CASE Weigh(w)
  <2>1. Kept /\ UNCHANGED excuse
    BY <1>4, <1>22 DEF Weigh
  <2>2. CASE FindsPosition(i) /\ Due(w)
    <3>1. Proceed(w, "weigh", "fund")
      BY <1>22, <2>2 DEF Weigh, i
    <3> QED
      BY <1>1, <1>2, <1>5, <1>7, <2>1, <2>2, <3>1 DEF Tallied, i
  <2>3. CASE ~(FindsPosition(i) /\ Due(w))
    <3>1. Finish(w, "weigh")
      BY <1>22, <2>3 DEF Weigh, i
    <3> QED
      BY <1>1, <1>2, <1>5, <1>6, <2>1, <2>3, <3>1 DEF Tallied, i
  <2> QED
    BY <2>2, <2>3
<1>23. CASE TallyFails(w)
  <2>1. PICK from \in {"tally", "weigh"} : Finish(w, from)
    BY <1>23 DEF TallyFails
  <2>2. Kept /\ Note(i, "refused")
    BY <1>4, <1>23 DEF TallyFails, i
  <2>3. Alone(w) /\ Leaves(w, from) /\ "refused" \in excuse'[i]
    BY <1>3, <1>5, <1>6, <2>1, <2>2
  <2> QED
    BY <1>1, <2>1, <2>2, <2>3 DEF Tallied, i
<1>24. CASE Fund(w) \/ FundFails(w)
  <2>1. Proceed(w, "fund", "book") /\ Kept /\ (UNCHANGED excuse \/ Note(i, "refused"))
    BY <1>4, <1>24 DEF Fund, FundFails, Funded, holdings, Kept, i
  <2> QED
    BY <1>1, <1>2, <1>3, <1>5, <1>7, <2>1 DEF Tallied
<1>25. CASE Book(w) \/ BookFails(w)
  <2>1. Finish(w, "book") /\ Kept /\ (UNCHANGED excuse \/ Note(i, "refused"))
    BY <1>4, <1>25 DEF Book, BookFails, Booked, holdings, Kept, i
  <2> QED
    BY <1>1, <1>2, <1>3, <1>5, <1>6, <2>1 DEF Tallied
<1> QED
  BY <1>8, <1>9, <1>10, <1>11, <1>12, <1>13, <1>14, <1>17, <1>18, <1>19, <1>20, <1>21, <1>22,
     <1>23, <1>24, <1>25 DEF Handle, Check

LEMMA EffectMeans ==
  ASSUME chain \in Chains, StoreOK, NEW i \in Index, NEW listed, Effect(i, listed)
  PROVE  /\ docs' = docs
         /\ \A j \in Index \ {i} : done'[j] = done[j]
         /\ done'[i] = IF chain[i].kind \in Mints /\ ~FindsPosition(i) THEN done[i] ELSE done[i] + 1
         /\ \A p \in Holding : position[p] # "none" =>
              position'[p] # "none" /\ depositTime'[p] = depositTime[p]
         /\ chain[i].kind \in Deposits => position'[Place(i)] # "none"
         /\ status' = IF chain[i].kind \in StatusEvents THEN i ELSE status
<1>1. /\ docs' = docs /\ position' = Positions(i) /\ depositTime' = DepositTimes(i)
      /\ status' = IF chain[i].kind \in StatusEvents THEN i ELSE status
  BY DEF Effect, VaultStatus
<1>2. /\ \A j \in Index \ {i} : done'[j] = done[j]
      /\ done'[i] = IF chain[i].kind \in Mints /\ ~FindsPosition(i) THEN done[i] ELSE done[i] + 1
  BY DEF Effect, StoreOK
<1>3. \A p \in Holding : position[p] # "none" =>
        Positions(i)[p] # "none" /\ DepositTimes(i)[p] = depositTime[p]
  BY DEF Positions, DepositTimes, StoreOK
<1>4. chain[i].kind \in Deposits => Positions(i)[Place(i)] # "none"
  <2> SUFFICES ASSUME chain[i].kind \in Deposits
               PROVE  Positions(i)[Place(i)] # "none"
    OBVIOUS
  <2>1. Place(i) \in Holding /\ position \in [Holding -> {"none", "active", "completed"}]
    BY TheChain DEF StoreOK
  <2>2. chain[i].kind \notin Redemptions
    BY DEF Deposits, Redemptions
  <2> QED
    BY <2>1, <2>2 DEF Positions
<1> QED
  BY <1>1, <1>2, <1>3, <1>4

LEMMA FundsMeans ==
  ASSUME TypeOK, NEW w \in Worker, Handle(w)
  PROVE  Funds(w)
<1>1. chain \in Chains /\ StoreOK /\ WorkersOK /\ ExcuseOK /\ Working(w) /\ Job(w) \in Index
  BY AllTypes, TheJob DEF Handle
<1> DEFINE i == Job(w)
           Others == \A v \in Worker \ {w} : list'[v] = list[v] /\ buyout'[v] = buyout[v]
           Same == list'[w] = list[w] /\ buyout'[w] = buyout[w]
           Buyout == chain[i].kind = "BuyoutScheduled"
<1>2. Tail(todo[w]) # todo[w]
  <2>1. todo[w] \in Seq(Index) /\ todo[w] # << >>
    BY <1>1, TheJob DEF Working
  <2>2. \A s \in Seq(Index) : s # << >> => Len(Tail(s)) = Len(s) - 1 /\ Len(s) \in Nat
    OBVIOUS
  <2>3. Len(Tail(todo[w])) # Len(todo[w])
    BY <2>1, <2>2
  <2> QED
    BY <2>3
<1>3. ASSUME NEW from, Finish(w, from)
      PROVE  at[w] = from /\ todo'[w] # todo[w] /\ Others /\ buyout'[w] = 0
  BY <1>1, <1>2, <1>3 DEF Finish, WorkersOK
<1>4. ASSUME NEW from, NEW to, Proceed(w, from, to)
      PROVE  at[w] = from /\ todo'[w] = todo[w]
  BY <1>4 DEF Proceed
<1>5. UNCHANGED findings => Others /\ Same
  BY DEF findings
<1>6. UNCHANGED store => UNCHANGED sums
  BY DEF store
<1>7. ASSUME NEW what, Note(i, what)
      PROVE  what \in excuse'[i]
  BY <1>1, <1>7, NoteMeans
<1>8. ASSUME UNCHANGED sums, at[w] \notin {"list", "tally", "apply", "fund", "book"},
             at[w] = "create" => ~Buyout, Others, (todo'[w] # todo[w] /\ buyout'[w] = 0) \/ Same
      PROVE  Funds(w)
  BY <1>8 DEF Funds
<1>9. CASE Lookup(w) \/ Check(w)
  <2>1. UNCHANGED store
    BY <1>9 DEF Lookup, Check, SkipDuplicate, SkipUnsupported, FoundNothing, FoundError
  <2>2. PICK from \in {"lookup", "check"} :
          Finish(w, from) \/ (UNCHANGED findings /\ \E to : Proceed(w, from, to))
    BY <1>9 DEF Lookup, Check, SkipDuplicate, SkipUnsupported, FoundNothing, FoundError
  <2>3. at[w] = from /\ Others /\ ((todo'[w] # todo[w] /\ buyout'[w] = 0) \/ Same)
    BY <1>3, <1>4, <1>5, <2>2
  <2> QED
    BY <1>6, <1>8, <2>1, <2>3
<1>10. CASE Undecodable(w)
  <2>1. PICK from \in {"list", "create", "apply"} : Finish(w, from)
    BY <1>10 DEF Undecodable
  <2>2. "refused" \in excuse'[i] /\ UNCHANGED sums
    BY <1>6, <1>7, <1>10 DEF Undecodable
  <2>3. at[w] = from /\ todo'[w] # todo[w] /\ Others /\ buyout'[w] = 0
    BY <1>3, <2>1
  <2> QED
    BY <2>2, <2>3 DEF Funds, sums
<1>11. CASE ListPositions(w)
  <2>1. at[w] = "list" /\ todo'[w] = todo[w] /\ UNCHANGED sums
    BY <1>4, <1>6, <1>11 DEF ListPositions
  <2>2. Others /\ buyout'[w] = buyout[w]
    BY <1>1, <1>11 DEF ListPositions, WorkersOK
  <2>3. \/ "blind" \in excuse'[i]
        \/ list'[w] = {p \in Holding : position[p] = "active" /\ p[2] = "compute_labs"}
    BY <1>1, <1>7, <1>11 DEF ListPositions, WorkersOK
  <2> QED
    BY <2>1, <2>2, <2>3 DEF Funds
<1>12. CASE Create(w)
  <2>1. AfterCreate(w) /\ Document(w)
    BY <1>12 DEF Create
  <2>2. at[w] = "create" /\ Others /\ ((todo'[w] # todo[w] /\ buyout'[w] = 0) \/ Same)
    BY <1>3, <1>4, <1>5, <2>1 DEF AfterCreate
  <2>3. CASE Buyout
    <3>1. /\ i \in docs' /\ scheduled' = scheduled \cup {i}
          /\ counted' = [counted EXCEPT ![i] = SumOf(list[w])]
          /\ UNCHANGED <<buyouts, booked>>
      BY <2>1, <2>3 DEF Document
    <3>2. todo'[w] # todo[w] /\ buyout'[w] = 0
      BY <1>3, <2>1, <2>3 DEF AfterCreate
    <3> QED
      BY <2>2, <2>3, <3>1, <3>2 DEF Funds
  <2>4. CASE ~Buyout
    <3>1. UNCHANGED sums
      BY <2>1, <2>4 DEF Document, sums
    <3> QED
      BY <1>8, <2>2, <2>4, <3>1
  <2> QED
    BY <2>3, <2>4
<1>13. CASE CreateFails(w)
  <2>1. CASE chain[i].kind \in StatusEvents
    <3>1. AfterCreate(w) /\ (Document(w) \/ UNCHANGED store) /\ ~Buyout
      BY <1>13, <2>1 DEF CreateFails, StatusEvents
    <3>2. at[w] = "create" /\ Others /\ ((todo'[w] # todo[w] /\ buyout'[w] = 0) \/ Same)
      BY <1>3, <1>4, <1>5, <3>1 DEF AfterCreate
    <3>3. UNCHANGED sums
      BY <1>6, <3>1 DEF Document, sums
    <3> QED
      BY <1>8, <3>1, <3>2, <3>3
  <2>2. CASE chain[i].kind \notin StatusEvents
    <3>1. Finish(w, "create") /\ Note(i, "refused") /\ (Document(w) \/ UNCHANGED store)
      BY <1>13, <2>2 DEF CreateFails
    <3>2. at[w] = "create" /\ todo'[w] # todo[w] /\ Others /\ buyout'[w] = 0 /\ "refused" \in excuse'[i]
      BY <1>3, <1>7, <3>1
    <3>3. CASE ~Buyout
      <4>1. UNCHANGED sums
        BY <1>6, <3>1, <3>3 DEF Document, sums
      <4> QED
        BY <1>8, <3>2, <3>3, <4>1
    <3>4. CASE Buyout
      <4>1. /\ UNCHANGED <<buyouts, booked>>
            /\ \/ UNCHANGED <<scheduled, counted>>
               \/ /\ i \in docs' /\ scheduled' = scheduled \cup {i}
                  /\ counted' = [counted EXCEPT ![i] = SumOf(list[w])]
        BY <1>6, <3>1, <3>4 DEF Document, sums
      <4> QED
        BY <3>2, <3>4, <4>1 DEF Funds
    <3> QED
      BY <3>3, <3>4
  <2> QED
    BY <2>1, <2>2
<1>14. CASE Apply(w) \/ ApplyFails(w)
  <2>1. Effect(i, list[w]) \/ ("refused" \in excuse'[i] /\ UNCHANGED sums)
    BY <1>6, <1>7, <1>14 DEF Apply, ApplyFails
  <2>2. Finish(w, "apply") \/ (UNCHANGED findings /\ \E to : Proceed(w, "apply", to))
    BY <1>14 DEF Apply, ApplyFails, AfterApply
  <2>3. at[w] = "apply" /\ Others /\ ((todo'[w] # todo[w] /\ buyout'[w] = 0) \/ Same)
    BY <1>3, <1>4, <1>5, <2>2
  <2> QED
    BY <2>1, <2>3 DEF Funds
<1>15. CASE Tally(w)
  <2>1. UNCHANGED sums
    BY <1>6, <1>15 DEF Tally
  <2>2. CASE Finish(w, "tally")
    <3>1. at[w] = "tally" /\ todo'[w] # todo[w] /\ Others /\ buyout'[w] = 0
      BY <1>3, <2>2
    <3> QED
      BY <2>1, <3>1 DEF Funds
  <2>3. CASE \E b \in scheduled :
               Proceed(w, "tally", "weigh") /\ buyout' = [buyout EXCEPT ![w] = b] /\ UNCHANGED list
    <3>1. at[w] = "tally" /\ todo'[w] = todo[w] /\ Others /\ list'[w] = list[w] /\ buyout'[w] \in scheduled
      BY <1>1, <1>4, <2>3 DEF WorkersOK
    <3> QED
      BY <2>1, <3>1 DEF Funds
  <2> QED
    BY <1>15, <2>2, <2>3 DEF Tally
<1>16. CASE Weigh(w) \/ TallyFails(w)
  <2>1. UNCHANGED sums
    BY <1>6, <1>16 DEF Weigh, TallyFails
  <2>2. CASE Finish(w, "weigh") \/ Finish(w, "tally")
    <3>1. at[w] \in {"tally", "weigh"} /\ todo'[w] # todo[w] /\ Others /\ buyout'[w] = 0
      BY <1>3, <2>2
    <3> QED
      BY <2>1, <3>1 DEF Funds
  <2>3. CASE Proceed(w, "weigh", "fund") /\ UNCHANGED findings
    <3>1. at[w] = "weigh" /\ Others /\ Same
      BY <1>4, <1>5, <2>3
    <3> QED
      BY <1>8, <2>1, <3>1
  <2> QED
    BY <1>16, <2>2, <2>3 DEF Weigh, TallyFails
<1>17. CASE Fund(w) \/ FundFails(w)
  <2>1. /\ Proceed(w, "fund", "book") /\ UNCHANGED findings
        /\ Funded(w) \/ ("refused" \in excuse'[i] /\ UNCHANGED sums)
    BY <1>6, <1>7, <1>17 DEF Fund, FundFails
  <2>2. at[w] = "fund" /\ Others /\ Same
    BY <1>4, <1>5, <2>1
  <2> QED
    BY <2>1, <2>2 DEF Funds
<1>18. CASE Book(w) \/ BookFails(w)
  <2>1. Finish(w, "book") /\ (Booked(w) \/ ("refused" \in excuse'[i] /\ UNCHANGED sums))
    BY <1>6, <1>7, <1>18 DEF Book, BookFails
  <2>2. at[w] = "book" /\ todo'[w] # todo[w] /\ Others /\ buyout'[w] = 0
    BY <1>3, <2>1
  <2> QED
    BY <2>1, <2>2 DEF Funds
<1> QED
  BY <1>9, <1>10, <1>11, <1>12, <1>13, <1>14, <1>15, <1>16, <1>17, <1>18 DEF Handle

\* Nothing that has been achieved or noted is ever undone.
Grows ==
  /\ UNCHANGED chain
  /\ docs \subseteq docs'
  /\ \A i \in Index : done'[i] >= done[i] /\ excuse[i] \subseteq excuse'[i]
  /\ \A p \in Holding : position[p] # "none" =>
       position'[p] # "none" /\ depositTime'[p] = depositTime[p]

LEMMA HandleGrows ==
  ASSUME TypeOK, NEW w \in Worker, Handle(w)
  PROVE  /\ Grows
         /\ docs' \subseteq docs \cup {Job(w)}
         /\ \A j \in Index \ {Job(w)} : done'[j] = done[j]
<1>1. chain \in Chains /\ StoreOK /\ WorkersOK /\ ExcuseOK /\ Working(w) /\ Job(w) \in Index
  BY AllTypes, TheJob DEF Handle
<1>2. Alone(w)
  BY HandleMeans
<1>3. \A i \in Index : excuse[i] \subseteq excuse'[i]
  BY <1>2 DEF Alone
<1>4. \/ Effect(Job(w), list[w])
      \/ UNCHANGED <<done, position, depositTime>> /\ docs \subseteq docs' /\ docs' \subseteq docs \cup {Job(w)}
  <2>1. Kept => UNCHANGED <<done, position, depositTime>> /\ docs \subseteq docs' /\ docs' \subseteq docs \cup {Job(w)}
    BY DEF Kept
  <2> QED
    BY <2>1, HandleMeans DEF Searched, Skipped, Entered, Listed, Created, Failed, Applied, Tallied
<1>5. \A i \in Index : done[i] \in Nat
  BY <1>1 DEF StoreOK
<1>6. CASE Effect(Job(w), list[w])
  <2>1. /\ docs' = docs
        /\ \A j \in Index \ {Job(w)} : done'[j] = done[j]
        /\ done'[Job(w)] \in {done[Job(w)], done[Job(w)] + 1}
        /\ \A p \in Holding : position[p] # "none" =>
             position'[p] # "none" /\ depositTime'[p] = depositTime[p]
    BY <1>1, <1>6, EffectMeans
  <2>2. \A i \in Index : done'[i] >= done[i]
    BY <1>5, <2>1
  <2> QED
    BY <1>2, <1>3, <2>1, <2>2 DEF Grows, Alone
<1>7. CASE UNCHANGED <<done, position, depositTime>> /\ docs \subseteq docs' /\ docs' \subseteq docs \cup {Job(w)}
  BY <1>2, <1>3, <1>5, <1>7 DEF Grows, Alone
<1> QED
  BY <1>4, <1>6, <1>7

\* The listener's own steps leave the documents and effects alone.
Untouched == UNCHANGED <<chain, store>>

LEMMA StartShape ==
  ASSUME TypeOK, Start
  PROVE  /\ UNCHANGED <<chain, store, workers, upto>>
         /\ \A i \in Index : excuse'[i] \in {excuse[i], excuse[i] \cup {"skipped"}}
         /\ \/ UNCHANGED <<client, next, synced>>
            \/ client = "none" /\ client' = "closed" /\ UNCHANGED <<next, synced>>
            \/ /\ client = "none" /\ client' = "open"
               /\ synced' = synced \/ (synced = NoState /\ synced' = next' - 1)
               /\ \A i \in Index : chain[i].tx \in (synced + 1)..(next' - 1) => "skipped" \in excuse'[i]
<1>1. PICK p \in Vault \ entered :
        EntryFails(p) \/ FirstEntry(p) \/ FirstEntryAfresh(p) \/ FirstEntryFails(p) \/ FurtherEntry(p)
  BY DEF Start
<1>2. CASE EntryFails(p) \/ FirstEntryFails(p) \/ FurtherEntry(p)
  BY <1>2 DEF EntryFails, FirstEntryFails, FurtherEntry, handlerVars
<1>3. CASE FirstEntry(p)
  <2>1. synced \in Int /\ next' = synced + 1
    BY <1>3, AllTypes, TheHeight DEF FirstEntry, ListenerOK, NoState
  <2>2. \A t : t \notin (synced + 1)..(next' - 1)
    BY <2>1
  <2> QED
    BY <1>3, <2>2 DEF FirstEntry, handlerVars
<1>4. CASE FirstEntryAfresh(p)
  BY <1>4 DEF FirstEntryAfresh
<1> QED
  BY <1>1, <1>2, <1>3, <1>4

LEMMA NextGrows ==
  ASSUME TypeOK, Next
  PROVE  Grows
<1>1. chain \in Chains /\ StoreOK /\ WorkersOK /\ ExcuseOK
  BY AllTypes
<1>2. \A i \in Index : done[i] \in Nat
  BY <1>1 DEF StoreOK
<1>3. ASSUME Untouched, \A i \in Index : excuse[i] \subseteq excuse'[i]
      PROVE  Grows
  BY <1>2, <1>3 DEF Untouched, Grows, store, holdings
<1>4. CASE \E w \in Worker : Handle(w) /\ UNCHANGED listenerVars
  BY <1>4, HandleGrows
<1>5. CASE Start
  <2>1. Untouched /\ \A i \in Index : excuse'[i] \in {excuse[i], excuse[i] \cup {"skipped"}}
    BY <1>5, StartShape DEF Untouched
  <2> QED
    BY <1>3, <2>1
<1>6. CASE Fetch \/ FetchTruncated
  <2>1. PICK e \in next..Height, cut \in SUBSET Index, added \in SUBSET Index : Fetched(e, cut, added)
    BY <1>1, <1>6, FetchShape
  <2>2. Untouched
    BY <2>1 DEF Fetched, Takes, Untouched
  <2>3. \A i \in Index : excuse[i] \subseteq excuse'[i]
    BY <2>1 DEF Fetched
  <2> QED
    BY <1>3, <2>2, <2>3
<1>7. CASE Save \/ StepBack
  BY <1>3, <1>7 DEF Save, StepBack, Untouched
<1>8. CASE ManualTrigger
  <2>1. CASE Accepts /\ \E m \in Mode : \E s \in Seq(Index) : Requested(m, s)
    <3>1. PICK m \in Mode, s \in Seq(Index) : Requested(m, s)
      BY <2>1
    <3>2. Untouched
      BY <3>1 DEF Requested, Takes, Untouched
    <3>3. \A i \in Index : excuse[i] \subseteq excuse'[i]
      BY <3>1 DEF Requested
    <3> QED
      BY <1>3, <3>2, <3>3
  <2>2. CASE \E i \in docs : StoredEvent(i)
    <3>1. PICK i \in docs : StoredEvent(i)
      BY <2>2
    <3>2. i \in Index /\ Effect(i, {}) /\ Note(i, "stored") /\ UNCHANGED chain
      BY <1>1, <3>1 DEF StoredEvent, StoreOK
    <3>3. /\ docs' = docs
          /\ \A j \in Index \ {i} : done'[j] = done[j]
          /\ done'[i] \in {done[i], done[i] + 1}
          /\ \A p \in Holding : position[p] # "none" =>
               position'[p] # "none" /\ depositTime'[p] = depositTime[p]
      BY <1>1, <3>2, EffectMeans
    <3>4. \A j \in Index : excuse[j] \subseteq excuse'[j]
      BY <1>1, <3>2, NoteMeans
    <3>5. \A j \in Index : done'[j] >= done[j]
      BY <1>2, <3>3
    <3> QED
      BY <3>2, <3>3, <3>4, <3>5 DEF Grows
  <2> QED
    BY <1>1, <1>8, <2>1, <2>2, TriggerShape
<1>9. CASE Die
  <2>1. Untouched
    BY <1>9 DEF Die, Untouched
  <2>2. \A i \in Index : excuse[i] \subseteq excuse'[i]
    BY <1>9 DEF Die
  <2> QED
    BY <1>3, <2>1, <2>2
<1> QED
  BY <1>4, <1>5, <1>6, <1>7, <1>8, <1>9 DEF Next

-----------------------------------------------------------------------------
(* What the other steps amount to.                                         *)

LEMMA TwoWorkers == Monitor \in Worker /\ Trigger \in Worker /\ Monitor # Trigger
                    /\ \A w \in Worker : w = Monitor \/ w = Trigger
BY ListenerAssumption

\* The monitor has the logs of a new batch; those it lacks were lost.
Batches(e, added) ==
  /\ client = "open" /\ upto < next /\ ~Working(Monitor)
  /\ e \in next..Height /\ upto' = e
  /\ UNCHANGED <<chain, store, client, next, synced>>
  /\ todo'[Monitor] \in Seq(Index) /\ mode'[Monitor] = "none"
  /\ at'[Monitor] = Ready("none", todo'[Monitor])
  /\ todo'[Trigger] = todo[Trigger] /\ at'[Trigger] = at[Trigger] /\ mode'[Trigger] = mode[Trigger]
  /\ Logs(todo'[Monitor]) \subseteq Batch(e)
  /\ Related(todo'[Monitor], PassOrder(added))
  /\ \A i \in added : "appended" \in excuse'[i]
  /\ UNCHANGED findings
  /\ \A i \in Hoisted(Logs(todo'[Monitor])) : "hoisted" \in excuse'[i]
  /\ \A i \in Batch(e) : i \in Logs(todo'[Monitor]) \/ excuse'[i] \cap {"cut", "unwatched"} # {}

LEMMA FetchMeans ==
  ASSUME TypeOK, Fetch \/ FetchTruncated
  PROVE  \E e, added : Batches(e, added)
<1>1. chain \in Chains /\ WorkersOK /\ ExcuseOK
  BY AllTypes
<1>2. Between
  BY <1>1, FetchShape
<1>3. PICK e \in next..Height, cut \in SUBSET Index, added \in SUBSET Index :
        /\ cut \subseteq {i \in Batch(e) : chain[i].vault \in watched} /\ added \subseteq cut
        /\ Fetched(e, cut, added)
  BY <1>1, FetchShape
<1> DEFINE asked == {i \in Batch(e) : chain[i].vault \in watched}
           s == TwoPasses(asked \ cut, added)
<1>4. asked \ cut \in SUBSET Index /\ (asked \ cut) \cap added = {}
  BY <1>3 DEF Batch
<1>5. /\ s \in Seq(Index) /\ Logs(s) = (asked \ cut) \cup added
      /\ Related(s, PassOrder(added))
  BY <1>1, <1>4, TwoPassesOrder
<1> HIDE DEF s
<1>6. /\ todo' = [todo EXCEPT ![Monitor] = s] /\ at' = [at EXCEPT ![Monitor] = Ready("none", s)]
      /\ mode' = [mode EXCEPT ![Monitor] = IF s = << >> THEN "none" ELSE "none"]
      /\ upto' = e /\ UNCHANGED <<chain, store, client, next, synced>>
  BY <1>3 DEF Fetched, Takes, s
<1>7. /\ todo'[Monitor] = s /\ mode'[Monitor] = "none" /\ at'[Monitor] = Ready("none", s)
      /\ todo'[Trigger] = todo[Trigger] /\ at'[Trigger] = at[Trigger] /\ mode'[Trigger] = mode[Trigger]
  BY <1>1, <1>6, TwoWorkers DEF WorkersOK
<1>8. Logs(s) \subseteq Batch(e)
  BY <1>3, <1>5
<1>9. \A i \in Index : /\ i \in Batch(e) \ asked => "unwatched" \in excuse'[i]
                       /\ i \in cut \ added => "cut" \in excuse'[i]
                       /\ i \in added => "appended" \in excuse'[i]
  BY <1>3 DEF Fetched
<1>10. \A i \in Batch(e) : i \in Logs(s) \/ excuse'[i] \cap {"cut", "unwatched"} # {}
  BY <1>5, <1>9 DEF Batch
<1>11. UNCHANGED findings /\ \A i \in Hoisted(Logs(s)) : "hoisted" \in excuse'[i]
  <2>1. UNCHANGED findings
    BY <1>3 DEF Fetched, Takes
  <2>2. Hoisted(Logs(s)) \subseteq Index
    BY <1>4, <1>5, <1>3 DEF Hoisted
  <2>3. \A i \in Index : i \in Hoisted((asked \ cut) \cup added) => "hoisted" \in excuse'[i]
    BY <1>3 DEF Fetched
  <2> QED
    BY <1>5, <2>1, <2>2, <2>3
<1>12. Batches(e, added)
  BY <1>2, <1>3, <1>5, <1>6, <1>7, <1>8, <1>9, <1>10, <1>11 DEF Batches, Between
<1> QED
  BY <1>12

\* The trigger has the logs of a request.
Serves(m, s) ==
  /\ client # "none" /\ ~Working(Trigger)
  /\ m \in Mode /\ s \in Seq(Index)
  /\ todo'[Trigger] = s /\ at'[Trigger] = Ready(m, s)
  /\ mode'[Trigger] = IF s = << >> THEN "none" ELSE m
  /\ todo'[Monitor] = todo[Monitor] /\ at'[Monitor] = at[Monitor] /\ mode'[Monitor] = mode[Monitor]
  /\ \A i \in Logs(s) : "triggered" \in excuse'[i]
  /\ \A i \in Index : excuse'[i] \ {"triggered"} = excuse[i] \ {"triggered"}
  /\ UNCHANGED <<chain, store, findings, client, next, upto, synced>>

\* The trigger has replayed the document of log i.
Replays(i) ==
  /\ i \in docs /\ i \in Index /\ Effect(i, {})
  /\ chain[i].kind \notin Mints \cup StatusEvents \cup {"BuyoutScheduled"}
  /\ "stored" \in excuse'[i]
  /\ \A j \in Index \ {i} : excuse'[j] = excuse[j]
  /\ UNCHANGED <<chain, workers, client, next, upto, synced>>

LEMMA TriggerMeans ==
  ASSUME TypeOK, ManualTrigger
  PROVE  (\E m, s : Serves(m, s)) \/ (\E i : Replays(i))
<1>1. chain \in Chains /\ StoreOK /\ WorkersOK /\ ExcuseOK
  BY AllTypes
<1>2. CASE Accepts /\ \E m \in Mode : \E s \in Seq(Index) : Requested(m, s)
  <2>1. PICK m \in Mode, s \in Seq(Index) : Requested(m, s)
    BY <1>2
  <2>2. /\ ~Working(Trigger) /\ todo' = [todo EXCEPT ![Trigger] = s]
        /\ at' = [at EXCEPT ![Trigger] = Ready(m, s)]
        /\ mode' = [mode EXCEPT ![Trigger] = IF s = << >> THEN "none" ELSE m]
        /\ excuse' = [i \in Index |->
                        IF i \in Logs(s) THEN excuse[i] \cup {"triggered"} ELSE excuse[i]]
        /\ UNCHANGED <<chain, store, findings, client, next, upto, synced>>
    BY <2>1 DEF Requested, Takes
  <2>3. /\ todo'[Trigger] = s /\ at'[Trigger] = Ready(m, s)
        /\ mode'[Trigger] = IF s = << >> THEN "none" ELSE m
        /\ todo'[Monitor] = todo[Monitor] /\ at'[Monitor] = at[Monitor] /\ mode'[Monitor] = mode[Monitor]
    BY <1>1, <2>2, TwoWorkers DEF WorkersOK
  <2>4. Logs(s) \subseteq Index
    BY DEF Logs
  <2>5. /\ \A i \in Logs(s) : "triggered" \in excuse'[i]
        /\ \A i \in Index : excuse'[i] \ {"triggered"} = excuse[i] \ {"triggered"}
    BY <2>2, <2>4
  <2>6. Serves(m, s)
    BY <1>2, <2>2, <2>3, <2>5 DEF Serves, Accepts
  <2> QED
    BY <2>6
<1>3. CASE \E i \in docs : StoredEvent(i)
  <2>1. PICK i \in docs : StoredEvent(i)
    BY <1>3
  <2>2. /\ i \in Index /\ Effect(i, {}) /\ Note(i, "stored")
        /\ UNCHANGED <<chain, workers, client, next, upto, synced>>
        /\ EventName(chain[i].kind) \in {"VaultDeposit", "VaultRedeemed", "RedemptionRequested",
                                         "PositionStatusUpdated", "VaultRolledOver"}
    BY <1>1, <2>1 DEF StoredEvent, StoreOK
  <2>3. chain[i].kind \notin Mints \cup StatusEvents \cup {"BuyoutScheduled"}
    <3>1. ASSUME chain[i].kind \in Mints \cup StatusEvents \cup {"BuyoutScheduled"}
          PROVE  EventName(chain[i].kind) = chain[i].kind
      BY <3>1 DEF EventName, Mints, StatusEvents, Deposits, Redemptions
    <3> QED
      BY <2>2, <3>1 DEF Mints, StatusEvents
  <2>4. "stored" \in excuse'[i] /\ \A j \in Index \ {i} : excuse'[j] = excuse[j]
    BY <1>1, <2>2, NoteMeans
  <2>5. Replays(i)
    BY <2>1, <2>2, <2>3, <2>4 DEF Replays
  <2> QED
    BY <2>5
<1> QED
  BY <1>1, <1>2, <1>3, TriggerShape

\* The process has ended.
Ends ==
  /\ client # "none" /\ client' = "none" /\ next' = 1 /\ upto' = 0
  /\ \A w \in Worker : todo'[w] = << >> /\ at'[w] = "idle" /\ mode'[w] = "none" /\ buyout'[w] = 0
  /\ UNCHANGED <<chain, store, synced>>
  /\ \A w \in Worker : Working(w) /\ Job(w) \in Index => "died" \in excuse'[Job(w)]
  /\ \A i \in Index : Replaying /\ chain[i].tx <= synced => "interrupted" \in excuse'[i]
  /\ \A i \in Index : excuse[i] \subseteq excuse'[i]

LEMMA DieMeans ==
  ASSUME Die
  PROVE  Ends
<1>1. excuse' = [i \in Index |->
        excuse[i] \cup
        (IF \E w \in Worker : Working(w) /\ Job(w) = i THEN {"died"} ELSE {}) \cup
        (IF Replaying /\ chain[i].tx <= synced THEN {"interrupted"} ELSE {})]
  BY DEF Die
<1>2. \A w \in Worker : Working(w) /\ Job(w) \in Index => "died" \in excuse'[Job(w)]
  BY <1>1
<1>3. \A i \in Index : /\ Replaying /\ chain[i].tx <= synced => "interrupted" \in excuse'[i]
                       /\ excuse[i] \subseteq excuse'[i]
  BY <1>1
<1> QED
  BY <1>2, <1>3 DEF Die, Ends

\* What a worker that leaves its log goes on with.
LEMMA LeavesMeans ==
  ASSUME chain \in Chains, WorkersOK, NEW w \in Worker, Working(w), NEW from, Leaves(w, from),
         UNCHANGED chain
  PROVE  /\ Logs(todo'[w]) \subseteq Logs(todo[w]) /\ Logs(todo[w]) = Logs(todo'[w]) \cup {Job(w)}
         /\ Working(w)' => /\ Job(w)' \in Logs(todo'[w]) /\ Job(w)' \in Index
                           /\ chain[Job(w)'].kind \in Signature
                           /\ mode'[w] = mode[w]
                           /\ \/ mode[w] \in {"none", "forced"} /\ at'[w] = FirstCall(Job(w)')
                              \/ mode[w] \in {"by name", "by signature"} /\ at'[w] = "lookup"
<1>1. /\ Tail(todo[w]) \in Seq(Index) /\ mode[w] \in Mode
      /\ Logs(todo[w]) = Logs(Tail(todo[w])) \cup {Job(w)}
      /\ todo'[w] = Tail(todo[w])
  BY TheJob DEF Leaves, WorkersOK
<1>2. ASSUME Tail(todo[w]) # << >>
      PROVE  /\ Head(Tail(todo[w])) \in Index /\ Head(Tail(todo[w])) \in Logs(Tail(todo[w]))
             /\ chain[Head(Tail(todo[w]))].kind \in Signature
             /\ mode'[w] = mode[w]
             /\ \/ mode[w] \in {"none", "forced"} /\ at'[w] = FirstCall(Head(Tail(todo[w])))
                \/ mode[w] \in {"by name", "by signature"} /\ at'[w] = "lookup"
  <2>1. Head(Tail(todo[w])) \in Index /\ Head(Tail(todo[w])) \in Logs(Tail(todo[w]))
    BY <1>1, <1>2, TailLogs
  <2>2. chain[Head(Tail(todo[w]))].kind \in Signature
    BY <2>1, TheChain
  <2> QED
    BY <1>1, <1>2, <2>1, <2>2, ReadyType DEF Leaves, Mode
<1> QED
  BY <1>1, <1>2 DEF Working, Job

\* The monitor of this process has finished a batch, or goes back.
Saves ==
  /\ client = "open" /\ upto >= next /\ ~Working(Monitor)
  /\ next' = upto + 1 /\ synced' \in {upto, synced}
  /\ UNCHANGED <<chain, store, workers, excuse, client, upto>>

GoesBack ==
  /\ client = "open" /\ upto < next /\ ~Working(Monitor)
  /\ next' \in 1..(next - 1) /\ upto' = 0
  /\ UNCHANGED <<chain, store, workers, excuse, client, synced>>

\* Start goes on, or nothing happens.
Starts ==
  /\ UNCHANGED <<chain, store, workers, upto>>
  /\ \A i \in Index : excuse'[i] \in {excuse[i], excuse[i] \cup {"skipped"}}
  /\ \/ UNCHANGED <<client, next, synced>>
     \/ client = "none" /\ client' = "closed" /\ UNCHANGED <<next, synced>>
     \/ /\ client = "none" /\ client' = "open"
        /\ synced' = synced \/ (synced = NoState /\ synced' = next' - 1)
        /\ \A i \in Index : chain[i].tx \in (synced + 1)..(next' - 1) => "skipped" \in excuse'[i]

\* Worker w takes a step of its handler.
Handles(w) ==
  /\ Working(w) /\ Job(w) \in Index /\ Alone(w)
  /\ \/ Searched(w) \/ Skipped(w) \/ Entered(w) \/ Listed(w) \/ Created(w)
     \/ Failed(w) \/ Applied(w) \/ Tallied(w)
  /\ docs' \subseteq docs \cup {Job(w)}
  /\ \A j \in Index \ {Job(w)} : done'[j] = done[j]
  /\ Funds(w)
  /\ UNCHANGED <<client, next, upto, synced>>

LEMMA NextMeans ==
  ASSUME TypeOK, [Next]_vars
  PROVE  /\ TypeOK' /\ Grows
         /\ \/ \E w \in Worker : Handles(w)
            \/ Starts
            \/ \E e, added : Batches(e, added)
            \/ Saves
            \/ GoesBack
            \/ \E m, s : Serves(m, s)
            \/ \E i : Replays(i)
            \/ Ends
<1>1. TypeOK'
  BY NextType
<1>2. CASE UNCHANGED vars
  <2>1. Starts
    BY <1>2 DEF Starts, vars, handlerVars, listenerVars
  <2>2. StoreOK /\ Untouched /\ UNCHANGED excuse
    BY <1>2, AllTypes DEF vars, handlerVars, Untouched
  <2>3. Grows
    BY <2>2 DEF Grows, Untouched, store, holdings, StoreOK
  <2> QED
    BY <1>1, <2>1, <2>3
<1>3. CASE Next
  <2>1. Grows
    BY <1>3, NextGrows
  <2>2. CASE \E w \in Worker : Handle(w) /\ UNCHANGED listenerVars
    <3>1. PICK w \in Worker : Handle(w) /\ UNCHANGED listenerVars
      BY <2>2
    <3>2. Working(w) /\ Job(w) \in Index
      BY <3>1, AllTypes, TheJob DEF Handle
    <3>3. Handles(w)
      BY <3>1, <3>2, HandleMeans, HandleGrows, FundsMeans DEF Handles, listenerVars
    <3> QED
      BY <1>1, <2>1, <3>3
  <2>3. CASE Start
    BY <1>1, <2>1, <2>3, StartShape DEF Starts
  <2>4. CASE Fetch \/ FetchTruncated
    BY <1>1, <2>1, <2>4, FetchMeans
  <2>5. CASE Save
    BY <1>1, <2>1, <2>5 DEF Save, Saves, NextBatch
  <2>6. CASE StepBack
    BY <1>1, <2>1, <2>6 DEF StepBack, GoesBack, Between
  <2>7. CASE ManualTrigger
    BY <1>1, <2>1, <2>7, TriggerMeans
  <2>8. CASE Die
    BY <1>1, <2>1, <2>8, DieMeans
  <2> QED
    BY <1>3, <2>2, <2>3, <2>4, <2>5, <2>6, <2>7, <2>8 DEF Next
<1> QED
  BY <1>2, <1>3

-----------------------------------------------------------------------------
(* Types and control.                                                      *)

\* Every state is one of the listener's, whatever the history of the vaults.
THEOREM TypeCorrect == Spec => []TypeOK
BY InitType, NextType, PTL DEF Spec

\* The first call for a log fits it.
LEMMA FirstFits ==
  ASSUME chain \in Chains, UNCHANGED chain, NEW w \in Worker, Job(w)' \in Index,
         \/ mode'[w] \in {"none", "forced"} /\ at'[w] = FirstCall(Job(w)')
         \/ mode'[w] \in {"by name", "by signature"} /\ at'[w] = "lookup"
  PROVE  FitsJob(w)'
<1> DEFINE i == Job(w)'
<1>1. chain' = chain /\ chain[i].kind \in Signature
  BY TheChain
<1> HIDE DEF i
<1>2. CASE at'[w] = "lookup" /\ mode'[w] \in {"by name", "by signature"}
  BY <1>2 DEF FitsJob
<1>3. CASE at'[w] = FirstCall(i)
  <2>1. CASE chain[i].kind \in Mints
    <3>1. at'[w] = "apply"
      BY <1>1, <1>3, <2>1, FirstCalls
    <3>2. Acts(i)
      BY <2>1 DEF Acts, Supported, Mints, StatusEvents
    <3> QED
      BY <1>1, <3>1, <3>2 DEF FitsJob, Acts, Supported, ComputeLabs, i
  <2>2. CASE chain[i].kind \in StatusEvents
    <3>1. at'[w] = "create"
      BY <1>1, <1>3, <2>2, FirstCalls
    <3>2. chain[i].kind \notin Mints \cup Undocumented /\ Supported(i) /\ chain[i].kind # "BuyoutScheduled"
      BY <2>2 DEF Supported, Mints, StatusEvents, Undocumented
    <3> QED
      BY <1>1, <3>1, <3>2 DEF FitsJob, Supported, i
  <2>3. CASE chain[i].kind \notin Mints \cup StatusEvents
    <3>1. at'[w] = "check"
      BY <1>1, <1>3, <2>3, FirstCalls
    <3> QED
      BY <1>1, <2>3, <3>1 DEF FitsJob, i
  <2> QED
    BY <2>1, <2>2, <2>3
<1> QED
  BY <1>2, <1>3 DEF i

\* A worker that stands still fits its log on.
LEMMA StillFits ==
  ASSUME TypeOK, Grows, NEW w \in Worker, Working(w), Job(w) \in Index, FitsJob(w), TypeOK',
         todo'[w] = todo[w], at'[w] = at[w], mode'[w] = mode[w], buyout'[w] = buyout[w]
  PROVE  FitsJob(w)'
<1> DEFINE i == Job(w)
<1>1. /\ Job(w)' = i /\ chain' = chain /\ Index' = Index
      /\ chain[i].kind = "CLGPUTokensTransferred" => Place(i) \in Holding
  BY AllTypes, TheChain DEF Job, Grows, Index, Mints
<1>2. done[i] > 0 => done'[i] > 0
  <2>1. done[i] \in Nat /\ done'[i] \in Nat /\ done'[i] >= done[i]
    BY <1>1, AllTypes, AllTypesNext DEF Grows, StoreOK
  <2> QED
    BY <2>1
<1>3. /\ at[w] = "lookup" => mode[w] \in {"by name", "by signature"}
      /\ at[w] = "check" => chain[i].kind \notin Mints \cup StatusEvents
      /\ at[w] = "list" => chain[i].kind = "BuyoutScheduled"
      /\ at[w] = "create" => /\ chain[i].kind \notin Mints \cup Undocumented
                             /\ Supported(i)
                             /\ chain[i].kind = "BuyoutScheduled" => done[i] > 0
      /\ at[w] = "apply" => Acts(i)
      /\ at[w] \in {"tally", "weigh", "fund", "book"} => chain[i].kind = "CLGPUTokensTransferred"
      /\ at[w] \in {"weigh", "fund", "book"} => buyout[w] # 0
      /\ at[w] \in {"fund", "book"} => FindsPosition(i) /\ Due(w)
  BY DEF FitsJob, i
<1>4. ASSUME at[w] \in {"fund", "book"}
      PROVE  /\ position'[Place(i)] # "none" /\ ComputeLabs(i)
             /\ depositTime'[Place(i)] <= chain[buyout[w]].date
  BY <1>1, <1>3, <1>4 DEF Grows, FindsPosition, Due
<1> HIDE DEF i
<1>5. (Supported(i) => Supported(i)') /\ (Acts(i) => Acts(i)')
  BY <1>1 DEF Supported, Acts, ComputeLabs, i
<1>6. at[w] \in {"fund", "book"} => FindsPosition(Job(w))' /\ Due(w)'
  BY <1>1, <1>4 DEF FindsPosition, Due, Place, ComputeLabs
<1> QED
  BY <1>1, <1>2, <1>3, <1>5, <1>6 DEF FitsJob, Supported, Acts, ComputeLabs

LEMMA ControlInit == Init => ControlFits
<1> SUFFICES ASSUME Init
             PROVE  ControlFits
  OBVIOUS
<1>1. \A w \in Worker : ~Working(w) /\ mode[w] = "none" /\ Logs(todo[w]) = {}
  BY DEF Init, HandlersInit, Working, Logs
<1> QED
  BY <1>1, TwoWorkers DEF ControlFits, Init

\* A worker goes on to a call that fits its log (one case for each outcome).
LEMMA HandledFits ==
  ASSUME TypeOK, ControlFits, TypeOK', Grows, NEW w \in Worker, Handles(w), Working(w)'
  PROVE  FitsJob(w)'
<1> DEFINE i == Job(w)
<1>1. /\ chain \in Chains /\ StoreOK /\ WorkersOK /\ Working(w) /\ i \in Index /\ FitsJob(w)
      /\ chain' = chain /\ Index' = Index /\ chain[i].kind \in Signature
  BY AllTypes, TheChain DEF Handles, ControlFits, Grows, Index
<1>2. ASSUME NEW from, Leaves(w, from)
      PROVE  FitsJob(w)'
  <2>1. /\ Job(w)' \in Index /\ mode'[w] = mode[w]
        /\ \/ mode[w] \in {"none", "forced"} /\ at'[w] = FirstCall(Job(w)')
           \/ mode[w] \in {"by name", "by signature"} /\ at'[w] = "lookup"
    BY <1>1, <1>2, LeavesMeans
  <2> QED
    BY <1>1, <2>1, FirstFits
<1>3. ASSUME NEW from, NEW to, Calls(w, from, to)
      PROVE  at[w] = from /\ at'[w] = to /\ mode'[w] = mode[w] /\ Job(w)' = i
  BY <1>3 DEF Calls, Job
<1>4. ASSUME Job(w)' = i,
             at'[w] = "lookup" => mode'[w] \in {"by name", "by signature"},
             at'[w] = "check" => chain[i].kind \notin Mints \cup StatusEvents,
             at'[w] = "list" => chain[i].kind = "BuyoutScheduled",
             at'[w] = "create" => /\ chain[i].kind \notin Mints \cup Undocumented
                                  /\ Supported(i)
                                  /\ chain[i].kind = "BuyoutScheduled" => done'[i] > 0,
             at'[w] = "apply" => Acts(i),
             at'[w] \in {"tally", "weigh", "fund", "book"} => chain[i].kind = "CLGPUTokensTransferred",
             at'[w] \in {"weigh", "fund", "book"} => buyout'[w] # 0,
             at'[w] \in {"fund", "book"} => FindsPosition(Job(w))' /\ Due(w)'
      PROVE  FitsJob(w)'
  <2>1. (Supported(i) => Supported(Job(w))') /\ (Acts(i) => Acts(Job(w))')
    BY <1>1, <1>4 DEF Supported, Acts, ComputeLabs
  <2> QED
    BY <1>1, <1>4, <2>1 DEF FitsJob
<1>5. /\ at[w] = "check" => chain[i].kind \notin Mints \cup StatusEvents
      /\ at[w] = "list" => chain[i].kind = "BuyoutScheduled"
      /\ at[w] = "create" => chain[i].kind \notin Mints \cup Undocumented /\ Supported(i)
  BY <1>1 DEF FitsJob
<1> HIDE DEF i
<1>6. CASE Searched(w)
  <2>1. CASE Calls(w, "lookup", FirstCall(Job(w)))
    <3>1. Job(w)' = i /\ at'[w] = FirstCall(i) /\ mode'[w] = mode[w]
      BY <1>3, <2>1 DEF i
    <3>2. CASE chain[i].kind \in Mints
      <4>1. at'[w] = "apply"
        BY <1>1, <3>1, <3>2, FirstCalls
      <4>2. Acts(i)
        BY <3>2 DEF Acts, Supported, Mints, StatusEvents
      <4> QED
        BY <1>4, <3>1, <4>1, <4>2
    <3>3. CASE chain[i].kind \in StatusEvents
      <4>1. at'[w] = "create"
        BY <1>1, <3>1, <3>3, FirstCalls
      <4>2. chain[i].kind \notin Mints \cup Undocumented /\ Supported(i) /\ chain[i].kind # "BuyoutScheduled"
        BY <3>3 DEF Supported, Mints, StatusEvents, Undocumented
      <4> QED
        BY <1>4, <3>1, <4>1, <4>2
    <3>4. CASE chain[i].kind \notin Mints \cup StatusEvents
      <4>1. at'[w] = "check"
        BY <1>1, <3>1, <3>4, FirstCalls
      <4> QED
        BY <1>4, <3>1, <3>4, <4>1
    <3> QED
      BY <3>2, <3>3, <3>4
  <2> QED
    BY <1>2, <1>6, <2>1 DEF Searched
<1>7. CASE Entered(w)
  <2>1. Job(w)' = i /\ at'[w] = AfterCheck(i) /\ at[w] = "check" /\ Supported(i)
    BY <1>3, <1>7 DEF Entered, i
  <2>2. chain[i].kind \notin Mints \cup StatusEvents
    BY <1>5, <2>1
  <2>3. CASE chain[i].kind \in Undocumented
    <3>1. at'[w] = "apply" /\ Acts(i)
      BY <1>1, <2>1, <2>2, <2>3, FirstCalls DEF Acts
    <3> QED
      BY <1>4, <2>1, <3>1
  <2>4. CASE chain[i].kind = "BuyoutScheduled"
    <3>1. at'[w] = "list"
      BY <1>1, <2>1, <2>4, FirstCalls
    <3> QED
      BY <1>4, <2>1, <2>4, <3>1
  <2>5. CASE chain[i].kind \notin Undocumented \cup {"BuyoutScheduled"}
    <3>1. at'[w] = "create"
      BY <1>1, <2>1, <2>5, FirstCalls
    <3> QED
      BY <1>4, <2>1, <2>2, <2>5, <3>1
  <2> QED
    BY <2>3, <2>4, <2>5
<1>8. CASE Listed(w)
  <2>1. Job(w)' = i /\ at'[w] = "apply" /\ at[w] = "list"
    BY <1>3, <1>8 DEF Listed
  <2>2. Acts(i)
    BY <1>5, <2>1 DEF Acts, Supported, StatusEvents
  <2> QED
    BY <1>4, <2>1, <2>2
<1>9. CASE Created(w)
  <2>1. CASE Calls(w, "create", "apply") /\ ~(chain[i].kind \in StatusEvents /\ ~ComputeLabs(i))
    <3>1. Job(w)' = i /\ at'[w] = "apply" /\ at[w] = "create"
      BY <1>3, <2>1
    <3>2. Acts(i)
      BY <1>5, <2>1, <3>1 DEF Acts
    <3> QED
      BY <1>4, <3>1, <3>2
  <2> QED
    BY <1>2, <1>9, <2>1 DEF Created, i
<1>10. CASE Applied(w)
  <2>1. CASE chain[i].kind = "BuyoutScheduled" /\ Calls(w, "apply", "create") /\ Effect(i, list[w])
    <3>1. Job(w)' = i /\ at'[w] = "create"
      BY <1>3, <2>1
    <3>2. done'[i] = done[i] + 1 /\ done[i] \in Nat
      BY <1>1, <2>1, EffectMeans DEF Mints, StoreOK, i
    <3>3. chain[i].kind \notin Mints \cup Undocumented /\ Supported(i)
      BY <2>1 DEF Mints, Undocumented, Supported
    <3> QED
      BY <1>4, <3>1, <3>2, <3>3
  <2>2. CASE chain[i].kind = "CLGPUTokensTransferred" /\ Calls(w, "apply", "tally")
    <3>1. Job(w)' = i /\ at'[w] = "tally"
      BY <1>3, <2>2
    <3> QED
      BY <1>4, <2>2, <3>1
  <2> QED
    BY <1>2, <1>10, <2>1, <2>2 DEF Applied, i
<1>11. CASE Skipped(w) \/ Failed(w)
  BY <1>2, <1>11 DEF Skipped, Failed
<1>12. CASE Tallied(w)
  <2>1. /\ at[w] \in {"tally", "weigh", "fund", "book"} => chain[i].kind = "CLGPUTokensTransferred"
        /\ at[w] \in {"weigh", "fund", "book"} => buyout[w] # 0
        /\ at[w] \in {"fund", "book"} => FindsPosition(i) /\ Due(w)
    BY <1>1 DEF FitsJob, i
  <2>2. todo'[w] = todo[w] /\ at[w] # "tally" => buyout'[w] = buyout[w]
    BY DEF Handles, Funds
  <2>3. UNCHANGED <<position, depositTime>>
    BY <1>12 DEF Tallied, Kept
  <2>4. CASE Calls(w, "tally", "weigh") /\ buyout'[w] \in scheduled
    <3>1. 0 \notin Index /\ scheduled \subseteq Index
      <4>1. 0 \notin Index
        BY <1>1, TheChain
      <4> QED
        BY <1>1, <4>1 DEF StoreOK
    <3>2. buyout'[w] # 0
      BY <2>4, <3>1
    <3>3. Job(w)' = i /\ at[w] = "tally" /\ at'[w] = "weigh"
      BY <1>3, <2>4
    <3> QED
      BY <1>4, <2>1, <3>2, <3>3
  <2>5. CASE Calls(w, "weigh", "fund") /\ FindsPosition(i) /\ Due(w)
    <3>1. Job(w)' = i /\ at'[w] = "fund" /\ at[w] = "weigh" /\ buyout'[w] = buyout[w]
      BY <1>3, <2>2, <2>5 DEF Calls
    <3>2. FindsPosition(Job(w))' /\ Due(w)'
      BY <1>1, <2>3, <2>5, <3>1 DEF FindsPosition, Due, Place, ComputeLabs, i
    <3> QED
      BY <1>4, <2>1, <3>1, <3>2
  <2>6. CASE Calls(w, "fund", "book")
    <3>1. Job(w)' = i /\ at'[w] = "book" /\ at[w] = "fund" /\ buyout'[w] = buyout[w]
      BY <1>3, <2>2, <2>6 DEF Calls
    <3>2. FindsPosition(Job(w))' /\ Due(w)'
      BY <1>1, <2>1, <2>3, <3>1 DEF FindsPosition, Due, Place, ComputeLabs, i
    <3> QED
      BY <1>4, <2>1, <3>1, <3>2
  <2>7. CASE Leaves(w, "tally") \/ Leaves(w, "weigh") \/ Leaves(w, "book")
    BY <1>2, <2>7
  <2> QED
    BY <1>12, <2>4, <2>5, <2>6, <2>7 DEF Tallied, i
<1> QED
  BY <1>6, <1>7, <1>8, <1>9, <1>10, <1>11, <1>12 DEF Handles

\* What no step of another actor changes.
LEMMA Stands ==
  ASSUME TypeOK, ControlFits, TypeOK', Grows, NEW w \in Worker, Working(w)',
         todo'[w] = todo[w], at'[w] = at[w], mode'[w] = mode[w], buyout'[w] = buyout[w]
  PROVE  FitsJob(w)'
<1>1. Working(w)
  BY DEF Working
<1>2. FitsJob(w) /\ Job(w) \in Index
  BY <1>1, AllTypes, TheJob DEF ControlFits
<1> QED
  BY <1>1, <1>2, StillFits

LEMMA ControlStep ==
  ASSUME TypeOK, ControlFits, [Next]_vars
  PROVE  ControlFits'
<1>1. TypeOK' /\ Grows
  BY NextMeans
<1>2. /\ chain \in Chains /\ WorkersOK /\ chain' = chain /\ Index' = Index /\ UNCHANGED chain
      /\ next \in Nat /\ next >= 1 /\ upto \in Nat
      /\ \A i \in Index : chain[i].tx \in Nat /\ chain[i].tx >= 1
      /\ \A i \in Index : excuse[i] \subseteq excuse'[i]
  BY <1>1, AllTypes, TheChain, TheHeight DEF Grows, Index, ListenerOK
<1>3. /\ mode[Monitor] = "none"
      /\ client # "open" => next = 1 /\ upto = 0 /\ ~Working(Monitor)
      /\ client = "none" => ~Working(Trigger)
      /\ \A i \in Logs(todo[Monitor]) : chain[i].tx \in next..upto
      /\ \A i \in Logs(todo[Trigger]) : "triggered" \in excuse[i]
  BY DEF ControlFits
<1>4. \A w \in Worker : Logs(todo[w]) \subseteq Index
  BY <1>2 DEF WorkersOK, Logs
<1>5. ASSUME NEW w \in Worker, ~Working(w)
      PROVE  Logs(todo[w]) = {}
  BY <1>5 DEF Working, Logs
<1>6. CASE \E w \in Worker : Handles(w)
  <2>1. PICK w \in Worker : Handles(w)
    BY <1>6
  <2>2. \A v \in Worker \ {w} : /\ todo'[v] = todo[v] /\ at'[v] = at[v] /\ mode'[v] = mode[v]
                                 /\ buyout'[v] = buyout[v]
    BY <2>1 DEF Handles, Alone, Funds
  <2>3. /\ Logs(todo'[w]) \subseteq Logs(todo[w])
        /\ mode'[w] \in {mode[w], "none"}
    <3>1. Calls(w, at[w], at'[w]) \/ (\E from : Leaves(w, from))
      BY <2>1 DEF Handles, Searched, Skipped, Entered, Listed, Created, Failed, Applied, Tallied, Calls
    <3>2. CASE Calls(w, at[w], at'[w])
      BY <3>2 DEF Calls
    <3>3. CASE \E from : Leaves(w, from)
      <4>1. PICK from : Leaves(w, from)
        BY <3>3
      <4>2. Logs(todo'[w]) \subseteq Logs(todo[w])
        BY <1>2, <2>1, <4>1, LeavesMeans DEF Handles
      <4> QED
        BY <4>1, <4>2 DEF Leaves
    <3> QED
      BY <3>1, <3>2, <3>3
  <2>4. /\ client # "open" => next = 1 /\ upto = 0 /\ ~Working(Monitor)'
        /\ client = "none" => ~Working(Trigger)'
    BY <1>3, <2>1, <2>2, TwoWorkers DEF Handles, Working
  <2>5. \A v \in Worker : Logs(todo'[v]) \subseteq Logs(todo[v]) /\ mode'[v] \in {mode[v], "none"}
    BY <2>2, <2>3
  <2>6. UNCHANGED <<client, next, upto>>
    BY <2>1 DEF Handles
  <2>7. /\ \A i \in Logs(todo'[Monitor]) : chain'[i].tx \in next'..upto'
        /\ \A i \in Logs(todo'[Trigger]) : "triggered" \in excuse'[i]
    BY <1>2, <1>3, <1>4, <2>5, <2>6, TwoWorkers
  <2>8. \A v \in Worker : Working(v)' => FitsJob(v)'
    BY <1>1, <2>1, <2>2, HandledFits, Stands
  <2> QED
    BY <1>3, <2>4, <2>5, <2>6, <2>7, <2>8, TwoWorkers DEF ControlFits, Logs
<1>7. ASSUME UNCHANGED workers
      PROVE  \A w \in Worker : /\ todo'[w] = todo[w] /\ at'[w] = at[w] /\ mode'[w] = mode[w]
                               /\ (Working(w)' <=> Working(w)) /\ (Working(w)' => FitsJob(w)')
  <2>1. \A w \in Worker : /\ todo'[w] = todo[w] /\ at'[w] = at[w] /\ mode'[w] = mode[w]
                          /\ buyout'[w] = buyout[w] /\ (Working(w)' <=> Working(w))
    BY <1>7 DEF workers, findings, Working
  <2> QED
    BY <1>1, <2>1, Stands
<1>8. CASE Starts
  <2>1. UNCHANGED <<workers, upto>> /\ (UNCHANGED <<client, next>> \/ client = "none")
        /\ (client' = "open" \/ UNCHANGED next)
    BY <1>8 DEF Starts
  <2>2. \A i \in Logs(todo'[Monitor]) : chain'[i].tx \in next'..upto'
    BY <1>2, <1>3, <1>5, <1>7, <2>1, TwoWorkers
  <2>3. /\ client' # "open" => next' = 1 /\ upto' = 0 /\ ~Working(Monitor)'
        /\ client' = "none" => ~Working(Trigger)'
    <3>1. /\ Working(Monitor)' <=> Working(Monitor)
          /\ Working(Trigger)' <=> Working(Trigger)
      BY <1>7, <2>1, TwoWorkers
    <3>2. \/ UNCHANGED <<client, next>>
          \/ client = "none" /\ client' = "closed" /\ UNCHANGED next
          \/ client = "none" /\ client' = "open"
      BY <1>8 DEF Starts
    <3> QED
      BY <1>3, <2>1, <3>1, <3>2
  <2>4. \A i \in Logs(todo'[Trigger]) : "triggered" \in excuse'[i]
    BY <1>2, <1>3, <1>4, <1>7, <2>1, TwoWorkers
  <2> QED
    BY <1>3, <1>7, <2>1, <2>2, <2>3, <2>4, TwoWorkers DEF ControlFits, Logs
<1>9. CASE \E e, added : Batches(e, added)
  <2>1. PICK e, added : Batches(e, added)
    BY <1>9
  <2>2. /\ upto' = e /\ UNCHANGED <<client, next>> /\ client = "open"
        /\ todo'[Monitor] \in Seq(Index) /\ mode'[Monitor] = "none"
        /\ at'[Monitor] = Ready("none", todo'[Monitor])
        /\ todo'[Trigger] = todo[Trigger] /\ at'[Trigger] = at[Trigger] /\ mode'[Trigger] = mode[Trigger]
        /\ Logs(todo'[Monitor]) \subseteq Batch(e) /\ UNCHANGED buyout
    BY <2>1 DEF Batches, findings
  <2>3. \A i \in Logs(todo'[Monitor]) : chain'[i].tx \in next'..upto'
    BY <1>2, <2>2 DEF Batch
  <2>4. \A i \in Logs(todo'[Trigger]) : "triggered" \in excuse'[i]
    BY <1>2, <1>3, <1>4, <2>2, TwoWorkers
  <2>5. Working(Monitor)' => FitsJob(Monitor)'
    <3>1. ASSUME todo'[Monitor] # << >>
          PROVE  Job(Monitor)' \in Index /\ at'[Monitor] = FirstCall(Job(Monitor)')
      <4> DEFINE s == todo'[Monitor]
      <4>1. s \in Seq(Index) /\ s # << >> /\ at'[Monitor] = Ready("none", s) /\ Job(Monitor)' = Head(s)
        BY <2>2, <3>1 DEF Job
      <4>2. "none" \in Mode
        BY DEF Mode
      <4> HIDE DEF s
      <4>3. Head(s) \in Index /\ Ready("none", s) = FirstCall(Head(s))
        BY <1>2, <4>1, <4>2, TailLogs, ReadyType
      <4> QED
        BY <4>1, <4>3
    <3> QED
      BY <1>2, <2>2, <3>1, FirstFits, TwoWorkers DEF Working
  <2>6. Working(Trigger)' => FitsJob(Trigger)'
    BY <1>1, <2>2, Stands, TwoWorkers
  <2>7. \A w \in Worker : Working(w)' => FitsJob(w)'
    BY <2>5, <2>6, TwoWorkers
  <2> QED
    BY <2>2, <2>3, <2>4, <2>7 DEF ControlFits, Logs
<1>10. CASE Saves \/ GoesBack
  <2>1. ~Working(Monitor) /\ UNCHANGED <<chain, excuse, client, workers>> /\ client = "open"
    BY <1>10 DEF Saves, GoesBack
  <2>2. Logs(todo'[Monitor]) = {} /\ todo'[Trigger] = todo[Trigger] /\ mode'[Monitor] = "none"
    BY <1>3, <1>5, <1>7, <2>1, TwoWorkers
  <2> QED
    BY <1>3, <1>7, <2>1, <2>2 DEF ControlFits, Logs
<1>11. CASE \E m, s : Serves(m, s)
  <2>1. PICK m, s : Serves(m, s)
    BY <1>11
  <2>2. /\ UNCHANGED <<client, next, upto, buyout>> /\ client # "none" /\ m \in Mode /\ s \in Seq(Index)
        /\ todo'[Trigger] = s /\ at'[Trigger] = Ready(m, s)
        /\ mode'[Trigger] = IF s = << >> THEN "none" ELSE m
        /\ todo'[Monitor] = todo[Monitor] /\ at'[Monitor] = at[Monitor] /\ mode'[Monitor] = mode[Monitor]
        /\ \A i \in Logs(s) : "triggered" \in excuse'[i]
    BY <2>1 DEF Serves, findings
  <2>3. \A i \in Logs(todo'[Monitor]) : chain'[i].tx \in next'..upto'
    BY <1>2, <1>3, <2>2
  <2>4. \A i \in Logs(todo'[Trigger]) : "triggered" \in excuse'[i]
    BY <2>2
  <2>5. Working(Trigger)' => FitsJob(Trigger)'
    <3>1. ASSUME s # << >>
          PROVE  /\ Job(Trigger)' \in Index /\ mode'[Trigger] = m
                 /\ \/ m \in {"none", "forced"} /\ at'[Trigger] = FirstCall(Job(Trigger)')
                    \/ m \in {"by name", "by signature"} /\ at'[Trigger] = "lookup"
      <4>1. Head(s) \in Index
        BY <2>2, <3>1, TailLogs
      <4>2. \/ m \in {"none", "forced"} /\ Ready(m, s) = FirstCall(Head(s))
            \/ m \in {"by name", "by signature"} /\ Ready(m, s) = "lookup"
        BY <1>2, <2>2, <3>1, ReadyType DEF Mode
      <4> QED
        BY <2>2, <3>1, <4>1, <4>2 DEF Job
    <3> QED
      BY <1>2, <2>2, <3>1, FirstFits, TwoWorkers DEF Working
  <2>6. Working(Monitor)' => FitsJob(Monitor)'
    BY <1>1, <2>2, Stands, TwoWorkers
  <2>7. \A w \in Worker : Working(w)' => FitsJob(w)'
    BY <2>5, <2>6, TwoWorkers
  <2>8. Working(Monitor)' <=> Working(Monitor)
    BY <2>2 DEF Working
  <2> QED
    BY <1>3, <2>2, <2>3, <2>4, <2>7, <2>8 DEF ControlFits, Logs
<1>12. CASE \E i : Replays(i)
  <2>1. UNCHANGED <<chain, workers, client, next, upto>>
    BY <1>12 DEF Replays
  <2>2. /\ \A i \in Logs(todo'[Monitor]) : chain'[i].tx \in next'..upto'
        /\ \A i \in Logs(todo'[Trigger]) : "triggered" \in excuse'[i]
    BY <1>2, <1>3, <1>4, <1>7, <2>1, TwoWorkers
  <2>3. /\ client' # "open" => next' = 1 /\ upto' = 0 /\ ~Working(Monitor)'
        /\ client' = "none" => ~Working(Trigger)'
    BY <1>3, <1>7, <2>1, TwoWorkers
  <2> QED
    BY <1>3, <1>7, <2>1, <2>2, <2>3, TwoWorkers DEF ControlFits, Logs
<1>13. CASE Ends
  <2>1. \A w \in Worker : ~Working(w)' /\ mode'[w] = "none" /\ Logs(todo'[w]) = {}
    BY <1>13 DEF Ends, Working, Logs
  <2> QED
    BY <1>13, <2>1, TwoWorkers DEF Ends, ControlFits, Logs
<1> QED
  BY <1>6, <1>8, <1>9, <1>10, <1>11, <1>12, <1>13, NextMeans

-----------------------------------------------------------------------------
(* The order of the monitor's logs.                                        *)

Appended == {i \in Index : "appended" \in excuse[i]}

\* MonitorInOrder in terms of the relation that the two passes keep.
LEMMA OrderKept ==
  ASSUME TypeOK, MonitorInOrder
  PROVE  Related(todo[Monitor], PassOrder(Appended))
<1>1. \A a \in DOMAIN todo[Monitor] : todo[Monitor][a] \in Index
  BY AllTypes, TwoWorkers DEF WorkersOK
<1> QED
  BY <1>1 DEF MonitorInOrder, Related, PassOrder, Appended

LEMMA OrderRestored ==
  ASSUME UNCHANGED chain, NEW added, Related(todo'[Monitor], PassOrder(added)),
         \A i \in added \cap Index : "appended" \in excuse'[i]
  PROVE  MonitorInOrder'
<1> SUFFICES ASSUME NEW a \in DOMAIN todo'[Monitor], NEW b \in DOMAIN todo'[Monitor], a < b
             PROVE  LET first == todo'[Monitor][a]
                        later == todo'[Monitor][b]
                    IN /\ chain[later].kind \in Deposits => chain[first].kind \in Deposits
                       /\ chain[first].kind \notin Deposits /\ "appended" \notin excuse'[later]
                            => first < later
  BY DEF MonitorInOrder
<1>1. <<todo'[Monitor][a], todo'[Monitor][b]>> \in PassOrder(added)
  BY DEF Related
<1> QED
  BY <1>1 DEF PassOrder

LEMMA OrderInit == Init => MonitorInOrder
<1>1. Init => todo[Monitor] = << >>
  BY TwoWorkers DEF Init, HandlersInit
<1> QED
  BY <1>1 DEF MonitorInOrder

LEMMA OrderStep ==
  ASSUME TypeOK, MonitorInOrder, [Next]_vars
  PROVE  MonitorInOrder'
<1>1. TypeOK' /\ Grows
  BY NextMeans
<1>2. /\ chain \in Chains /\ WorkersOK /\ UNCHANGED chain /\ todo[Monitor] \in Seq(Index)
      /\ \A i \in Appended \cap Index : "appended" \in excuse'[i]
  BY <1>1, AllTypes, TwoWorkers DEF Grows, Appended, WorkersOK
<1>3. Related(todo[Monitor], PassOrder(Appended))
  BY OrderKept
<1>4. CASE todo'[Monitor] = todo[Monitor]
  BY <1>2, <1>3, <1>4, OrderRestored
<1>5. CASE Working(Monitor) /\ todo'[Monitor] = Tail(todo[Monitor])
  <2>1. Related(Tail(todo[Monitor]), PassOrder(Appended))
    BY <1>2, <1>3, <1>5, TailLogs DEF Working
  <2> QED
    BY <1>2, <1>5, <2>1, OrderRestored
<1>6. CASE \E e, added : Batches(e, added)
  BY <1>2, <1>6, OrderRestored DEF Batches
<1>7. CASE todo'[Monitor] = << >>
  BY <1>7 DEF MonitorInOrder
<1>8. \/ todo'[Monitor] = todo[Monitor]
      \/ Working(Monitor) /\ todo'[Monitor] = Tail(todo[Monitor])
      \/ \E e, added : Batches(e, added)
      \/ todo'[Monitor] = << >>
  <2>1. CASE \E w \in Worker : Handles(w)
    <3>1. PICK w \in Worker : Handles(w)
      BY <2>1
    <3>2. todo'[w] \in {todo[w], Tail(todo[w])} /\ Working(w)
      BY <3>1 DEF Handles, Searched, Skipped, Entered, Listed, Created, Failed, Applied, Tallied,
         Calls, Leaves
    <3> QED
      BY <3>1, <3>2, TwoWorkers DEF Handles, Alone
  <2>2. CASE Starts \/ Saves \/ GoesBack \/ \E i : Replays(i)
    BY <2>2 DEF Starts, Saves, GoesBack, Replays, workers
  <2>3. CASE \E m, s : Serves(m, s)
    BY <2>3 DEF Serves
  <2>4. CASE Ends
    BY <2>4, TwoWorkers DEF Ends
  <2> QED
    BY <2>1, <2>2, <2>3, <2>4, NextMeans
<1> QED
  BY <1>4, <1>5, <1>6, <1>7, <1>8

-----------------------------------------------------------------------------
(* Effects that are not repeated.                                          *)

\* What EffectsOnce says of log i.
EffectOnce(i) ==
  /\ done[i] <= 1
  /\ \A v, w \in Worker : Beyond(v, i) /\ Beyond(w, i) => v = w
  /\ \A w \in Worker : Beyond(w, i) =>
       done[i] = IF chain[i].kind = "BuyoutScheduled" /\ at[w] = "create" THEN 1 ELSE 0
  /\ \/ i \in docs
     \/ /\ done[i] = 1 => \E w \in Worker : Beyond(w, i) /\ at[w] = "create"
        /\ chain[i].kind # "BuyoutScheduled" =>
             \A w \in Worker : Beyond(w, i) => at[w] = "create"

LEMMA OnceEach == EffectsOnce <=> \A i \in Index : Once(i) => EffectOnce(i)
BY DEF EffectsOnce, EffectOnce

LEMMA OnceEachNext == EffectsOnce' <=> \A i \in Index' : Once(i)' => EffectOnce(i)'
BY DEF EffectsOnce, EffectOnce

\* A step that leaves log i and the workers past its check alone.
LEMMA OnceStill ==
  ASSUME NEW i, EffectOnce(i), UNCHANGED chain, done'[i] = done[i], i \in docs <=> i \in docs',
         \A w \in Worker : (Beyond(w, i)' <=> Beyond(w, i)) /\ (Beyond(w, i) => at'[w] = at[w])
  PROVE  EffectOnce(i)'
BY DEF EffectOnce

\* A guarded handler begins with its check.
LEMMA NotYetBeyond ==
  ASSUME chain \in Chains, NEW i \in Index, chain[i].kind \notin Unguarded, NEW w \in Worker,
         Job(w)' = i => at'[w] \in {FirstCall(i), "lookup"}
  PROVE  ~Beyond(w, i)'
<1>1. FirstCall(i) = "check"
  BY TheChain, FirstCalls DEF Unguarded
<1> QED
  BY <1>1 DEF Beyond

LEMMA OnceHandled ==
  ASSUME TypeOK, ControlFits, Grows, NEW w \in Worker, Handles(w),
         NEW i \in Index, EffectOnce(i), Once(i), Once(i)'
  PROVE  EffectOnce(i)'
<1>1. /\ chain \in Chains /\ StoreOK /\ WorkersOK /\ Working(w) /\ FitsJob(w) /\ UNCHANGED chain
      /\ chain[i].kind \in Signature /\ done[i] \in Nat /\ docs \subseteq docs'
  BY AllTypes, TheChain DEF Handles, ControlFits, Grows, StoreOK
<1>2. /\ chain[i].kind \notin Unguarded
      /\ excuse'[i] \cap {"blind", "raced"} = {}
      /\ chain[i].kind = "BuyoutScheduled" => "refused" \notin excuse'[i]
  BY <1>1 DEF Once
<1>3. \A v \in Worker \ {w} : (Beyond(v, i)' <=> Beyond(v, i)) /\ at'[v] = at[v]
  BY DEF Handles, Alone, Beyond, Working, Job
<1>4. ASSUME NEW from, Leaves(w, from)
      PROVE  ~Beyond(w, i)' /\ at[w] = from
  <2>1. Working(w)' => Job(w)' \in Index /\ at'[w] \in {FirstCall(Job(w)'), "lookup"}
    BY <1>1, <1>4, LeavesMeans
  <2>2. CASE Working(w)'
    BY <1>1, <1>2, <1>4, <2>1, <2>2, NotYetBeyond DEF Leaves
  <2>3. CASE ~Working(w)'
    BY <1>4, <2>3 DEF Beyond, Leaves
  <2> QED
    BY <2>2, <2>3
<1>5. ASSUME NEW from, NEW to, Calls(w, from, to)
      PROVE  /\ at[w] = from /\ at'[w] = to
             /\ Beyond(w, i)' <=> (Job(w) = i /\ to \in {"list", "create", "apply"})
  BY <1>1, <1>5 DEF Calls, Beyond, Job, Working
<1>6. Beyond(w, i) <=> (Job(w) = i /\ at[w] \in {"list", "create", "apply"})
  BY <1>1 DEF Beyond
<1>7. CASE Job(w) # i
  <2>1. done'[i] = done[i] /\ (i \in docs <=> i \in docs')
    BY <1>1, <1>7 DEF Handles
  <2>2. ~Beyond(w, i) /\ ~Beyond(w, i)'
    BY <1>4, <1>5, <1>6, <1>7
       DEF Handles, Searched, Skipped, Entered, Listed, Created, Failed, Applied, Tallied
  <2> QED
    BY <1>1, <1>3, <2>1, <2>2, OnceStill
<1>8. CASE Job(w) = i
  <2>1. ASSUME Kept
        PROVE  done'[i] = done[i] /\ (i \in docs <=> i \in docs')
    BY <2>1 DEF Kept
  <2>2. ASSUME Effect(i, list[w])
        PROVE  done'[i] = done[i] + 1 /\ docs' = docs
    <3>1. chain[i].kind \notin Mints
      BY <1>2 DEF Unguarded
    <3> QED
      BY <1>1, <2>2, <3>1, EffectMeans
  <2>3. CASE Searched(w) \/ Skipped(w) \/ Tallied(w)
    <3>1. ~Beyond(w, i) /\ ~Beyond(w, i)' /\ Kept
      <4>1. FirstCall(i) = "check"
        BY <1>1, <1>2, FirstCalls DEF Unguarded
      <4> QED
        BY <1>4, <1>5, <1>6, <1>8, <2>3, <4>1 DEF Searched, Skipped, Tallied
    <3> QED
      BY <1>1, <1>3, <2>1, <3>1, OnceStill
  <2>4. CASE Entered(w)
    <3>1. /\ Calls(w, "check", AfterCheck(i)) /\ Kept /\ ~Duplicate(i)
          /\ ~\E v \in Rivals(w) : at[v] \in {"list", "create", "apply"}
      BY <1>2, <1>8, <2>4 DEF Entered
    <3>2. i \notin docs
      BY <3>1 DEF Duplicate
    <3>3. \A v \in Worker : ~Beyond(v, i)
      BY <1>5, <1>6, <1>8, <3>1 DEF Beyond, Rivals
    <3>4. done[i] = 0
      BY <1>1, <3>2, <3>3 DEF EffectOnce
    <3>5. AfterCheck(i) = (IF chain[i].kind = "BuyoutScheduled" THEN "list" ELSE "create")
      BY <1>1, <1>2, FirstCalls DEF Unguarded
    <3>6. at'[w] = (IF chain[i].kind = "BuyoutScheduled" THEN "list" ELSE "create") /\ Beyond(w, i)'
      BY <1>5, <1>8, <3>1, <3>5
    <3>7. done'[i] = 0 /\ i \notin docs' /\ \A v \in Worker \ {w} : ~Beyond(v, i)'
      BY <1>3, <2>1, <3>1, <3>2, <3>3, <3>4
    <3> QED
      BY <1>1, <3>6, <3>7 DEF EffectOnce
  <2>5. CASE Listed(w)
    <3>1. /\ at[w] = "list" /\ at'[w] = "apply" /\ Kept
          /\ Beyond(w, i) /\ Beyond(w, i)'
      BY <1>5, <1>6, <1>8, <2>5 DEF Listed
    <3>2. chain[i].kind = "BuyoutScheduled"
      BY <1>1, <1>8, <3>1 DEF FitsJob
    <3>3. done[i] = 0 /\ done'[i] = 0
      BY <2>1, <3>1 DEF EffectOnce
    <3>4. \A v \in Worker \ {w} : ~Beyond(v, i)'
      BY <1>3, <3>1 DEF EffectOnce
    <3> QED
      BY <1>1, <3>1, <3>2, <3>3, <3>4 DEF EffectOnce
  <2>6. CASE Created(w)
    <3>1. chain[i].kind \notin StatusEvents
      BY <1>2 DEF Unguarded
    <3>2. i \in docs' /\ done'[i] = done[i]
      BY <1>8, <2>6, <3>1 DEF Created
    <3>3. CASE chain[i].kind = "BuyoutScheduled" /\ Leaves(w, "create")
      <4>1. ~Beyond(w, i)'
        BY <1>4, <3>3
      <4> QED
        BY <1>1, <1>3, <3>2, <4>1 DEF EffectOnce
    <3>4. CASE chain[i].kind # "BuyoutScheduled" /\ Calls(w, "create", "apply")
      <4>1. Beyond(w, i) /\ Beyond(w, i)' /\ at[w] = "create" /\ at'[w] = "apply"
        BY <1>5, <1>6, <1>8, <3>4
      <4>2. done'[i] = 0 /\ \A v \in Worker \ {w} : ~Beyond(v, i)'
        BY <1>3, <3>2, <3>4, <4>1 DEF EffectOnce
      <4> QED
        BY <1>1, <3>2, <4>1, <4>2 DEF EffectOnce
    <3> QED
      BY <1>8, <2>6, <3>1, <3>3, <3>4 DEF Created
  <2>7. ASSUME Effect(i, list[w]), Leaves(w, "apply"), chain[i].kind # "BuyoutScheduled"
        PROVE  EffectOnce(i)'
    <3>1. Beyond(w, i) /\ ~Beyond(w, i)' /\ at[w] = "apply"
      BY <1>4, <1>6, <1>8, <2>7
    <3>2. done[i] = 0 /\ i \in docs /\ \A v \in Worker \ {w} : ~Beyond(v, i)
      BY <2>7, <3>1 DEF EffectOnce
    <3>3. done'[i] = 1 /\ i \in docs'
      BY <2>2, <2>7, <3>2
    <3> QED
      BY <1>1, <1>3, <3>1, <3>2, <3>3 DEF EffectOnce
  <2>8. CASE Failed(w)
    <3>1. chain[i].kind # "BuyoutScheduled"
      BY <1>2, <1>8, <2>8 DEF Failed
    <3>2. CASE Kept /\ \E from \in {"list", "create", "apply"} : Leaves(w, from)
      <4>1. ~Beyond(w, i)'
        BY <1>4, <3>2
      <4>2. done'[i] = done[i] /\ (i \in docs <=> i \in docs')
        BY <2>1, <3>2
      <4>3. i \notin docs => done[i] # 1
        BY <3>1 DEF EffectOnce
      <4> QED
        BY <1>1, <1>3, <3>1, <4>1, <4>2, <4>3 DEF EffectOnce
    <3>3. CASE Leaves(w, "create") /\ docs' = docs \cup {i} /\ UNCHANGED done
      <4>1. ~Beyond(w, i)'
        BY <1>4, <3>3
      <4> QED
        BY <1>1, <1>3, <3>3, <4>1 DEF EffectOnce
    <3> QED
      BY <1>8, <2>7, <2>8, <3>1, <3>2, <3>3 DEF Failed
  <2>9. CASE Applied(w)
    <3>1. chain[i].kind # "CLGPUTokensTransferred"
      BY <1>2 DEF Unguarded, Mints
    <3>2. CASE chain[i].kind = "BuyoutScheduled" /\ Calls(w, "apply", "create") /\ Effect(i, list[w])
      <4>1. Beyond(w, i) /\ Beyond(w, i)' /\ at[w] = "apply" /\ at'[w] = "create"
        BY <1>5, <1>6, <1>8, <3>2
      <4>2. done[i] = 0 /\ done'[i] = 1 /\ \A v \in Worker \ {w} : ~Beyond(v, i)'
        BY <1>3, <2>2, <3>2, <4>1 DEF EffectOnce
      <4> QED
        BY <1>1, <3>2, <4>1, <4>2 DEF EffectOnce
    <3> QED
      BY <1>8, <2>7, <2>9, <3>1, <3>2 DEF Applied
  <2> QED
    BY <2>3, <2>4, <2>5, <2>6, <2>8, <2>9 DEF Handles
<1> QED
  BY <1>7, <1>8

LEMMA OnceInit == Init => EffectsOnce
BY DEF Init, HandlersInit, EffectsOnce, Beyond, Working

LEMMA OnceStep ==
  ASSUME TypeOK, ControlFits, EffectsOnce, [Next]_vars
  PROVE  EffectsOnce'
<1>1. TypeOK' /\ Grows
  BY NextMeans
<1>2. chain \in Chains /\ WorkersOK /\ UNCHANGED chain /\ Index' = Index
  BY <1>1, AllTypes DEF Grows, Index
<1> SUFFICES ASSUME NEW i \in Index, Once(i)'
             PROVE  EffectOnce(i)'
  BY <1>2, OnceEachNext
<1>3. Once(i)
  BY <1>1, <1>2 DEF Once, Grows
<1>4. EffectOnce(i) /\ chain[i].kind \notin Unguarded
  BY <1>3, OnceEach DEF Once
<1>5. ASSUME UNCHANGED workers
      PROVE  \A w \in Worker : (Beyond(w, i)' <=> Beyond(w, i)) /\ at'[w] = at[w]
  BY <1>5 DEF workers, Beyond, Working, Job
<1>6. CASE \E w \in Worker : Handles(w)
  BY <1>1, <1>3, <1>4, <1>6, OnceHandled
<1>7. CASE Starts \/ Saves \/ GoesBack
  <2>1. UNCHANGED <<store, workers>>
    BY <1>7 DEF Starts, Saves, GoesBack
  <2> QED
    BY <1>2, <1>4, <1>5, <2>1, OnceStill DEF store
<1>8. CASE \E e, added : Batches(e, added)
  <2>1. /\ ~Working(Monitor) /\ UNCHANGED store
        /\ todo'[Monitor] \in Seq(Index) /\ at'[Monitor] = Ready("none", todo'[Monitor])
        /\ todo'[Trigger] = todo[Trigger] /\ at'[Trigger] = at[Trigger]
    BY <1>8 DEF Batches
  <2>2. ~Beyond(Monitor, i)'
    <3>1. CASE todo'[Monitor] = << >>
      BY <3>1 DEF Beyond, Working
    <3>2. CASE todo'[Monitor] # << >>
      <4> DEFINE s == todo'[Monitor]
      <4>1. s \in Seq(Index) /\ s # << >> /\ "none" \in Mode
        BY <2>1, <3>2 DEF Mode
      <4>2. at'[Monitor] = Ready("none", s) /\ Job(Monitor)' = Head(s)
        BY <2>1 DEF Job
      <4> HIDE DEF s
      <4>3. Ready("none", s) = FirstCall(Head(s))
        BY <1>2, <4>1, ReadyType
      <4> QED
        BY <1>2, <1>4, <4>2, <4>3, NotYetBeyond, TwoWorkers
    <3> QED
      BY <3>1, <3>2
  <2>3. ~Beyond(Monitor, i) /\ (Beyond(Trigger, i)' <=> Beyond(Trigger, i))
    BY <2>1 DEF Beyond, Working, Job
  <2>4. \A w \in Worker : (Beyond(w, i)' <=> Beyond(w, i)) /\ (Beyond(w, i) => at'[w] = at[w])
    BY <2>1, <2>2, <2>3, TwoWorkers
  <2> QED
    BY <1>2, <1>4, <2>1, <2>4, OnceStill DEF store
<1>9. CASE \E m, s : Serves(m, s)
  <2>1. PICK m, s : Serves(m, s)
    BY <1>9
  <2>2. /\ ~Working(Trigger) /\ UNCHANGED store /\ m \in Mode /\ s \in Seq(Index)
        /\ todo'[Trigger] = s /\ at'[Trigger] = Ready(m, s)
        /\ todo'[Monitor] = todo[Monitor] /\ at'[Monitor] = at[Monitor]
    BY <2>1 DEF Serves
  <2>3. ~Beyond(Trigger, i)'
    <3>1. CASE s = << >>
      BY <2>2, <3>1 DEF Beyond, Working
    <3>2. CASE s # << >>
      <4>1. Ready(m, s) \in {FirstCall(Head(s)), "lookup"} /\ Job(Trigger)' = Head(s)
        BY <1>2, <2>2, <3>2, ReadyType DEF Job
      <4> QED
        BY <1>2, <1>4, <2>2, <4>1, NotYetBeyond, TwoWorkers
    <3> QED
      BY <3>1, <3>2
  <2>4. ~Beyond(Trigger, i) /\ (Beyond(Monitor, i)' <=> Beyond(Monitor, i))
    BY <2>2 DEF Beyond, Working, Job
  <2>5. \A w \in Worker : (Beyond(w, i)' <=> Beyond(w, i)) /\ (Beyond(w, i) => at'[w] = at[w])
    BY <2>2, <2>3, <2>4, TwoWorkers
  <2> QED
    BY <1>2, <1>4, <2>2, <2>5, OnceStill DEF store
<1>10. CASE \E j : Replays(j)
  <2>1. PICK j : Replays(j)
    BY <1>10
  <2>2. j \in Index /\ Effect(j, {}) /\ "stored" \in excuse'[j] /\ UNCHANGED workers
    BY <2>1 DEF Replays
  <2>3. j # i
    BY <2>2 DEF Once
  <2>4. docs' = docs /\ done'[i] = done[i]
    BY <1>2, <2>2, <2>3, EffectMeans, AllTypes
  <2> QED
    BY <1>2, <1>4, <1>5, <2>2, <2>4, OnceStill
<1>11. CASE Ends
  <2>1. /\ \A w \in Worker : ~Beyond(w, i)'
        /\ done'[i] = done[i] /\ docs' = docs
    BY <1>11 DEF Ends, Beyond, Working, store
  <2>2. i \notin docs => done[i] # 1
    <3>1. ASSUME NEW w \in Worker, Beyond(w, i), at[w] = "create", done[i] = 1
          PROVE  FALSE
      <4>1. chain[i].kind = "BuyoutScheduled"
        BY <1>4, <3>1 DEF EffectOnce
      <4>2. "died" \in excuse'[i]
        BY <1>11, <3>1 DEF Ends, Beyond
      <4> QED
        BY <1>2, <4>1, <4>2 DEF Once
    <3> QED
      BY <1>4, <3>1 DEF EffectOnce
  <2> QED
    BY <1>2, <1>4, <2>1, <2>2 DEF EffectOnce
<1> QED
  BY <1>6, <1>7, <1>8, <1>9, <1>10, <1>11, NextMeans

-----------------------------------------------------------------------------
(* The accounting of losses.                                               *)

\* What has been accounted for stays so.
LEMMA AccountStays ==
  ASSUME TypeOK, TypeOK', Grows, NEW i \in Index
  PROVE  /\ HasEffect(i)' <=> HasEffect(i)
         /\ done[i] > 0 => done'[i] > 0
         /\ Mishaps(i) # {} => Mishaps(i)' # {}
         /\ DepositLost(i) => DepositLost(i)'
         /\ Accounted(i) => Accounted(i)'
<1>1. /\ chain' = chain /\ Index' = Index /\ docs \subseteq docs' /\ docs \subseteq Index
      /\ \A j \in Index : excuse[j] \subseteq excuse'[j]
  BY AllTypes DEF Grows, Index, StoreOK
<1>2. HasEffect(i)' <=> HasEffect(i)
  BY <1>1 DEF HasEffect, Acts, Supported, ComputeLabs
<1>3. done[i] > 0 => done'[i] > 0
  <2>1. done[i] \in Nat /\ done'[i] \in Nat /\ done'[i] >= done[i]
    BY <1>1, AllTypes, AllTypesNext DEF StoreOK, Grows
  <2> QED
    BY <2>1
<1>4. \A j \in Index : Mishaps(j) \subseteq Mishaps(j)' /\ Races(j) \subseteq Races(j)'
  BY <1>1 DEF Mishaps, Races
<1>5. \A j, m : (Twin(j, m)' <=> Twin(j, m)) /\ Place(j)' = Place(j)
  BY <1>1 DEF Twin, Place
<1>6. \A j \in Index : DepositLost(j) => DepositLost(j)'
  <2> SUFFICES ASSUME NEW j \in Index, DepositLost(j)
               PROVE  DepositLost(j)'
    OBVIOUS
  <2>1. CASE Mishaps(j) \cup Races(j) # {}
    BY <1>4, <2>1 DEF DepositLost
  <2>2. CASE \E m \in docs : Twin(j, m) /\ (Mishaps(m) # {} \/ Place(m) # Place(j))
    <3>1. PICK m \in docs : Twin(j, m) /\ (Mishaps(m) # {} \/ Place(m) # Place(j))
      BY <2>2
    <3>2. m \in docs' /\ Twin(j, m)' /\ (Mishaps(m)' # {} \/ Place(m)' # Place(j)')
      BY <1>1, <1>4, <1>5, <3>1
    <3> QED
      BY <3>2 DEF DepositLost
  <2> QED
    BY <2>1, <2>2 DEF DepositLost
<1>7. DepositsOf(i)' = DepositsOf(i) /\ DepositsOf(i) \subseteq Index
  BY <1>1, <1>5 DEF DepositsOf
<1>8. Accounted(i) => Accounted(i)'
  <2> SUFFICES ASSUME Accounted(i)
               PROVE  Accounted(i)'
    OBVIOUS
  <2>1. CASE done[i] > 0
    BY <1>3, <2>1 DEF Accounted
  <2>2. CASE Mishaps(i) # {}
    BY <1>4, <2>2 DEF Accounted
  <2>3. CASE \E m \in docs : Twin(i, m)
    <3>1. PICK m \in docs : Twin(i, m)
      BY <2>3
    <3>2. m \in docs' /\ Twin(i, m)'
      BY <1>1, <1>5, <3>1
    <3> QED
      BY <3>2 DEF Accounted
  <2>4. CASE chain[i].kind \in Mints /\ \A d \in DepositsOf(i) : DepositLost(d)
    <3>1. chain'[i].kind \in Mints /\ \A d \in DepositsOf(i) : DepositLost(d)'
      BY <1>1, <1>6, <1>7, <2>4
    <3> QED
      BY <1>7, <3>1 DEF Accounted
  <2> QED
    BY <2>1, <2>2, <2>3, <2>4 DEF Accounted
<1> QED
  BY <1>2, <1>3, <1>4, <1>6, <1>8

\* A log that the monitor reaches is awaited, or lost.
LEMMA ReachedStep ==
  ASSUME TypeOK, ControlFits, [Next]_vars, NEW i \in Index, Reached(i)', ~Reached(i)
  PROVE  Awaited(i)' \/ Mishaps(i)' # {}
<1>1. /\ chain' = chain /\ chain[i].tx \in Nat /\ chain[i].tx >= 1
      /\ next \in Nat /\ upto \in Nat /\ synced \in Int /\ next' \in Nat /\ upto' \in Nat /\ synced' \in Int
  <2>1. TypeOK' /\ chain' = chain
    BY NextMeans DEF Grows
  <2>2. Height \in Nat /\ Height' = Height
    BY <2>1, AllTypes, TheHeight, SameChain
  <2> QED
    BY <2>1, <2>2, AllTypes, AllTypesNext, TheChain DEF ListenerOK, NoState
<1>2. chain[i].tx <= synced' \/ chain[i].tx < next' \/ chain[i].tx <= upto'
  BY <1>1 DEF Reached
<1>3. chain[i].tx > synced /\ chain[i].tx >= next /\ chain[i].tx > upto
  BY <1>1 DEF Reached
<1>4. CASE (\E w \in Worker : Handles(w)) \/ (\E m, s : Serves(m, s)) \/ (\E j : Replays(j))
  BY <1>2, <1>3, <1>1, <1>4 DEF Handles, Serves, Replays
<1>5. CASE Starts
  <2>1. CASE UNCHANGED <<next, synced>> /\ UNCHANGED upto
    BY <1>1, <1>2, <1>3, <2>1
  <2>2. CASE /\ synced' = synced \/ synced' = next' - 1
             /\ \A j \in Index : chain[j].tx \in (synced + 1)..(next' - 1) => "skipped" \in excuse'[j]
             /\ UNCHANGED upto
    <3>1. chain[i].tx \in (synced + 1)..(next' - 1)
      BY <1>1, <1>2, <1>3, <2>2
    <3>2. "skipped" \in excuse'[i]
      BY <2>2, <3>1
    <3> QED
      BY <3>2 DEF Mishaps
  <2> QED
    BY <1>5, <2>1, <2>2 DEF Starts
<1>6. CASE Saves
  BY <1>2, <1>3, <1>1, <1>6 DEF Saves
<1>7. CASE GoesBack
  <2>1. next' < next /\ upto' = 0 /\ synced' = synced
    BY <1>1, <1>7 DEF GoesBack
  <2> QED
    BY <1>1, <1>2, <1>3, <2>1
<1>8. CASE Ends
  BY <1>2, <1>3, <1>1, <1>8 DEF Ends
<1>9. CASE \E e, added : Batches(e, added)
  <2>1. PICK e, added : Batches(e, added)
    BY <1>9
  <2>2. /\ upto' = e /\ UNCHANGED <<next, synced>>
        /\ \A j \in Batch(e) : j \in Logs(todo'[Monitor]) \/ excuse'[j] \cap {"cut", "unwatched"} # {}
    BY <2>1 DEF Batches
  <2>3. i \in Batch(e)
    BY <1>1, <1>2, <1>3, <2>2 DEF Batch
  <2>4. CASE i \in Logs(todo'[Monitor])
    BY <1>1, <1>3, <2>2, <2>4 DEF Awaited, Logs
  <2>5. CASE excuse'[i] \cap {"cut", "unwatched"} # {}
    BY <2>5 DEF Mishaps
  <2> QED
    BY <2>2, <2>3, <2>4, <2>5
<1> QED
  BY <1>4, <1>5, <1>6, <1>7, <1>8, <1>9, NextMeans

\* An awaited log stays so until the monitor leaves it, or the process ends.
LEMMA AwaitedStep ==
  ASSUME TypeOK, ControlFits, [Next]_vars, NEW i \in Index, Awaited(i), Reached(i)', ~Awaited(i)'
  PROVE  Handles(Monitor) /\ Job(Monitor) = i /\ todo'[Monitor] # todo[Monitor]
<1>1. /\ chain \in Chains /\ WorkersOK /\ UNCHANGED chain /\ chain[i].tx \in Nat /\ chain[i].tx >= 1
      /\ synced \in Int /\ todo[Monitor] \in Seq(Index)
  <2>1. chain \in Chains /\ UNCHANGED chain /\ Height \in Nat
    BY AllTypes, NextMeans, TheHeight DEF Grows
  <2> QED
    BY <2>1, AllTypes, TheChain, TwoWorkers DEF ListenerOK, WorkersOK, NoState
<1>2. chain[i].tx > synced /\ i \in Logs(todo[Monitor]) /\ Working(Monitor)
  BY DEF Awaited, Working, Logs
<1>3. ~(todo'[Monitor] = todo[Monitor] /\ synced' = synced)
  BY <1>1, <1>2 DEF Awaited, Logs
<1>4. CASE Starts \/ (\E m, s : Serves(m, s)) \/ (\E j : Replays(j))
  <2>1. client = "open"
    BY <1>2 DEF ControlFits
  <2> QED
    BY <1>3, <1>4, <2>1 DEF Starts, Serves, Replays, workers
<1>5. CASE Saves \/ GoesBack \/ \E e, added : Batches(e, added)
  BY <1>2, <1>5 DEF Saves, GoesBack, Batches
<1>6. CASE Ends
  BY <1>1, <1>2, <1>6 DEF Ends, Reached
<1>7. CASE \E w \in Worker : Handles(w)
  <2>1. PICK w \in Worker : Handles(w)
    BY <1>7
  <2>2. w = Monitor
    BY <1>3, <2>1, TwoWorkers DEF Handles, Alone
  <2>3. todo'[Monitor] # todo[Monitor]
    BY <1>3, <2>1, <2>2 DEF Handles
  <2>4. \E from : Leaves(Monitor, from)
    BY <2>1, <2>2, <2>3 DEF Handles, Searched, Skipped, Entered, Listed, Created, Failed, Applied,
       Tallied, Calls
  <2>5. Logs(todo[Monitor]) = Logs(todo'[Monitor]) \cup {Job(Monitor)}
    BY <1>1, <1>2, <2>4, LeavesMeans, TwoWorkers
  <2>6. i \notin Logs(todo'[Monitor])
    BY <1>1, <1>2, <2>1 DEF Awaited, Handles, Logs
  <2> QED
    BY <1>2, <2>1, <2>2, <2>3, <2>5, <2>6
<1> QED
  BY <1>4, <1>5, <1>6, <1>7, NextMeans

\* A worker that is about to apply log i does so, or that went wrong.
LEMMA InEffectStep ==
  ASSUME TypeOK, [Next]_vars, NEW i \in Index, chain[i].kind \notin Mints, InEffect(i)
  PROVE  InEffect(i)' \/ Mishaps(i)' # {} \/ done'[i] > 0
<1>1. chain \in Chains /\ StoreOK /\ WorkersOK /\ UNCHANGED chain
  BY AllTypes, NextMeans DEF Grows
<1>2. PICK v \in Worker : Working(v) /\ Job(v) = i /\ at[v] = "apply"
  BY DEF InEffect
<1>3. ASSUME todo'[v] = todo[v], at'[v] = at[v]
      PROVE  InEffect(i)'
  BY <1>2, <1>3 DEF InEffect, Working, Job
<1>4. CASE Starts \/ Saves \/ GoesBack \/ (\E j : Replays(j))
  BY <1>3, <1>4 DEF Starts, Saves, GoesBack, Replays, workers
<1>5. CASE \E e, added : Batches(e, added)
  <2>1. v = Trigger
    BY <1>2, <1>5, TwoWorkers DEF Batches
  <2> QED
    BY <1>3, <1>5, <2>1 DEF Batches
<1>6. CASE \E m, s : Serves(m, s)
  <2>1. v = Monitor
    BY <1>2, <1>6, TwoWorkers DEF Serves
  <2> QED
    BY <1>3, <1>6, <2>1 DEF Serves
<1>7. CASE Ends
  <2>1. "died" \in excuse'[i]
    BY <1>2, <1>7 DEF Ends
  <2> QED
    BY <2>1 DEF Mishaps
<1>8. CASE \E w \in Worker : Handles(w)
  <2>1. PICK w \in Worker : Handles(w)
    BY <1>8
  <2>2. CASE w # v
    BY <1>3, <2>1, <2>2 DEF Handles, Alone
  <2>3. CASE w = v
    <3>1. Job(v) = i /\ at[v] = "apply"
      BY <1>2
    <3>2. Failed(v) \/ Applied(v)
      BY <2>1, <2>3, <3>1
         DEF Handles, Searched, Skipped, Entered, Listed, Created, Tallied, Calls, Leaves
    <3>3. "refused" \in excuse'[i] \/ Effect(i, list[v])
      BY <3>1, <3>2 DEF Failed, Applied
    <3>4. ASSUME Effect(i, list[v])
          PROVE  done'[i] > 0
      <4>1. done[i] \in Nat /\ done'[i] = done[i] + 1
        BY <1>1, <3>4, EffectMeans DEF StoreOK
      <4> QED
        BY <4>1
    <3> QED
      BY <3>3, <3>4 DEF Mishaps
  <2> QED
    BY <2>2, <2>3
<1> QED
  BY <1>4, <1>5, <1>6, <1>7, <1>8, NextMeans

LEMMA Documented ==
  ASSUME LossesAccounted, NEW i \in docs
  PROVE  /\ chain[i].kind \notin Mints
         /\ HasEffect(i) => done[i] > 0 \/ Mishaps(i) # {} \/ InEffect(i)
BY DEF LossesAccounted

LEMMA NameOfDeposits ==
  ASSUME NEW i, NEW m, chain[i].kind \in Deposits, EventName(chain[m].kind) = EventName(chain[i].kind)
  PROVE  chain[m].kind \in Deposits
BY DEF EventName, Deposits, Redemptions

\* The mint that the monitor applies finds its position, or all its deposits
\* were lost: the two passes have brought those of the batch before it.
LEMMA MintAccounted ==
  ASSUME TypeOK, ControlFits, MonitorInOrder, DepositsAccounted, TypeOK', Grows,
         Working(Monitor), NEW i, Job(Monitor) = i, NEW listed, Effect(i, listed),
         chain[i].kind \in Mints, HasEffect(i), Reached(i)
  PROVE  Accounted(i)'
<1>1. /\ chain \in Chains /\ StoreOK /\ WorkersOK /\ i \in Index /\ chain' = chain
      /\ i = todo[Monitor][1] /\ 1 \in DOMAIN todo[Monitor] /\ todo[Monitor] \in Seq(Index)
      /\ synced \in Int /\ next \in Nat /\ upto \in Nat
      /\ \A j \in Index : chain[j].tx \in Nat
  <2>1. todo[Monitor] \in Seq(Index) /\ todo[Monitor] # << >>
    BY AllTypes, TwoWorkers DEF WorkersOK, Working
  <2> QED
    BY <2>1, AllTypes, TheJob, TheChain, TheHeight, TwoWorkers DEF Grows, Job, ListenerOK, NoState
<1>2. CASE FindsPosition(i)
  <2>1. done'[i] = done[i] + 1 /\ done[i] \in Nat
    BY <1>1, <1>2, EffectMeans DEF StoreOK
  <2> QED
    BY <2>1 DEF Accounted
<1>3. CASE ~FindsPosition(i)
  <2>1. position[Place(i)] = "none"
    BY <1>3 DEF FindsPosition, HasEffect
  <2>2. ASSUME NEW d \in DepositsOf(i)
        PROVE  DepositLost(d)
    <3>1. /\ d \in Index /\ chain[d].kind \in Deposits /\ Place(d) = Place(i)
          /\ chain[d].tx <= chain[i].tx
      BY DEF DepositsOf
    <3>2. Reached(d)
      BY <1>1, <3>1 DEF Reached
    <3>3. ~Placed(d)
      BY <2>1, <3>1 DEF Placed
    <3>4. ASSUME d \in Logs(todo[Monitor])
          PROVE  FALSE
      <4>1. PICK b \in DOMAIN todo[Monitor] : todo[Monitor][b] = d
        BY <3>4 DEF Logs
      <4>2. chain[i].kind \notin Deposits
        BY DEF Mints, Deposits
      <4>3. b # 1
        BY <1>1, <3>1, <4>1, <4>2
      <4>4. DOMAIN todo[Monitor] = 1..Len(todo[Monitor]) /\ Len(todo[Monitor]) \in Nat
        BY <1>1
      <4>5. 1 < b
        BY <4>1, <4>3, <4>4
      <4> QED
        BY <1>1, <3>1, <4>1, <4>2, <4>5 DEF MonitorInOrder
    <3> QED
      BY <3>1, <3>2, <3>3, <3>4 DEF DepositsAccounted, Awaited
  <2>3. Accounted(i)
    BY <2>2 DEF Accounted
  <2> QED
    BY <1>1, <2>3, AccountStays
<1> QED
  BY <1>2, <1>3

\* A log that the monitor leaves has had its effect, or the loss is accounted
\* for, or another worker is about to apply it.
LEMMA LeftAccounted ==
  ASSUME TypeOK, ControlFits, MonitorInOrder, LossesAccounted, DepositsAccounted, TypeOK', Grows,
         Handles(Monitor), NEW i \in Index, Job(Monitor) = i, todo'[Monitor] # todo[Monitor],
         Reached(i), HasEffect(i)
  PROVE  Accounted(i)' \/ (chain[i].kind \notin Mints /\ InEffect(i)')
<1>1. /\ chain \in Chains /\ StoreOK /\ Working(Monitor) /\ FitsJob(Monitor) /\ mode[Monitor] = "none"
      /\ Alone(Monitor)
  BY AllTypes, TwoWorkers DEF Handles, ControlFits
<1>2. Accounted(i) => Accounted(i)'
  BY AccountStays
<1>3. CASE Searched(Monitor) \/ Entered(Monitor) \/ Listed(Monitor)
  <2>1. Searched(Monitor) /\ at[Monitor] = "lookup"
    BY <1>3 DEF Searched, Entered, Listed, Calls, Leaves
  <2> QED
    BY <1>1, <2>1 DEF FitsJob
<1>4. CASE Skipped(Monitor)
  <2>1. at[Monitor] = "check" /\ chain[i].kind \notin Mints
    BY <1>1, <1>4 DEF Skipped, Leaves, FitsJob
  <2>2. PICK m \in docs : Key(m) = Key(i)
    BY <1>4 DEF Skipped, HasEffect, Acts, Duplicate
  <2>3. CASE m # i
    <3>1. Twin(i, m)
      BY <2>2, <2>3 DEF Twin, Key
    <3>2. Accounted(i)
      BY <3>1 DEF Accounted
    <3> QED
      BY <1>2, <3>2
  <2>4. CASE m = i
    <3>1. done[i] > 0 \/ Mishaps(i) # {} \/ InEffect(i)
      BY <2>4, Documented
    <3>2. CASE InEffect(i)
      <4>1. PICK v \in Worker : Working(v) /\ Job(v) = i /\ at[v] = "apply"
        BY <3>2 DEF InEffect
      <4>2. todo'[v] = todo[v] /\ at'[v] = at[v]
        BY <1>1, <2>1, <4>1 DEF Alone
      <4>3. InEffect(i)'
        BY <4>1, <4>2 DEF InEffect, Working, Job
      <4> QED
        BY <2>1, <4>3
    <3> QED
      BY <1>2, <3>1, <3>2 DEF Accounted
  <2> QED
    BY <2>3, <2>4
<1>5. CASE Created(Monitor)
  <2>1. Leaves(Monitor, "create") /\ chain[i].kind = "BuyoutScheduled"
    BY <1>5 DEF Created, Calls, HasEffect, Acts
  <2>2. done[i] > 0
    BY <1>1, <2>1 DEF Leaves, FitsJob
  <2> QED
    BY <1>2, <2>2 DEF Accounted
<1>6. ASSUME "refused" \in excuse'[i]
      PROVE  Accounted(i)'
  BY <1>6 DEF Accounted, Mishaps
<1>7. CASE Failed(Monitor)
  BY <1>6, <1>7 DEF Failed
<1>8. CASE Applied(Monitor)
  <2>1. Effect(i, list[Monitor]) \/ "refused" \in excuse'[i]
    BY <1>8 DEF Applied
  <2>2. CASE chain[i].kind \in Mints
    BY <1>1, <1>6, <2>1, <2>2, MintAccounted
  <2>3. CASE chain[i].kind \notin Mints
    <3>1. Effect(i, list[Monitor]) => done'[i] = done[i] + 1 /\ done[i] \in Nat
      BY <1>1, <2>3, EffectMeans DEF StoreOK
    <3> QED
      BY <1>6, <2>1, <3>1 DEF Accounted
  <2> QED
    BY <2>2, <2>3
<1>9. CASE Tallied(Monitor)
  <2>1. Accounted(i)
    BY <1>1, <1>9 DEF Tallied, Leaves, Calls, Tallying, LossesAccounted
  <2> QED
    BY <1>2, <2>1
<1> QED
  BY <1>3, <1>4, <1>5, <1>7, <1>8, <1>9 DEF Handles

\* A deposit that the monitor leaves has its position, or was lost.
LEMMA LeftPlaced ==
  ASSUME TypeOK, ControlFits, LossesAccounted, DepositsAccounted, Grows,
         Handles(Monitor), NEW d \in Index, chain[d].kind \in Deposits, Job(Monitor) = d,
         todo'[Monitor] # todo[Monitor]
  PROVE  Placed(d)' \/ DepositLost(d)' \/ Placed(d) \/ DepositLost(d)
<1>1. /\ chain \in Chains /\ StoreOK /\ Working(Monitor) /\ FitsJob(Monitor) /\ mode[Monitor] = "none"
      /\ Alone(Monitor) /\ chain' = chain /\ docs \subseteq Index
  BY AllTypes, TwoWorkers DEF Handles, ControlFits, Alone, StoreOK
<1>2. chain[d].kind \notin StatusEvents \cup Mints \cup {"BuyoutScheduled", "VaultRolledOver"}
  BY DEF Deposits, StatusEvents, Mints
<1>3. CASE Searched(Monitor) \/ Entered(Monitor) \/ Listed(Monitor) \/ Created(Monitor)
           \/ Tallied(Monitor)
  <2>1. at[Monitor] \in {"lookup", "tally", "weigh", "book"}
    BY <1>2, <1>3 DEF Searched, Entered, Listed, Created, Tallied, Calls, Leaves
  <2> QED
    BY <1>1, <1>2, <2>1 DEF FitsJob, Mints
<1>4. CASE Skipped(Monitor)
  <2>1. Supported(d) /\ at[Monitor] = "check"
    BY <1>2, <1>4 DEF Supported, Skipped, Leaves
  <2>2. PICK m \in docs : Key(m) = Key(d)
    BY <1>4, <2>1 DEF Skipped, Duplicate
  <2>3. /\ m \in Index /\ chain[m].position = chain[d].position
        /\ chain[m].tx = chain[d].tx /\ EventName(chain[m].kind) = EventName(chain[d].kind)
    BY <1>1, <2>2 DEF Key
  <2>4. chain[m].kind \in Deposits
    BY <2>3, NameOfDeposits
  <2>5. HasEffect(m)
    BY <2>4 DEF HasEffect, Acts, Supported, Deposits, StatusEvents
  <2>6. done[m] > 0 \/ Mishaps(m) # {} \/ InEffect(m)
    BY <2>2, <2>5, Documented
  <2>7. CASE done[m] > 0 /\ Place(m) = Place(d)
    BY <2>3, <2>4, <2>7 DEF DepositsAccounted, Placed
  <2>8. CASE Mishaps(m) # {}
    <3>1. m # d => Twin(d, m)
      BY <2>3 DEF Twin
    <3> QED
      BY <2>2, <2>8, <3>1 DEF DepositLost
  <2>9. CASE InEffect(m)
    <3>1. PICK v \in Worker : Working(v) /\ Job(v) = m /\ at[v] = "apply"
      BY <2>9 DEF InEffect
    <3>2. v \in Rivals(Monitor) /\ at[v] = "apply"
      BY <2>1, <2>2, <3>1 DEF Rivals
    <3>3. "overtaken" \in excuse'[d]
      BY <1>4, <2>1, <3>2 DEF Skipped
    <3> QED
      BY <3>3 DEF DepositLost, Races
  <2>10. CASE Place(m) # Place(d)
    BY <2>2, <2>3, <2>10 DEF DepositLost, Twin
  <2> QED
    BY <2>6, <2>7, <2>8, <2>9, <2>10
<1>5. ASSUME "refused" \in excuse'[d]
      PROVE  DepositLost(d)'
  BY <1>5 DEF DepositLost, Mishaps
<1>6. CASE Failed(Monitor)
  BY <1>5, <1>6 DEF Failed
<1>7. CASE Applied(Monitor)
  <2>1. Effect(d, list[Monitor])
    BY <1>2, <1>7 DEF Applied, Mints
  <2>2. position'[Place(d)] # "none"
    BY <1>1, <2>1, EffectMeans
  <2> QED
    BY <1>1, <2>2 DEF Placed, Place
<1> QED
  BY <1>3, <1>4, <1>6, <1>7 DEF Handles

\* A document is that of a log which has been applied, or is about to be.
LEMMA DocumentsStep ==
  ASSUME TypeOK, ControlFits, LossesAccounted, [Next]_vars, NEW i \in docs'
  PROVE  /\ i \in Index /\ chain[i].kind \notin Mints
         /\ HasEffect(i)' => done'[i] > 0 \/ Mishaps(i)' # {} \/ InEffect(i)'
<1>1. TypeOK' /\ Grows
  BY NextMeans
<1>2. /\ chain \in Chains /\ StoreOK /\ docs \subseteq Index /\ i \in Index /\ chain' = chain
      /\ \A j \in Index : done[j] \in Nat /\ done'[j] \in Nat
  BY <1>1, AllTypes, AllTypesNext DEF StoreOK, Grows, Index
<1>3. CASE i \in docs
  <2>1. /\ chain[i].kind \notin Mints
        /\ HasEffect(i)' => done[i] > 0 \/ Mishaps(i) # {} \/ InEffect(i)
    BY <1>1, <1>2, <1>3, AccountStays, Documented
  <2> QED
    BY <1>1, <1>2, <2>1, AccountStays, InEffectStep
<1>4. CASE i \notin docs
  <2>1. ~(docs' = docs)
    BY <1>4
  <2>2. PICK w \in Worker : Handles(w)
    <3>1. UNCHANGED store => docs' = docs
      BY DEF store
    <3>2. ~(Starts \/ (\E e, added : Batches(e, added)) \/ Saves \/ GoesBack
            \/ (\E m, s : Serves(m, s)) \/ Ends)
      BY <2>1, <3>1 DEF Starts, Batches, Saves, GoesBack, Serves, Ends
    <3>3. ~\E j : Replays(j)
      BY <2>1 DEF Replays, Effect
    <3> QED
      BY <3>2, <3>3, NextMeans
  <2>3. Job(w) = i /\ Working(w) /\ FitsJob(w)
    BY <1>4, <2>2 DEF Handles, ControlFits
  <2>4. at[w] = "create" /\ (Created(w) \/ Failed(w))
    BY <2>1, <2>2 DEF Handles, Searched, Skipped, Entered, Listed, Created, Failed, Applied, Tallied,
       Kept, Effect, Leaves, Calls
  <2>5. chain[i].kind \notin Mints /\ (chain[i].kind = "BuyoutScheduled" => done[i] > 0)
    BY <2>3, <2>4 DEF FitsJob
  <2>6. CASE Failed(w)
    <3>1. "refused" \in excuse'[i]
      BY <2>3, <2>6 DEF Failed
    <3> QED
      BY <1>2, <2>5, <3>1 DEF Mishaps
  <2>7. CASE Created(w)
    <3>1. CASE chain[i].kind = "BuyoutScheduled"
      BY <1>1, <1>2, <2>5, <3>1, AccountStays
    <3>2. CASE chain[i].kind \in StatusEvents /\ ~ComputeLabs(i)
      <4>1. ~HasEffect(i)
        BY <3>2 DEF HasEffect, Acts
      <4> QED
        BY <1>1, <1>2, <2>5, <4>1, AccountStays
    <3>3. CASE Calls(w, "create", "apply")
      <4>1. Working(w)' /\ Job(w)' = i /\ at'[w] = "apply"
        BY <2>3, <3>3 DEF Calls, Working, Job
      <4>2. InEffect(i)'
        BY <4>1 DEF InEffect
      <4> QED
        BY <1>2, <2>5, <4>2
    <3> QED
      BY <2>3, <2>7, <3>1, <3>2, <3>3 DEF Created
  <2> QED
    BY <2>4, <2>6, <2>7
<1> QED
  BY <1>3, <1>4

LEMMA LossesInit == Init => LossesAccounted /\ DepositsAccounted
<1> SUFFICES ASSUME Init
             PROVE  LossesAccounted /\ DepositsAccounted
  OBVIOUS
<1>1. chain \in Chains /\ next = 1 /\ upto = 0 /\ synced = NoState /\ docs = {} /\ \A i \in Index : done[i] = 0
  BY DEF Init, HandlersInit
<1>2. \A w \in Worker : ~Working(w)
  BY DEF Init, HandlersInit, Working
<1>3. ASSUME NEW i \in Index
      PROVE  ~Reached(i)
  <2>1. chain[i].tx \in Nat \ {0}
    BY <1>1, TheChain
  <2> QED
    BY <1>1, <2>1 DEF Reached, NoState
<1>4. \A i \in Index : ~Tallying(i)
  BY <1>2, TwoWorkers DEF Tallying
<1> QED
  BY <1>1, <1>3, <1>4 DEF LossesAccounted, DepositsAccounted

LEMMA LossesStep ==
  ASSUME TypeOK, ControlFits, MonitorInOrder, LossesAccounted, DepositsAccounted, [Next]_vars
  PROVE  LossesAccounted'
<1>1. TypeOK' /\ Grows
  BY NextMeans
<1>2. chain \in Chains /\ WorkersOK /\ StoreOK /\ chain' = chain /\ Index' = Index
  BY <1>1, AllTypes DEF Grows, Index
<1>3. ASSUME NEW i \in Index, HasEffect(i)', Reached(i)'
      PROVE  Accounted(i)' \/ (chain[i].kind \notin Mints /\ InEffect(i)') \/ Awaited(i)'
  <2>1. HasEffect(i)
    BY <1>1, <1>3, AccountStays
  <2>2. Mishaps(i)' # {} \/ done'[i] > 0 => Accounted(i)'
    BY DEF Accounted
  <2>3. CASE ~Reached(i)
    BY <1>3, <2>2, <2>3, ReachedStep
  <2>4. CASE Reached(i)
    <3>1. Accounted(i) \/ (chain[i].kind \notin Mints /\ InEffect(i)) \/ Awaited(i)
      BY <2>1, <2>4 DEF LossesAccounted
    <3>2. CASE Accounted(i)
      BY <1>1, <3>2, AccountStays
    <3>3. CASE chain[i].kind \notin Mints /\ InEffect(i)
      BY <2>2, <3>3, InEffectStep
    <3>4. CASE Awaited(i) /\ ~Awaited(i)'
      <4>1. Handles(Monitor) /\ Job(Monitor) = i /\ todo'[Monitor] # todo[Monitor]
        BY <1>3, <3>4, AwaitedStep
      <4> QED
        BY <1>1, <2>1, <2>4, <4>1, LeftAccounted
    <3> QED
      BY <3>1, <3>2, <3>3, <3>4
  <2> QED
    BY <2>3, <2>4
<1>4. ASSUME NEW i \in Index, Tallying(i)', HasEffect(i)'
      PROVE  Accounted(i)'
  <2>1. /\ Working(Monitor)' /\ Job(Monitor)' = i
        /\ at'[Monitor] \in {"tally", "weigh", "fund", "book"}
    BY <1>4 DEF Tallying
  <2>2. HasEffect(i)
    BY <1>1, <1>4, AccountStays
  <2>3. CASE Tallying(i)
    <3>1. Accounted(i)
      BY <2>2, <2>3 DEF LossesAccounted
    <3> QED
      BY <1>1, <3>1, AccountStays
  <2>4. ASSUME NEW j \in Index, at'[Monitor] = FirstCall(j)
        PROVE  FALSE
    <3>1. FirstCall(j) \in {"apply", "create", "check"}
      BY <1>2, TheChain, FirstCalls
    <3> QED
      BY <2>1, <2>4, <3>1
  <2>5. CASE \E e, added : Batches(e, added)
    <3> DEFINE s == todo'[Monitor]
    <3>1. s \in Seq(Index) /\ s # << >> /\ at'[Monitor] = Ready("none", s) /\ "none" \in Mode
      BY <2>1, <2>5 DEF Batches, Working, Mode
    <3> HIDE DEF s
    <3>2. Head(s) \in Index /\ Ready("none", s) = FirstCall(Head(s))
      BY <1>2, <3>1, TailLogs, ReadyType
    <3> QED
      BY <2>4, <3>1, <3>2
  <2>6. CASE Handles(Monitor) /\ ~Tallying(i)
    <3>1. ASSUME NEW from, Leaves(Monitor, from)
          PROVE  FALSE
      <4>1. Job(Monitor)' \in Index /\ at'[Monitor] \in {FirstCall(Job(Monitor)'), "lookup"}
        BY <1>2, <2>1, <2>6, <3>1, LeavesMeans, TwoWorkers DEF Handles
      <4> QED
        BY <2>1, <2>4, <4>1
    <3>2. ASSUME NEW from, NEW to, Calls(Monitor, from, to)
          PROVE  Job(Monitor) = i /\ to = at'[Monitor] /\ from \notin {"tally", "weigh", "fund", "book"}
      BY <2>1, <2>6, <3>2 DEF Calls, Job, Tallying, Handles
    <3>3. /\ FirstCall(i) \notin {"tally", "weigh", "fund", "book"}
          /\ AfterCheck(i) \notin {"tally", "weigh", "fund", "book"}
      BY <1>2, TheChain, FirstCalls
    <3>4. ~Tallied(Monitor)
      BY <3>1, <3>2 DEF Tallied
    <3>5. Applied(Monitor) /\ Job(Monitor) = i
      BY <2>1, <2>6, <3>1, <3>2, <3>3, <3>4
         DEF Handles, Searched, Skipped, Entered, Listed, Created, Failed, Applied
    <3>6. /\ chain[i].kind = "CLGPUTokensTransferred"
          /\ Effect(i, list[Monitor]) \/ "refused" \in excuse'[i]
      BY <2>1, <3>1, <3>2, <3>5 DEF Applied
    <3>7. CASE "refused" \in excuse'[i]
      BY <3>7 DEF Accounted, Mishaps
    <3>8. CASE Effect(i, list[Monitor])
      <4>1. chain[i].kind \in Mints /\ Working(Monitor)
        BY <2>6, <3>6 DEF Mints, Handles
      <4>2. i \in Logs(todo[Monitor])
        BY <1>2, <3>5, <4>1, TheJob, TwoWorkers
      <4>3. Reached(i)
        <5>1. chain[i].tx \in next..upto
          BY <4>2 DEF ControlFits
        <5> QED
          BY <5>1 DEF Reached
      <4> QED
        BY <1>1, <2>2, <3>5, <3>8, <4>1, <4>3, MintAccounted
    <3> QED
      BY <3>6, <3>7, <3>8
  <2>7. CASE todo'[Monitor] = todo[Monitor] /\ at'[Monitor] = at[Monitor]
    <3>1. Tallying(i)
      BY <2>1, <2>7 DEF Tallying, Working, Job
    <3> QED
      BY <2>3, <3>1
  <2>8. \/ todo'[Monitor] = todo[Monitor] /\ at'[Monitor] = at[Monitor]
        \/ \E e, added : Batches(e, added)
        \/ Handles(Monitor)
    <3>1. ~Ends
      BY <2>1, TwoWorkers DEF Ends
    <3>2. UNCHANGED workers => todo'[Monitor] = todo[Monitor] /\ at'[Monitor] = at[Monitor]
      BY DEF workers
    <3>3. ASSUME NEW w \in Worker, Handles(w), w # Monitor
          PROVE  todo'[Monitor] = todo[Monitor] /\ at'[Monitor] = at[Monitor]
      BY <3>3, TwoWorkers DEF Handles, Alone
    <3> QED
      BY <3>1, <3>2, <3>3, NextMeans DEF Starts, Saves, GoesBack, Serves, Replays
  <2> QED
    BY <2>3, <2>5, <2>6, <2>7, <2>8
<1>5. \A i \in docs' : /\ chain'[i].kind \notin Mints
                       /\ HasEffect(i)' => done'[i] > 0 \/ Mishaps(i)' # {} \/ InEffect(i)'
  BY <1>2, DocumentsStep
<1> QED
  BY <1>2, <1>3, <1>4, <1>5 DEF LossesAccounted

LEMMA DepositsStep ==
  ASSUME TypeOK, ControlFits, LossesAccounted, DepositsAccounted, [Next]_vars
  PROVE  DepositsAccounted'
<1>1. TypeOK' /\ Grows
  BY NextMeans
<1>2. chain \in Chains /\ StoreOK /\ chain' = chain /\ Index' = Index
  BY <1>1, AllTypes DEF Grows, Index
<1> SUFFICES ASSUME NEW d \in Index, chain[d].kind \in Deposits
             PROVE  /\ done'[d] > 0 => Placed(d)'
                    /\ Reached(d)' => Placed(d)' \/ DepositLost(d)' \/ Awaited(d)'
  BY <1>2 DEF DepositsAccounted
<1>3. Place(d) \in Holding /\ Place(d)' = Place(d)
  BY <1>2, TheChain DEF Place
<1>4. Placed(d) => Placed(d)'
  BY <1>2, <1>1, <1>3 DEF Placed, Grows
<1>5. ASSUME done'[d] > 0
      PROVE  Placed(d)'
  <2>1. CASE done'[d] = done[d]
    <3>1. Placed(d)
      BY <1>5, <2>1 DEF DepositsAccounted
    <3> QED
      BY <1>4, <3>1
  <2>2. CASE \E listed : Effect(d, listed)
    <3>1. PICK listed : Effect(d, listed)
      BY <2>2
    <3>2. position'[Place(d)] # "none"
      BY <1>2, <3>1, EffectMeans
    <3> QED
      BY <1>3, <3>2 DEF Placed
  <2>3. done'[d] = done[d] \/ \E listed : Effect(d, listed)
    <3>1. UNCHANGED store => done'[d] = done[d]
      BY DEF store
    <3>2. ASSUME NEW w \in Worker, Handles(w)
          PROVE  done'[d] = done[d] \/ \E listed : Effect(d, listed)
      <4>1. CASE Job(w) # d
        BY <3>2, <4>1 DEF Handles
      <4>2. CASE Job(w) = d
        BY <3>2, <4>2 DEF Handles, Searched, Skipped, Entered, Listed, Created, Failed, Applied,
           Tallied, Kept
      <4> QED
        BY <4>1, <4>2
    <3>3. ASSUME NEW j, Replays(j)
          PROVE  done'[d] = done[d] \/ \E listed : Effect(d, listed)
      BY <1>2, <3>3, EffectMeans DEF Replays
    <3> QED
      BY <3>1, <3>2, <3>3, NextMeans DEF Starts, Batches, Saves, GoesBack, Serves, Ends
  <2> QED
    BY <2>1, <2>2, <2>3
<1>6. ASSUME Reached(d)'
      PROVE  Placed(d)' \/ DepositLost(d)' \/ Awaited(d)'
  <2>1. DepositLost(d) => DepositLost(d)'
    BY <1>1, AccountStays
  <2>2. CASE ~Reached(d)
    <3>1. Awaited(d)' \/ Mishaps(d)' # {}
      BY <1>6, <2>2, ReachedStep
    <3>2. Mishaps(d)' # {} => DepositLost(d)'
      BY DEF DepositLost
    <3> QED
      BY <3>1, <3>2
  <2>3. CASE Reached(d)
    <3>1. Placed(d) \/ DepositLost(d) \/ Awaited(d)
      BY <2>3 DEF DepositsAccounted
    <3>2. CASE Awaited(d) /\ ~Awaited(d)'
      <4>1. Handles(Monitor) /\ Job(Monitor) = d /\ todo'[Monitor] # todo[Monitor]
        BY <1>6, <3>2, AwaitedStep
      <4> QED
        BY <1>1, <1>4, <2>1, <4>1, LeftPlaced
    <3> QED
      BY <1>4, <2>1, <3>1, <3>2
  <2> QED
    BY <2>2, <2>3
<1> QED
  BY <1>5, <1>6

-----------------------------------------------------------------------------
(* The status of a vault.                                                  *)

LEMMA FollowedStays ==
  ASSUME TypeOK, Grows, NEW i \in Index, Followed(i), status' = status
  PROVE  Followed(i)'
<1>1. /\ status \in Index \cup {0} /\ excuse[i] \subseteq excuse'[i]
      /\ status # 0 => excuse[status] \subseteq excuse'[status]
  BY AllTypes DEF StoreOK, Grows
<1> QED
  BY <1>1 DEF Followed, Mishaps

\* A step of a handler leaves the status alone, or sets it from its log.
LEMMA StatusSet ==
  ASSUME TypeOK, NEW w \in Worker, Handles(w)
  PROVE  \/ status' = status
         \/ status' = Job(w) /\ chain[Job(w)].kind \in StatusEvents
<1>1. chain \in Chains /\ StoreOK /\ Job(w) \in Index
  BY AllTypes DEF Handles
<1>2. status' = status \/ Effect(Job(w), list[w])
  BY DEF Handles, Searched, Skipped, Entered, Listed, Created, Failed, Applied, Tallied, Kept
<1> QED
  BY <1>1, <1>2, EffectMeans

\* The monitor leaves a log that concerns the status with the status set from
\* it, or something has gone wrong with it.
LEMMA LeftFollowed ==
  ASSUME TypeOK, ControlFits, Handles(Monitor), todo'[Monitor] # todo[Monitor],
         NEW i \in StatusLogs(Index), Job(Monitor) = i
  PROVE  status' = i \/ Mishaps(i)' # {}
<1>1. /\ chain \in Chains /\ StoreOK /\ Working(Monitor) /\ FitsJob(Monitor) /\ mode[Monitor] = "none"
      /\ i \in Index /\ chain[i].kind \in StatusEvents /\ ComputeLabs(i)
  BY AllTypes, TwoWorkers DEF Handles, ControlFits, StatusLogs
<1>2. chain[i].kind \notin {"BuyoutScheduled", "CLGPUTokensTransferred"}
  BY <1>1 DEF StatusEvents
<1>3. CASE Searched(Monitor) \/ Skipped(Monitor) \/ Entered(Monitor) \/ Listed(Monitor)
           \/ Created(Monitor) \/ Tallied(Monitor)
  <2>1. at[Monitor] \in {"lookup", "check", "tally", "weigh", "book"}
    BY <1>1, <1>2, <1>3 DEF Searched, Skipped, Entered, Listed, Created, Tallied, Calls, Leaves
  <2> QED
    BY <1>1, <1>2, <2>1 DEF FitsJob
<1>4. CASE Failed(Monitor)
  BY <1>4 DEF Failed, Mishaps
<1>5. CASE Applied(Monitor)
  <2>1. Effect(i, list[Monitor])
    BY <1>2, <1>5 DEF Applied
  <2> QED
    BY <1>1, <2>1, EffectMeans
<1> QED
  BY <1>3, <1>4, <1>5 DEF Handles

\* A log of an earlier block is earlier in the chain.
LEMMA EarlierBlock ==
  ASSUME chain \in Chains, NEW i \in Index, NEW k \in Index, chain[i].tx < chain[k].tx
  PROVE  i < k
<1>1. i \in Nat /\ k \in Nat /\ chain[i].tx \in Nat /\ chain[k].tx \in Nat
  BY TheChain
<1>2. ~(k < i) /\ k # i
  <2>1. k < i => chain[k].tx <= chain[i].tx
    BY TheChain
  <2> QED
    BY <1>1, <2>1
<1> QED
  BY <1>1, <1>2

LEMMA StatusInit == Init => StatusFollows
<1> SUFFICES ASSUME Init, NEW i \in Index
             PROVE  ~(chain[i].tx <= Front) /\ ~HandledInBatch(i)
  BY DEF StatusFollows, StatusLogs
<1>1. chain \in Chains /\ next = 1 /\ upto = 0 /\ synced = NoState /\ client = "none"
  BY DEF Init, HandlersInit
<1>2. chain[i].tx \in Nat \ {0}
  BY <1>1, TheChain
<1> QED
  BY <1>1, <1>2 DEF Front, HandledInBatch, NoState

\* When a handler takes a step.
LEMMA StatusHandled ==
  ASSUME TypeOK, ControlFits, MonitorInOrder, StatusFollows, Grows, NEW w \in Worker, Handles(w),
         NEW i \in StatusLogs(Index)
  PROVE  /\ chain[i].tx <= Front' \/ HandledInBatch(i)' => Followed(i)'
         /\ \A k \in Logs(todo'[Monitor]) :
              (HandledInBatch(i)' /\ chain[k].kind \notin Deposits /\ "appended" \notin excuse'[k]) =>
                i < k \/ Mishaps(i)' # {}
<1>1. /\ chain \in Chains /\ StoreOK /\ WorkersOK /\ UNCHANGED chain /\ Index' = Index
      /\ i \in Index /\ chain[i].kind \in StatusEvents
      /\ next \in Nat /\ upto \in Nat /\ chain[i].tx \in Nat
      /\ \A j \in Index : excuse[j] \subseteq excuse'[j]
      /\ UNCHANGED <<client, next, upto, synced>> /\ Working(w) /\ Job(w) \in Index
  BY AllTypes, TheChain DEF StatusLogs, Grows, Index, ListenerOK, Handles
<1>2. Mishaps(i) # {} => Mishaps(i)' # {}
  BY <1>1 DEF Mishaps
<1>3. CASE HandledInBatch(i) \/ ~HandledInBatch(i)'
  <2>1. Logs(todo'[Monitor]) \subseteq Logs(todo[Monitor])
    <3>1. CASE todo'[Monitor] = todo[Monitor]
      BY <3>1
    <3>2. CASE w = Monitor /\ \E from : Leaves(w, from)
      BY <1>1, <3>2, LeavesMeans
    <3>3. w = Monitor \/ todo'[Monitor] = todo[Monitor]
      BY TwoWorkers DEF Handles, Alone
    <3>4. todo'[w] = todo[w] \/ \E from : Leaves(w, from)
      BY DEF Handles, Searched, Skipped, Entered, Listed, Created, Failed, Applied, Tallied, Calls
    <3> QED
      BY <3>1, <3>2, <3>3, <3>4
  <2>2. ASSUME NEW k \in Logs(todo'[Monitor]), HandledInBatch(i)', chain[k].kind \notin Deposits,
               "appended" \notin excuse'[k]
        PROVE  i < k \/ Mishaps(i)' # {}
    <3>1. k \in Logs(todo[Monitor]) /\ todo[Monitor] \in Seq(Index)
      BY <1>1, <2>1, <2>2, TwoWorkers DEF WorkersOK
    <3>2. k \in Index
      BY <3>1 DEF Logs
    <3>3. "appended" \notin excuse[k]
      BY <1>1, <2>2, <3>2
    <3> QED
      BY <1>2, <1>3, <2>2, <3>1, <3>3 DEF StatusFollows
  <2>3. ASSUME chain[i].tx <= Front' \/ HandledInBatch(i)'
        PROVE  Followed(i)'
    <3>1. chain[i].tx <= Front \/ HandledInBatch(i)
      BY <1>1, <1>3, <2>3 DEF Front
    <3>2. Followed(i)
      BY <3>1 DEF StatusFollows
    <3>3. CASE status' = status
      BY <1>1, <3>2, <3>3, FollowedStays
    <3>4. CASE status' = Job(w) /\ chain[Job(w)].kind \in StatusEvents
      <4> DEFINE k == Job(w)
      <4>1. k \in Index /\ k # 0 /\ status' = k /\ chain[k].kind \in StatusEvents /\ k \in Logs(todo[w])
        BY <1>1, <3>4, TheChain, TheJob
      <4> HIDE DEF k
      <4>2. ASSUME excuse[k] \cap {"triggered", "appended"} # {}
            PROVE  Followed(i)'
        BY <1>1, <4>1, <4>2 DEF Followed
      <4>3. CASE w = Trigger
        BY <4>1, <4>2, <4>3 DEF ControlFits
      <4>4. CASE w = Monitor
        <5>1. client = "open" /\ chain[k].tx \in next..upto
          BY <1>1, <4>1, <4>4 DEF ControlFits
        <5>2. CASE chain[i].tx <= Front
          <6>1. chain[i].tx < chain[k].tx
            <7>1. /\ chain[i].tx \in Nat /\ chain[k].tx \in Nat
                  /\ next \in Nat /\ upto \in Nat
              BY <1>1, <4>1, TheChain DEF ListenerOK
            <7> QED
              BY <5>1, <5>2, <7>1 DEF Front
          <6>2. i < k
            BY <1>1, <4>1, <6>1, EarlierBlock
          <6>3. status' >= i
            BY <1>1, <4>1, <6>2, TheChain
          <6> QED
            BY <6>3 DEF Followed
        <5>3. CASE HandledInBatch(i) /\ "appended" \notin excuse[k]
          <6>1. chain[k].kind \notin Deposits
            BY <4>1 DEF StatusEvents, Deposits
          <6>2. i < k \/ Mishaps(i) # {}
            BY <4>1, <4>4, <5>3, <6>1 DEF StatusFollows
          <6>3. i < k => status' >= i
            BY <1>1, <4>1, TheChain
          <6> QED
            BY <1>2, <6>2, <6>3 DEF Followed
        <5> QED
          BY <3>1, <4>2, <5>2, <5>3
      <4> QED
        BY <4>3, <4>4, TwoWorkers
    <3> QED
      BY <3>3, <3>4, StatusSet
  <2> QED
    BY <2>2, <2>3
<1>4. CASE ~HandledInBatch(i) /\ HandledInBatch(i)'
  <2>1. i \in Logs(todo[Monitor]) /\ i \notin Logs(todo'[Monitor])
    BY <1>1, <1>4 DEF HandledInBatch, Logs
  <2>2. w = Monitor /\ todo'[Monitor] # todo[Monitor]
    BY <2>1, TwoWorkers DEF Handles, Alone
  <2>3. PICK from : Leaves(Monitor, from)
    BY <2>2 DEF Handles, Searched, Skipped, Entered, Listed, Created, Failed, Applied, Tallied, Calls
  <2>4. Job(Monitor) = i
    BY <1>1, <2>1, <2>2, <2>3, LeavesMeans
  <2>5. status' = i \/ Mishaps(i)' # {}
    BY <2>2, <2>4, LeftFollowed
  <2>6. Followed(i)'
    <3>1. i >= i
      BY <1>1, TheChain
    <3> QED
      BY <2>5, <3>1 DEF Followed
  <2>7. ASSUME NEW k \in Logs(todo'[Monitor]), "appended" \notin excuse'[k]
        PROVE  i < k
    <3>1. todo[Monitor] \in Seq(Index) /\ todo[Monitor] # << >> /\ todo'[Monitor] = Tail(todo[Monitor])
      BY <1>1, <2>2, <2>3, TwoWorkers DEF WorkersOK, Working, Leaves
    <3>2. <<i, k>> \in PassOrder(Appended)
      BY <2>4, <2>7, <3>1, OrderKept, TailLogs DEF Job
    <3>3. k \in Index /\ k \notin Appended
      BY <1>1, <2>7, <3>2 DEF PassOrder, Appended
    <3>4. chain[i].kind \notin Deposits
      BY <1>1 DEF StatusEvents, Deposits
    <3> QED
      BY <3>2, <3>3, <3>4 DEF PassOrder
  <2> QED
    BY <2>6, <2>7
<1> QED
  BY <1>3, <1>4

LEMMA StatusStep ==
  ASSUME TypeOK, ControlFits, MonitorInOrder, StatusFollows, [Next]_vars
  PROVE  StatusFollows'
<1>1. TypeOK' /\ Grows
  BY NextMeans
<1>2. /\ chain \in Chains /\ StoreOK /\ chain' = chain /\ Index' = Index
      /\ next \in Nat /\ upto \in Nat /\ synced \in Int
      /\ next' \in Nat /\ next' >= 1 /\ upto' \in Nat /\ synced' \in Int
      /\ \A j \in Index : chain[j].tx \in Nat /\ chain[j].tx >= 1 /\ excuse[j] \subseteq excuse'[j]
  <2>1. Height \in Nat /\ Height' \in Nat
    BY <1>1, AllTypes, TheHeight DEF Grows, Height
  <2> QED
    BY <1>1, <2>1, AllTypes, AllTypesNext, TheChain DEF Grows, Index, ListenerOK, NoState
<1>3. StatusLogs(Index)' = StatusLogs(Index) /\ StatusLogs(Index) \subseteq Index
  BY <1>2 DEF StatusLogs, ComputeLabs
<1> SUFFICES ASSUME NEW i \in StatusLogs(Index)
             PROVE  /\ chain[i].tx <= Front' \/ HandledInBatch(i)' => Followed(i)'
                    /\ \A k \in Logs(todo'[Monitor]) :
                         (HandledInBatch(i)' /\ chain[k].kind \notin Deposits /\ "appended" \notin excuse'[k])
                           => i < k \/ Mishaps(i)' # {}
  BY <1>2, <1>3 DEF StatusFollows, Logs
<1> DEFINE InLine == \A k \in Logs(todo'[Monitor]) :
                       (HandledInBatch(i)' /\ chain[k].kind \notin Deposits /\ "appended" \notin excuse'[k])
                         => i < k \/ Mishaps(i)' # {}
<1>4. i \in Index /\ (Mishaps(i) # {} => Mishaps(i)' # {})
  BY <1>2, <1>3 DEF Mishaps
<1>5. ASSUME status' = status, chain[i].tx <= Front \/ HandledInBatch(i)
      PROVE  Followed(i)'
  <2>1. Followed(i)
    BY <1>5 DEF StatusFollows
  <2> QED
    BY <1>1, <1>4, <1>5, <2>1, FollowedStays
<1>6. ASSUME upto' < next'
      PROVE  ~HandledInBatch(i)' /\ InLine
  <2>1. ~HandledInBatch(i)'
    BY <1>2, <1>4, <1>6 DEF HandledInBatch
  <2> QED
    BY <2>1
<1>7. UNCHANGED store => status' = status
  BY DEF store
<1>8. CASE \E w \in Worker : Handles(w)
  BY <1>1, <1>8, StatusHandled
\* The same batch at the same place.
<1>9. ASSUME UNCHANGED <<client, next, upto, synced, status>>, todo'[Monitor] = todo[Monitor]
      PROVE  (chain[i].tx <= Front' \/ HandledInBatch(i)' => Followed(i)') /\ InLine
  <2>1. Front' = Front /\ (HandledInBatch(i)' <=> HandledInBatch(i))
    BY <1>2, <1>9 DEF Front, HandledInBatch, Logs
  <2>2. InLine
    <3> SUFFICES ASSUME NEW k \in Logs(todo[Monitor]), HandledInBatch(i), chain[k].kind \notin Deposits,
                        "appended" \notin excuse'[k]
                 PROVE  i < k \/ Mishaps(i)' # {}
      BY <1>9, <2>1
    <3>1. k \in Index
      BY AllTypes, TwoWorkers DEF WorkersOK, Logs
    <3>2. "appended" \notin excuse[k]
      BY <1>2, <3>1
    <3>3. i < k \/ Mishaps(i) # {}
      BY <3>2 DEF StatusFollows
    <3> QED
      BY <1>4, <3>3
  <2> QED
    BY <1>5, <1>9, <2>1, <2>2
<1>10. CASE Starts
  <2>1. UNCHANGED <<workers, upto, status>>
    BY <1>7, <1>10 DEF Starts
  <2>2. CASE UNCHANGED <<client, next, synced>>
    BY <1>9, <2>1, <2>2 DEF workers
  <2>3. CASE ~UNCHANGED <<client, next, synced>>
    <3>1. client = "none" /\ client' \in {"closed", "open"} /\ Front = synced
      BY <1>10, <2>3 DEF Starts, Front
    <3>2. upto' < next'
      BY <1>2, <2>1, <3>1 DEF ControlFits
    <3>3. CASE client' = "closed"
      <4>1. Front' = Front
        BY <1>10, <2>3, <3>1, <3>3 DEF Starts, Front
      <4> QED
        BY <1>5, <1>6, <2>1, <3>2, <4>1
    <3>4. CASE client' = "open"
      <4>1. /\ Front' = next' - 1
            /\ chain[i].tx \in (synced + 1)..(next' - 1) => "skipped" \in excuse'[i]
        BY <1>4, <1>10, <2>3, <3>4 DEF Starts, Front
      <4>2. chain[i].tx <= Front' => chain[i].tx <= Front \/ "skipped" \in excuse'[i]
        BY <1>2, <1>4, <3>1, <4>1
      <4>3. "skipped" \in excuse'[i] => Followed(i)'
        BY DEF Followed, Mishaps
      <4> QED
        BY <1>5, <1>6, <2>1, <3>2, <4>2, <4>3
    <3> QED
      BY <3>1, <3>3, <3>4
  <2> QED
    BY <2>2, <2>3
<1>11. CASE \E e, added : Batches(e, added)
  <2>1. PICK e, added : Batches(e, added)
    BY <1>11
  <2>2. /\ upto' = e /\ UNCHANGED <<client, next, synced, status>>
        /\ \A j \in Batch(e) : j \in Logs(todo'[Monitor]) \/ excuse'[j] \cap {"cut", "unwatched"} # {}
    BY <1>7, <2>1 DEF Batches
  <2>3. Front' = Front
    BY <2>2 DEF Front
  <2>4. HandledInBatch(i)' => Mishaps(i)' # {}
    <3> SUFFICES ASSUME HandledInBatch(i)'
                 PROVE  Mishaps(i)' # {}
      OBVIOUS
    <3>1. i \in Batch(e) /\ i \notin Logs(todo'[Monitor])
      BY <1>2, <1>4, <2>2 DEF HandledInBatch, Batch, Logs
    <3>2. excuse'[i] \cap {"cut", "unwatched"} # {}
      BY <2>2, <3>1
    <3> QED
      BY <3>2 DEF Mishaps
  <2> QED
    BY <1>5, <2>2, <2>3, <2>4 DEF Followed
<1>12. CASE Saves
  <2>1. /\ client = "open" /\ next' = upto + 1 /\ upto >= next /\ ~Working(Monitor)
        /\ UNCHANGED <<client, upto, status>>
    BY <1>7, <1>12 DEF Saves
  <2>2. Front = next - 1 /\ Front' = (upto + 1) - 1
    BY <2>1 DEF Front
  <2>3. chain[i].tx <= Front' => chain[i].tx <= Front \/ HandledInBatch(i)
    BY <1>2, <1>4, <2>1, <2>2 DEF HandledInBatch, Working, Logs
  <2> QED
    BY <1>2, <1>5, <1>6, <2>1, <2>3
<1>13. CASE GoesBack
  <2>1. /\ client = "open" /\ next' \in 1..(next - 1) /\ upto' = 0 /\ UNCHANGED <<client, status>>
    BY <1>7, <1>13 DEF GoesBack
  <2>2. Front = next - 1 /\ Front' = next' - 1
    BY <2>1 DEF Front
  <2>3. chain[i].tx <= Front' => chain[i].tx <= Front
    BY <1>2, <1>4, <2>1, <2>2
  <2> QED
    BY <1>2, <1>5, <1>6, <2>1, <2>3
<1>14. CASE (\E m, s : Serves(m, s))
  BY <1>7, <1>9, <1>14 DEF Serves
<1>15. CASE \E j : Replays(j)
  <2>1. PICK j : Replays(j)
    BY <1>15
  <2>2. /\ j \in Index /\ Effect(j, {}) /\ chain[j].kind \notin StatusEvents
        /\ UNCHANGED <<workers, client, next, upto, synced>>
    BY <2>1 DEF Replays
  <2>3. status' = status
    BY <1>2, <2>2, EffectMeans
  <2> QED
    BY <1>9, <2>2, <2>3 DEF workers
<1>16. CASE Ends
  <2>1. /\ client' = "none" /\ next' = 1 /\ upto' = 0 /\ UNCHANGED <<synced, status>>
        /\ \A j \in Index : Replaying /\ chain[j].tx <= synced => "interrupted" \in excuse'[j]
    BY <1>7, <1>16 DEF Ends
  <2>2. Front' = synced
    BY <2>1 DEF Front
  <2>3. ASSUME chain[i].tx <= synced
        PROVE  Followed(i)'
    <3>1. CASE Replaying
      BY <1>4, <2>1, <2>3, <3>1 DEF Followed
    <3>2. CASE ~Replaying
      <4>1. chain[i].tx <= Front
        BY <1>2, <1>4, <2>3, <3>2 DEF Replaying, Front
      <4> QED
        BY <1>5, <2>1, <4>1
    <3> QED
      BY <3>1, <3>2
  <2> QED
    BY <1>6, <2>1, <2>2, <2>3
<1> QED
  BY <1>8, <1>10, <1>11, <1>12, <1>13, <1>14, <1>15, <1>16, NextMeans

-----------------------------------------------------------------------------
(* History.                                                                *)

LEMMA HistoryInit == Init => HistoryFits
<1> SUFFICES ASSUME Init PROVE HistoryFits
  OBVIOUS
<1>1. \A i \in Index : excuse[i] = {} /\ done[i] = 0
  BY DEF Init, HandlersInit
<1>2. /\ scheduled = {} /\ buyouts = {} /\ \A w \in Worker : buyout[w] = 0
      /\ \A h \in Holding : position[h] = "none"
  BY DEF Init, HandlersInit
<1> QED
  BY <1>1, <1>2 DEF HistoryFits

\* A handler notes a race only if another worker is at the same event.
LEMMA HandleNotes ==
  ASSUME TypeOK, NEW w \in Worker, Handle(w), NEW i \in Index,
         NEW what \in {"raced", "overtaken", "appended", "stored"},
         what \in excuse'[i], what \notin excuse[i]
  PROVE  /\ what \in {"raced", "overtaken"} /\ i = Job(w)
         /\ \E v \in Worker \ {w} : Working(v) /\ Key(Job(v)) = Key(i)
<1>1. ExcuseOK
  BY AllTypes
<1>2. ASSUME NEW that, Note(Job(w), that)
      PROVE  what = that /\ i = Job(w)
  BY <1>1, <1>2 DEF Note, ExcuseOK
<1>3. \/ UNCHANGED excuse
      \/ Note(Job(w), "refused") \/ Note(Job(w), "blind")
      \/ (Note(Job(w), "raced") \/ Note(Job(w), "overtaken")) /\ \E v \in Rivals(w) : TRUE
  BY DEF Handle, Lookup, Check, SkipDuplicate, SkipUnsupported, FoundNothing, FoundError,
     Undecodable, ListPositions, Create, CreateFails, Apply, ApplyFails, Tally, Weigh, TallyFails,
     Fund, FundFails, Book, BookFails
<1>4. (what = "raced" \/ what = "overtaken") /\ i = Job(w) /\ \E v \in Rivals(w) : TRUE
  BY <1>2, <1>3
<1> QED
  BY <1>4 DEF Rivals

\* The other steps note neither races, and bring back only what they may.
LEMMA OtherNotes ==
  ASSUME TypeOK, Next, ~\E w \in Worker : Handle(w), NEW i \in Index
  PROVE  /\ excuse'[i] \cap {"raced", "overtaken"} = excuse[i] \cap {"raced", "overtaken"}
         /\ "appended" \in excuse'[i] => "appended" \in excuse[i] \/ chain[i].kind \in Supplemented
         /\ "stored" \in excuse'[i] => "stored" \in excuse[i] \/ chain[i].kind # "BuyoutScheduled"
<1>1. chain \in Chains /\ ExcuseOK
  BY AllTypes
<1>2. CASE UNCHANGED excuse
  BY <1>2
<1>3. CASE Fetch \/ FetchTruncated
  <2>1. PICK e \in next..Height, cut \in SUBSET Index, added \in SUBSET Index :
          (\A j \in added : chain[j].kind \in Supplemented) /\ Fetched(e, cut, added)
    BY <1>1, <1>3, FetchShape
  <2>2. /\ excuse'[i] \subseteq excuse[i] \cup {"unwatched", "cut", "hoisted"} \cup
                                (IF i \in added THEN {"appended"} ELSE {})
        /\ excuse[i] \subseteq excuse'[i]
    BY <2>1 DEF Fetched
  <2> QED
    BY <2>1, <2>2
<1>4. CASE ManualTrigger
  <2>1. CASE \E m \in Mode : \E s \in Seq(Index) : Requested(m, s)
    <3>1. excuse'[i] \subseteq excuse[i] \cup {"triggered"} /\ excuse[i] \subseteq excuse'[i]
      BY <2>1 DEF Requested
    <3> QED
      BY <3>1
  <2>2. CASE \E j \in docs : StoredEvent(j)
    <3>1. PICK j \in docs : StoredEvent(j)
      BY <2>2
    <3>2. chain[j].kind # "BuyoutScheduled"
      BY <3>1 DEF StoredEvent, EventName, Deposits, Redemptions
    <3>3. excuse'[i] = excuse[i] \/ (i = j /\ excuse'[i] = excuse[i] \cup {"stored"})
      BY <1>1, <3>1 DEF StoredEvent, Note, ExcuseOK
    <3> QED
      BY <3>2, <3>3
  <2> QED
    BY <1>1, <1>4, <2>1, <2>2, TriggerShape
<1>5. CASE Die
  <2>1. excuse'[i] \subseteq excuse[i] \cup {"died", "interrupted"} /\ excuse[i] \subseteq excuse'[i]
    BY <1>5 DEF Die
  <2> QED
    BY <2>1
<1>6. CASE Start
  <2>1. excuse'[i] \in {excuse[i], excuse[i] \cup {"skipped"}}
    BY <1>6, StartShape
  <2> QED
    BY <2>1
<1> QED
  BY <1>2, <1>3, <1>4, <1>5, <1>6 DEF Next, Save, StepBack

\* Only a buyout that is scheduled enters the sums, its schedule with its document.
LEMMA SumsGrow ==
  ASSUME TypeOK, [Next]_vars
  PROVE  /\ \A b \in scheduled' \ scheduled : chain[b].kind = "BuyoutScheduled" /\ b \in docs'
         /\ \A b \in buyouts' \ buyouts : chain[b].kind = "BuyoutScheduled"
<1>1. ASSUME UNCHANGED sums
      PROVE  scheduled' = scheduled /\ buyouts' = buyouts
  BY <1>1 DEF sums
<1>2. ASSUME NEW i, NEW listed, Effect(i, listed)
      PROVE  /\ scheduled' \subseteq scheduled
             /\ \A b \in buyouts' \ buyouts : b = i /\ chain[i].kind = "BuyoutScheduled"
  BY <1>2 DEF Effect
<1>3. CASE \E w \in Worker : Handles(w)
  <2>1. PICK w \in Worker : Handles(w)
    BY <1>3
  <2>2. CASE at[w] = "create" /\ chain[Job(w)].kind = "BuyoutScheduled"
    <3>1. /\ buyouts' = buyouts
          /\ scheduled' = scheduled \/ (Job(w) \in docs' /\ scheduled' = scheduled \cup {Job(w)})
      BY <2>1, <2>2 DEF Handles, Funds
    <3> QED
      BY <2>2, <3>1
  <2>3. CASE at[w] = "apply"
    <3>1. UNCHANGED sums \/ Effect(Job(w), list[w])
      BY <2>1, <2>3 DEF Handles, Funds
    <3> QED
      BY <1>1, <1>2, <3>1
  <2>4. CASE at[w] \in {"fund", "book"}
    <3>1. UNCHANGED sums \/ Funded(w) \/ Booked(w)
      BY <2>1, <2>4 DEF Handles, Funds
    <3>2. scheduled' = scheduled /\ buyouts' = buyouts
      BY <1>1, <3>1 DEF Funded, Booked
    <3> QED
      BY <3>2
  <2>5. CASE /\ at[w] \notin {"apply", "fund", "book"}
             /\ ~(at[w] = "create" /\ chain[Job(w)].kind = "BuyoutScheduled")
    <3>1. UNCHANGED sums
      BY <2>1, <2>5 DEF Handles, Funds
    <3> QED
      BY <1>1, <3>1
  <2> QED
    BY <2>2, <2>3, <2>4, <2>5
<1>4. CASE \E i : Replays(i)
  BY <1>2, <1>4 DEF Replays
<1>5. CASE UNCHANGED store
  BY <1>1, <1>5 DEF store
<1> QED
  BY <1>3, <1>4, <1>5, NextMeans DEF Starts, Batches, Saves, GoesBack, Serves, Ends

\* Positions and their dates come from effects only.
LEMMA ByEffects ==
  ASSUME TypeOK, [Next]_vars
  PROVE  UNCHANGED <<position, depositTime>> \/ \E i \in Index : \E listed : Effect(i, listed)
<1>1. CASE \E w \in Worker : Handles(w)
  <2>1. PICK w \in Worker : Handles(w)
    BY <1>1
  <2>2. Effect(Job(w), list[w]) \/ UNCHANGED <<position, depositTime>>
    BY <2>1 DEF Handles, Searched, Skipped, Entered, Listed, Created, Failed, Applied, Tallied, Kept
  <2> QED
    BY <2>1, <2>2 DEF Handles
<1>2. CASE \E i : Replays(i)
  BY <1>2 DEF Replays
<1>3. CASE UNCHANGED store
  BY <1>3 DEF store, holdings
<1> QED
  BY <1>1, <1>2, <1>3, NextMeans DEF Starts, Batches, Saves, GoesBack, Serves, Ends

LEMMA EffectDates ==
  ASSUME chain \in Chains, StoreOK, NEW i \in Index, NEW listed, Effect(i, listed),
         NEW h \in Holding, position'[h] # "none"
  PROVE  \/ position[h] # "none" /\ depositTime'[h] = depositTime[h]
         \/ chain[i].kind \in Deposits /\ Place(i) = h /\ depositTime'[h] = chain[i].date
<1>1. position' = Positions(i) /\ depositTime' = DepositTimes(i)
  BY DEF Effect
<1>2. CASE position[h] # "none"
  BY <1>2, EffectMeans
<1>3. CASE position[h] = "none"
  <2>1. chain[i].kind \in Deposits /\ position[Place(i)] = "none" /\ Place(i) = h
    BY <1>1, <1>3 DEF Positions, StoreOK
  <2>2. depositTime'[h] = chain[i].date
    BY <1>1, <2>1 DEF DepositTimes, StoreOK
  <2> QED
    BY <2>1, <2>2
<1> QED
  BY <1>2, <1>3

LEMMA HistoryStep ==
  ASSUME TypeOK, ControlFits, HistoryFits, [Next]_vars
  PROVE  HistoryFits'
<1>1. chain \in Chains /\ StoreOK /\ WorkersOK
  BY AllTypes
<1>2. Grows /\ UNCHANGED chain /\ Index' = Index
  BY NextMeans DEF Grows, Index
<1> SUFFICES ASSUME NEW i \in Index
             PROVE  /\ excuse'[i] \cap {"raced", "overtaken"} # {} =>
                         \E j \in Index : Key(j) = Key(i) /\ "triggered" \in excuse'[j]
                    /\ "appended" \in excuse'[i] => chain[i].kind \in Supplemented
                    /\ "stored" \in excuse'[i] => chain[i].kind # "BuyoutScheduled"
                    /\ chain[i].kind \in Mints /\ done'[i] > 0 => position'[Place(i)] # "none"
  <2>1. \A i \in scheduled' \cup buyouts' : chain[i].kind = "BuyoutScheduled"
    BY SumsGrow DEF HistoryFits
  <2>2. scheduled' \subseteq docs'
    BY <1>2, SumsGrow DEF HistoryFits, Grows
  <2>3. \A w \in Worker : buyout'[w] # 0 => chain[buyout'[w]].kind = "BuyoutScheduled"
    <3>1. CASE \E w \in Worker : Handles(w)
      <4>1. PICK w \in Worker : Handles(w)
        BY <3>1
      <4>2. /\ \A v \in Worker \ {w} : buyout'[v] = buyout[v]
            /\ buyout'[w] \in {0, buyout[w]} \cup scheduled
        BY <4>1 DEF Handles, Funds
      <4> QED
        BY <4>2 DEF HistoryFits
    <3>2. CASE \A w \in Worker : buyout'[w] = 0
      BY <3>2
    <3>3. CASE UNCHANGED buyout
      BY <3>3 DEF HistoryFits
    <3> QED
      BY <3>1, <3>2, <3>3, NextMeans
         DEF Starts, Batches, Saves, GoesBack, Serves, Replays, Ends, workers, findings
  <2>4. ASSUME NEW h \in Holding, position'[h] # "none"
        PROVE  \E d \in Index : /\ chain[d].kind \in Deposits /\ Place(d) = h
                                 /\ depositTime'[h] = chain[d].date
    <3>1. ASSUME position[h] # "none", depositTime'[h] = depositTime[h]
          PROVE  \E d \in Index : /\ chain[d].kind \in Deposits /\ Place(d) = h
                                   /\ depositTime'[h] = chain[d].date
      BY <3>1 DEF HistoryFits
    <3> QED
      BY <1>1, <2>4, <3>1, ByEffects, EffectDates
  <2>5. Holding' = Holding
    BY <1>1, <1>2, SameChain
  <2> QED
    BY <1>2, <2>1, <2>2, <2>3, <2>4, <2>5 DEF HistoryFits, Key, Supplemented, Placed, Place
<1>3. /\ excuse[i] \cap {"raced", "overtaken"} # {} =>
           \E j \in Index : Key(j) = Key(i) /\ "triggered" \in excuse'[j]
      /\ "appended" \in excuse[i] => chain[i].kind \in Supplemented
      /\ "stored" \in excuse[i] => chain[i].kind # "BuyoutScheduled"
  BY <1>2 DEF HistoryFits, Grows
<1>4. chain[i].kind \in Mints /\ done'[i] > 0 => position'[Place(i)] # "none"
  <2> SUFFICES ASSUME chain[i].kind \in Mints, done'[i] > 0
               PROVE  position'[Place(i)] # "none"
    OBVIOUS
  <2>1. Place(i) \in Holding /\ done[i] \in Nat
    BY <1>1, TheChain DEF StoreOK
  <2>2. CASE done[i] > 0
    BY <1>2, <2>1, <2>2 DEF HistoryFits, Placed, Grows
  <2>3. CASE done[i] = 0
    <3>1. \E j \in Index : (\E listed : Effect(j, listed)) /\ (j = i \/ done'[i] = done[i])
      <4>1. done'[i] # done[i]
        BY <2>3
      <4>2. store' # store /\ done' # done
        BY <4>1 DEF store
      <4>3. CASE \E w \in Worker : Handles(w)
        <5>1. PICK w \in Worker : Handles(w)
          BY <4>3
        <5>2. Job(w) = i
          BY <4>1, <5>1 DEF Handles
        <5>3. Effect(i, list[w])
          BY <4>2, <5>1, <5>2 DEF Handles, Searched, Skipped, Entered, Listed, Created, Failed,
             Applied, Tallied, Kept
        <5> QED
          BY <5>3
      <4>4. CASE \E m : Replays(m)
        <5>1. PICK m : Replays(m)
          BY <4>4
        <5>2. \A j \in Index \ {m} : done'[j] = done[j]
          BY <1>1, <5>1, EffectMeans DEF Replays
        <5> QED
          BY <5>1, <5>2 DEF Replays
      <4>5. ~(\E w \in Worker : Handles(w)) /\ ~(\E m : Replays(m)) => store' = store
        BY NextMeans DEF Starts, Batches, Saves, GoesBack, Serves, Ends
      <4> QED
        BY <4>2, <4>3, <4>4, <4>5
    <3>2. PICK listed : Effect(i, listed)
      BY <2>3, <3>1
    <3>3. FindsPosition(i)
      BY <1>1, <2>1, <2>3, <3>2, EffectMeans
    <3> QED
      BY <1>2, <2>1, <3>3 DEF FindsPosition, Grows
  <2> QED
    BY <2>1, <2>2, <2>3
<1>5. ASSUME NEW w \in Worker, Handle(w)
      PROVE  /\ excuse'[i] \cap {"raced", "overtaken"} # {} =>
                  \E j \in Index : Key(j) = Key(i) /\ "triggered" \in excuse'[j]
             /\ "appended" \in excuse'[i] => "appended" \in excuse[i]
             /\ "stored" \in excuse'[i] => "stored" \in excuse[i]
  <2>1. ASSUME NEW what \in {"raced", "overtaken"}, what \in excuse'[i], what \notin excuse[i]
        PROVE  \E j \in Index : Key(j) = Key(i) /\ "triggered" \in excuse'[j]
    <3>1. i = Job(w) /\ \E v \in Worker \ {w} : Working(v) /\ Key(Job(v)) = Key(i)
      BY <1>5, <2>1, HandleNotes
    <3>2. PICK v \in Worker : v # w /\ Working(v) /\ Key(Job(v)) = Key(i)
      BY <3>1
    <3>3. Working(w) /\ (w = Trigger \/ v = Trigger)
      BY <1>5, <3>2, TwoWorkers DEF Handle
    <3>4. Job(Trigger) \in Index /\ "triggered" \in excuse[Job(Trigger)] /\ Key(Job(Trigger)) = Key(i)
      BY <1>1, <3>1, <3>2, <3>3, TheJob DEF ControlFits
    <3> QED
      BY <1>2, <3>4 DEF Grows
  <2> QED
    BY <1>3, <1>5, <2>1, HandleNotes
<1>6. CASE UNCHANGED vars
  BY <1>3, <1>4, <1>6 DEF vars, handlerVars
<1>7. CASE Next
  BY <1>3, <1>4, <1>5, <1>7, OtherNotes
<1> QED
  BY <1>6, <1>7

-----------------------------------------------------------------------------
(* The funding of a buyout.                                                *)

\* The mint of a purchase follows one deposit, and no event is taken for
\* another of the three.
LEMMA Purchased ==
  ASSUME chain \in Chains, NEW d \in Index, NEW c \in Index, NEW b \in Index, Purchase(d, c, b)
  PROVE  /\ ComputeLabs(d) /\ chain[d].kind \in Deposits /\ chain[b].kind = "BuyoutScheduled"
         /\ chain[c].kind = "CLGPUTokensTransferred" /\ chain[c].kind \in Mints
         /\ chain[d].kind \notin Unguarded /\ chain[b].kind \notin Unguarded
         /\ Place(d) \in Holding /\ Place(c) = Place(d) /\ ComputeLabs(c)
         /\ d # c /\ d # b /\ c # b /\ (b < d <=> b < c)
         /\ HasEffect(d) /\ HasEffect(c) /\ HasEffect(b)
         /\ \A i \in {d, b} : \A j \in Index : Key(j) = Key(i) => j = i
         /\ \A i \in {d, b} : \A j \in Index : ~Twin(i, j)
         /\ \A i \in Index : chain[i].kind \in Deposits /\ Place(i) = Place(d) => i = d
         /\ \A i \in Index : chain[i].kind = "CLGPUTokensTransferred" /\ Place(i) = Place(d) => i = c
         /\ \A i \in Index : chain[i].kind = "BuyoutScheduled" => i = b
         /\ DepositsOf(c) = {d}
<1>1. /\ chain[d].kind \in Deposits /\ chain[b].kind = "BuyoutScheduled"
      /\ chain[c].kind = "CLGPUTokensTransferred" /\ Place(c) = Place(d)
      /\ ComputeLabs(d) /\ chain[d].tx <= chain[c].tx /\ (b < d <=> b < c)
  BY DEF Purchase
<1>2. /\ \A i \in Index : chain[i].kind \in Deposits /\ Place(i) = Place(d) => i = d
      /\ \A i \in Index : chain[i].kind = "CLGPUTokensTransferred" /\ Place(i) = Place(d) => i = c
      /\ \A i \in Index : chain[i].kind = "BuyoutScheduled" => i = b
      /\ \A i \in Index : ~Twin(d, i)
  BY DEF Purchase
<1>3. /\ "CLGPUTokensTransferred" \in Mints
      /\ chain[d].kind \notin Unguarded \cup StatusEvents \cup {"VaultRolledOver"}
      /\ chain[b].kind \notin Unguarded \cup StatusEvents /\ chain[c].kind \notin StatusEvents
      /\ "CLGPUTokensTransferred" \notin Deposits /\ "BuyoutScheduled" \notin Deposits
  BY <1>1 DEF Mints, Unguarded, Deposits, StatusEvents, Undocumented
<1>4. Place(d) \in Holding /\ ComputeLabs(c)
  BY <1>1, TheChain DEF ComputeLabs, Place
<1>5. HasEffect(d) /\ HasEffect(c) /\ HasEffect(b)
  BY <1>1, <1>3, <1>4 DEF HasEffect, Acts, Supported
<1>6. /\ \A j \in Index : EventName(chain[j].kind) = EventName(chain[b].kind) =>
                            chain[j].kind = "BuyoutScheduled"
  BY <1>1 DEF EventName, Deposits, Redemptions
<1>7. /\ \A i \in {d, b} : \A j \in Index : Key(j) = Key(i) => j = i
      /\ \A i \in {d, b} : \A j \in Index : ~Twin(i, j)
  <2>1. \A j \in Index : Key(j) = Key(d) => j = d
    BY <1>2 DEF Key, Twin
  <2>2. \A j \in Index : (Key(j) = Key(b) => j = b) /\ ~Twin(b, j)
    BY <1>2, <1>6 DEF Key, Twin
  <2> QED
    BY <1>2, <2>1, <2>2
<1>8. DepositsOf(c) = {d}
  BY <1>1, <1>2 DEF DepositsOf
<1> QED
  BY <1>1, <1>2, <1>3, <1>4, <1>5, <1>7, <1>8

\* The logs of an undisturbed purchase are the monitor's alone.
LEMMA LeftToMonitor ==
  ASSUME TypeOK, ControlFits, HistoryFits,
         NEW d \in Index, NEW c \in Index, NEW b \in Index, Purchase(d, c, b), Undisturbed(d, c, b)
  PROVE  /\ \A w \in Worker : Working(w) /\ Job(w) \in {d, c, b} => w = Monitor
         /\ Races(d) = {} /\ "raced" \notin excuse[b]
         /\ \A i \in {d, c, b} : Mishaps(i) = {} /\ "blind" \notin excuse[i]
         /\ done[c] \in {0, 1}
<1>1. chain \in Chains /\ WorkersOK /\ StoreOK
  BY AllTypes
<1>2. \A i \in {d, c, b} : Mishaps(i) = {} /\ "blind" \notin excuse[i] /\ "triggered" \notin excuse[i]
  BY DEF Undisturbed
<1>3. ASSUME NEW w \in Worker, Working(w), Job(w) \in {d, c, b}
      PROVE  w = Monitor
  <2>1. Job(w) \in Logs(todo[w])
    BY <1>1, <1>3, TheJob
  <2>2. w # Trigger
    BY <1>2, <1>3, <2>1 DEF ControlFits
  <2> QED
    BY <2>2, TwoWorkers
<1>4. ASSUME NEW i \in {d, b}
      PROVE  excuse[i] \cap {"raced", "overtaken"} = {}
  <2>1. \A j \in Index : Key(j) = Key(i) => j = i
    BY <1>1, Purchased
  <2> QED
    BY <1>2, <2>1 DEF HistoryFits
<1>5. done[c] \in {0, 1}
  <2>1. done[c] \in Nat
    BY <1>1 DEF StoreOK
  <2>2. done[c] <= 1
    BY DEF Undisturbed
  <2> QED
    BY <2>1, <2>2
<1> QED
  BY <1>2, <1>3, <1>4, <1>5 DEF Races

\* A mint that is accounted for has been applied, to the position of its deposit.
LEMMA MintDone ==
  ASSUME TypeOK, ControlFits, HistoryFits, LossesAccounted,
         NEW d \in Index, NEW c \in Index, NEW b \in Index, Purchase(d, c, b), Undisturbed(d, c, b),
         Accounted(c)
  PROVE  done[c] = 1 /\ Placed(d)
<1>1. chain \in Chains /\ StoreOK
  BY AllTypes
<1>2. /\ Mishaps(c) = {} /\ Mishaps(d) = {} /\ Races(d) = {}
      /\ done[c] \in {0, 1}
  BY LeftToMonitor
<1>3. /\ DepositsOf(c) = {d} /\ chain[c].kind \in Mints /\ Place(c) = Place(d)
      /\ \A m \in docs : ~Twin(c, m) /\ ~Twin(d, m)
  <2>1. /\ chain[c].kind = "CLGPUTokensTransferred" /\ chain[c].kind \in Mints
        /\ DepositsOf(c) = {d} /\ Place(c) = Place(d) /\ \A m \in Index : ~Twin(d, m)
    BY <1>1, Purchased
  <2>2. \A m \in docs : m \in Index /\ chain[m].kind \notin Mints
    BY <1>1 DEF LossesAccounted, StoreOK
  <2>3. \A m \in Index : EventName(chain[m].kind) = EventName(chain[c].kind) => chain[m].kind \in Mints
    BY <2>1 DEF EventName, Deposits, Redemptions
  <2> QED
    BY <2>1, <2>2, <2>3 DEF Twin
<1>4. ~DepositLost(d)
  BY <1>2, <1>3 DEF DepositLost
<1>5. done[c] > 0
  BY <1>2, <1>3, <1>4 DEF Accounted
<1> QED
  BY <1>2, <1>3, <1>5 DEF HistoryFits, Placed

\* A buyout that the monitor has been through is stored.
LEMMA ScheduleStored ==
  ASSUME TypeOK, ControlFits, HistoryFits, EffectsOnce, LossesAccounted,
         NEW d \in Index, NEW c \in Index, NEW b \in Index, Purchase(d, c, b), Undisturbed(d, c, b),
         Reached(b), ~Working(Monitor)
  PROVE  b \in docs
<1>1. chain \in Chains /\ StoreOK
  BY AllTypes
<1>2. /\ HasEffect(b) /\ chain[b].kind = "BuyoutScheduled" /\ chain[b].kind \notin Mints \cup Unguarded
      /\ \A m \in docs : ~Twin(b, m)
  BY <1>1, Purchased DEF StoreOK, Unguarded
<1>3. \A w \in Worker : Working(w) => Job(w) # b
  BY LeftToMonitor
<1>4. Mishaps(b) = {} /\ "blind" \notin excuse[b] /\ "raced" \notin excuse[b]
  BY LeftToMonitor
<1>5. ~InEffect(b) /\ ~Awaited(b)
  BY <1>3 DEF InEffect, Awaited, Logs, Working
<1>6. done[b] > 0
  <2>1. Accounted(b)
    BY <1>2, <1>5 DEF LossesAccounted
  <2> QED
    BY <1>2, <1>4, <2>1 DEF Accounted
<1>7. Once(b)
  BY <1>2, <1>4 DEF Once, HistoryFits, Mishaps
<1>8. done[b] = 1
  BY <1>1, <1>6, <1>7 DEF EffectsOnce, StoreOK
<1> QED
  BY <1>3, <1>7, <1>8 DEF EffectsOnce, Beyond

\* The monitor comes to a buyout after every mint before it.
LEMMA MintBefore ==
  ASSUME TypeOK, ControlFits, MonitorInOrder, HistoryFits, LossesAccounted,
         NEW d \in Index, NEW c \in Index, NEW b \in Index, Purchase(d, c, b), Undisturbed(d, c, b),
         Working(Monitor), Job(Monitor) = b, c < b
  PROVE  done[c] = 1 /\ Placed(d)
<1>1. /\ chain \in Chains /\ WorkersOK /\ todo[Monitor] \in Seq(Index) /\ todo[Monitor] # << >>
      /\ b \in Logs(todo[Monitor]) /\ Index \subseteq Nat
      /\ chain[c].tx \in Nat /\ chain[b].tx \in Nat /\ upto \in Nat /\ chain[c].tx <= chain[b].tx
  <2>1. /\ chain \in Chains /\ Index \subseteq Nat /\ WorkersOK /\ upto \in Nat
        /\ Monitor \in Worker
    BY AllTypes, TheChain, TwoWorkers DEF ListenerOK
  <2>2. /\ todo[Monitor] \in Seq(Index) /\ todo[Monitor] # << >>
    BY <2>1 DEF WorkersOK, Working
  <2>3. b \in Logs(todo[Monitor])
    BY <2>1, TheJob
  <2>4. chain[c].tx \in Nat /\ chain[b].tx \in Nat /\ chain[c].tx <= chain[b].tx
    BY <2>1, TheChain
  <2> QED
    BY <2>1, <2>2, <2>3, <2>4
<1>2. /\ HasEffect(c) /\ chain[c].kind \in Mints /\ chain[c].kind = "CLGPUTokensTransferred"
      /\ chain[b].kind = "BuyoutScheduled"
  <2>1. chain \in Chains
    BY <1>1
  <2> QED
    BY <2>1, Purchased
<1>3. Reached(c)
  <2>1. chain[b].tx \in next..upto
    BY <1>1 DEF ControlFits
  <2> QED
    BY <1>1, <2>1 DEF Reached
<1>4. ~Awaited(c)
  <2> SUFFICES ASSUME NEW k \in DOMAIN todo[Monitor], todo[Monitor][k] = c
               PROVE  FALSE
    BY DEF Awaited, Logs
  <2>1. /\ 1 \in DOMAIN todo[Monitor] /\ todo[Monitor][1] = b
        /\ DOMAIN todo[Monitor] \subseteq Nat \ {0}
    BY <1>1 DEF Job
  <2>2. 1 < k
    BY <1>1, <2>1
  <2>3. "appended" \notin excuse[c] /\ chain[b].kind \notin Deposits
    BY <1>2 DEF HistoryFits, Supplemented, Deposits
  <2>4. b < c
    BY <2>1, <2>2, <2>3 DEF MonitorInOrder
  <2>5. b \in Nat /\ c \in Nat
    BY <1>1
  <2> QED
    BY <2>4, <2>5
<1>5. Accounted(c)
  BY <1>2, <1>3, <1>4 DEF LossesAccounted
<1> QED
  BY <1>5, MintDone

\* An effect places the position of a deposit only, and completes it for good.
LEMMA EffectPlaces ==
  ASSUME chain \in Chains, StoreOK, NEW i \in Index, NEW listed, Effect(i, listed), NEW p \in Holding
  PROVE  /\ position[p] = "completed" => position'[p] = "completed"
         /\ position[p] = "none" /\ position'[p] # "none" =>
              chain[i].kind \in Deposits /\ Place(i) = p
<1>1. position' = Positions(i)
  BY DEF Effect
<1>2. /\ position[p] = "completed" => Positions(i)[p] = "completed"
      /\ position[p] = "none" /\ Positions(i)[p] # "none" =>
           chain[i].kind \in Deposits /\ Place(i) = p
  BY DEF Positions, StoreOK
<1> QED
  BY <1>1, <1>2

\* A worker that turns to another log is not in the middle of it.
LEMMA LeavesFresh ==
  ASSUME chain \in Chains, WorkersOK, UNCHANGED chain, NEW w \in Worker, Working(w),
         NEW from, Leaves(w, from), NEW b \in Index, chain[b].kind = "BuyoutScheduled", NEW c \in Index
  PROVE  /\ ~Beyond(w, b)'
         /\ w = Monitor => ~Listing(b)' /\ ~Tallying(c)'
<1> SUFFICES ASSUME Working(w)'
             PROVE  /\ Job(w)' = b => at'[w] \notin {"list", "apply", "create"}
                    /\ at'[w] \notin {"tally", "weigh", "fund", "book"}
  BY DEF Beyond, Listing, Tallying
<1>1. /\ at'[w] = FirstCall(Job(w)') \/ at'[w] = "lookup"
      /\ chain[Job(w)'].kind \in Signature
  BY LeavesMeans
<1>2. /\ FirstCall(Job(w)') \in {"apply", "create", "check"}
      /\ Job(w)' = b => FirstCall(Job(w)') = "check"
  BY <1>1, FirstCalls DEF Mints, StatusEvents
<1> QED
  BY <1>1, <1>2

\* The monitor reads the positions that buyout b is to pay for.
Lists(b) ==
  /\ Working(Monitor) /\ Job(Monitor) = b /\ at[Monitor] = "list" /\ Kept
  /\ list'[Monitor] = {p \in Holding : position[p] = "active" /\ p[2] = "compute_labs"}

\* What the monitor does with the buyout and the mint of a purchase.
LEMMA MonitorMoves ==
  ASSUME TypeOK, ControlFits, HistoryFits, Grows, NEW w \in Worker, Handles(w),
         NEW d \in Index, NEW c \in Index, NEW b \in Index, Purchase(d, c, b),
         Undisturbed(d, c, b), Undisturbed(d, c, b)'
  PROVE  /\ Beyond(Monitor, b)' => Beyond(Monitor, b) \/ (b \notin docs /\ docs' = docs)
         /\ Beyond(Monitor, b) => Beyond(Monitor, b)' \/ b \in docs'
         /\ Listing(b)' => (Listing(b) /\ list'[Monitor] = list[Monitor]) \/ Lists(b)
         /\ Tallying(c)' =>
              Tallying(c) \/ (Working(Monitor) /\ Job(Monitor) = c /\ Effect(c, list[Monitor]))
<1>1. /\ chain \in Chains /\ WorkersOK /\ chain' = chain
      /\ chain[b].kind = "BuyoutScheduled" /\ chain[c].kind = "CLGPUTokensTransferred"
      /\ \A i \in {c, b} : "refused" \notin excuse'[i] /\ "blind" \notin excuse'[i]
  BY AllTypes, Purchased DEF Grows, Undisturbed, Mishaps
<1>2. CASE w # Monitor
  <2>1. /\ todo'[Monitor] = todo[Monitor] /\ at'[Monitor] = at[Monitor]
        /\ list'[Monitor] = list[Monitor]
    BY <1>2, TwoWorkers DEF Handles, Alone, Funds
  <2> QED
    BY <2>1 DEF Beyond, Listing, Tallying, Working, Job
<1>3. CASE w = Monitor
  <2>1. Working(Monitor) /\ FitsJob(Monitor) /\ Funds(Monitor)
    BY <1>3 DEF Handles, ControlFits
  <2>2. ASSUME NEW from, Leaves(Monitor, from)
        PROVE  ~Beyond(Monitor, b)' /\ ~Listing(b)' /\ ~Tallying(c)'
    BY <1>1, <2>1, <2>2, LeavesFresh, TwoWorkers
  <2>3. ASSUME NEW from, NEW to, Calls(Monitor, from, to)
        PROVE  /\ Job(Monitor)' = Job(Monitor) /\ Working(Monitor)' /\ at[Monitor] = from /\ at'[Monitor] = to
               /\ todo'[Monitor] = todo[Monitor]
    BY <2>1, <2>3 DEF Calls, Working, Job
  <2>4. ASSUME Beyond(Monitor, b)
        PROVE  Beyond(Monitor, b)' \/ b \in docs'
    <3>1. Job(Monitor) = b /\ at[Monitor] \in {"list", "create", "apply"}
      BY <2>4 DEF Beyond
    <3>2. \/ \E to \in {"create", "apply"} : \E from : Calls(Monitor, from, to)
          \/ Created(Monitor)
      BY <1>1, <1>3, <3>1 DEF Handles, Searched, Skipped, Entered, Listed, Failed, Applied, Tallied,
         Calls, Leaves
    <3>3. CASE Created(Monitor)
      BY <1>1, <3>1, <3>3 DEF Created, StatusEvents
    <3>4. CASE \E to \in {"create", "apply"} : \E from : Calls(Monitor, from, to)
      BY <2>3, <3>1, <3>4 DEF Beyond
    <3> QED
      BY <3>2, <3>3, <3>4
  <2>5. CASE Searched(Monitor) \/ Skipped(Monitor) \/ Failed(Monitor)
    <3>1. ~Calls(Monitor, "lookup", FirstCall(Job(Monitor)))
      BY <2>1 DEF Calls, FitsJob, ControlFits
    <3>2. \E from : Leaves(Monitor, from)
      BY <2>5, <3>1 DEF Searched, Skipped, Failed
    <3> QED
      BY <2>2, <2>4, <3>2
  <2>6. CASE Tallied(Monitor)
    <3>1. CASE \E from : Leaves(Monitor, from)
      BY <2>2, <2>4, <3>1
    <3>2. CASE \E from \in {"tally", "weigh", "fund"} : \E to \in {"weigh", "fund", "book"} :
                 Calls(Monitor, from, to)
      BY <2>1, <2>3, <2>4, <3>2 DEF Beyond, Listing, Tallying
    <3> QED
      BY <2>6, <3>1, <3>2 DEF Tallied
  <2>7. CASE Entered(Monitor)
    <3>1. Calls(Monitor, "check", AfterCheck(Job(Monitor))) /\ docs' = docs
      BY <2>7 DEF Entered, Kept
    <3>2. /\ Job(Monitor) = b => b \notin docs /\ AfterCheck(b) = "list"
          /\ AfterCheck(Job(Monitor)) \in {"apply", "list", "create"}
      BY <1>1, <2>1, <2>7, TheJob, FirstCalls, TwoWorkers DEF Entered, Duplicate
    <3> QED
      BY <2>3, <2>4, <3>1, <3>2 DEF Beyond, Listing, Tallying
  <2>8. CASE Listed(Monitor)
    <3>1. Calls(Monitor, "list", "apply") /\ Kept
      BY <2>8 DEF Listed
    <3>2. Job(Monitor) = b => Lists(b)
      BY <1>1, <2>1, <2>3, <3>1 DEF Funds, Lists
    <3> QED
      BY <2>1, <2>3, <2>4, <3>1, <3>2 DEF Beyond, Listing, Tallying
  <2>9. CASE Created(Monitor)
    <3>1. CASE Leaves(Monitor, "create")
      BY <2>2, <2>4, <3>1
    <3>2. CASE Calls(Monitor, "create", "apply") /\ Job(Monitor) # b
      BY <2>3, <2>4, <3>2 DEF Beyond, Listing, Tallying
    <3> QED
      BY <1>1, <2>9, <3>1, <3>2 DEF Created
  <2>10. CASE Applied(Monitor)
    <3>1. CASE Leaves(Monitor, "apply")
      BY <2>2, <2>4, <3>1
    <3>2. CASE Calls(Monitor, "apply", "create")
      <4>1. list'[Monitor] = list[Monitor]
        BY <2>1, <2>3, <3>2 DEF Funds
      <4> QED
        BY <2>1, <2>3, <2>4, <3>2, <4>1 DEF Beyond, Listing, Tallying
    <3>3. CASE /\ chain[Job(Monitor)].kind = "CLGPUTokensTransferred" /\ Calls(Monitor, "apply", "tally")
               /\ Effect(Job(Monitor), list[Monitor]) \/ "refused" \in excuse'[Job(Monitor)]
      BY <1>1, <2>1, <2>3, <2>4, <3>3 DEF Beyond, Listing, Tallying
    <3> QED
      BY <2>10, <3>1, <3>2, <3>3 DEF Applied
  <2> QED
    BY <1>3, <2>5, <2>6, <2>7, <2>8, <2>9, <2>10 DEF Handles
<1> QED
  BY <1>2, <1>3

\* What a handler does for the deposit of a purchase is the monitor's doing.
LEMMA DepositArrives ==
  ASSUME TypeOK, ControlFits, HistoryFits, Grows, NEW w \in Worker, Handles(w),
         NEW d \in Index, NEW c \in Index, NEW b \in Index, Purchase(d, c, b), Undisturbed(d, c, b)
  PROVE  /\ d \in Logs(todo'[Monitor]) \/ d \in docs' \/ Placed(d)' =>
              d \in Logs(todo[Monitor]) \/ d \in docs \/ Placed(d)
         /\ position[Place(d)] = "completed" => position'[Place(d)] = "completed"
<1>1. /\ chain \in Chains /\ StoreOK /\ WorkersOK /\ chain' = chain
      /\ Place(d) \in Holding /\ Working(w) /\ Job(w) \in Index
  BY AllTypes, Purchased DEF Grows, Handles
<1>2. Job(w) = d => d \in Logs(todo[Monitor])
  BY <1>1, LeftToMonitor, TheJob
<1>3. Logs(todo'[Monitor]) \subseteq Logs(todo[Monitor])
  <2>1. CASE w # Monitor
    BY <2>1, TwoWorkers DEF Handles, Alone
  <2>2. CASE w = Monitor
    <3>1. todo'[w] = todo[w] \/ \E from : Leaves(w, from)
      BY DEF Handles, Searched, Skipped, Entered, Listed, Created, Failed, Applied, Tallied, Calls
    <3> QED
      BY <1>1, <2>2, <3>1, LeavesMeans
  <2> QED
    BY <2>1, <2>2
<1>4. position' = position \/ Effect(Job(w), list[w])
  BY DEF Handles, Searched, Skipped, Entered, Listed, Created, Failed, Applied, Tallied, Kept
<1>5. Placed(d)' /\ ~Placed(d) => Job(w) = d
  <2>1. \A i \in Index : chain[i].kind \in Deposits /\ Place(i) = Place(d) => i = d
    BY DEF Purchase
  <2>2. Place(d)' = Place(d)
    BY <1>1 DEF Place
  <2>3. Placed(d)' /\ ~Placed(d) => position'[Place(d)] # "none" /\ position[Place(d)] = "none"
    BY <2>2 DEF Placed
  <2> QED
    BY <1>1, <1>4, <2>1, <2>3, EffectPlaces
<1>6. d \in docs' /\ d \notin docs => Job(w) = d
  BY DEF Handles
<1>7. position[Place(d)] = "completed" => position'[Place(d)] = "completed"
  BY <1>1, <1>4, EffectPlaces
<1> QED
  BY <1>2, <1>3, <1>5, <1>6, <1>7

\* The mint of log c has been counted in the schedule it was to be counted in.
Counts(c) == MintedPast(c, {"tally", "weigh", "fund"})

SameMint(c) == (Counts(c)' <=> Counts(c)) /\ (Minted(c)' <=> Minted(c))

SameCounted(d, b) == counted'[b][Place(d)] = counted[b][Place(d)]
SameBooked(d, b) == booked'[b][Place(d)] = booked[b][Place(d)]

NoMore(b) ==
  /\ b \in docs' => b \in docs
  /\ b \in scheduled' => b \in scheduled
  /\ b \in buyouts' => b \in buyouts

\* The mint is added to the schedule, to the buyout, or to neither; the buyout is
\* recorded; its schedule is stored.
FundsMint(d, c, b) ==
  /\ ~Minted(c) /\ ~Minted(c)' /\ ~Counts(c) /\ Counts(c)'
  /\ ~Late(d, b) /\ NoMore(b)
  /\ counted'[b][Place(d)] = counted[b][Place(d)] + 1 /\ SameBooked(d, b)

BooksMint(d, c, b) ==
  /\ ~Minted(c) /\ Minted(c)' /\ Counts(c) /\ Counts(c)'
  /\ ~Late(d, b) /\ NoMore(b)
  /\ SameCounted(d, b) /\ (b \in buyouts => booked'[b][Place(d)] = booked[b][Place(d)] + 1)

LeavesMint(d, c, b) ==
  /\ ~Minted(c) /\ Minted(c)'
  /\ b \in scheduled' => chain[b].date < chain[d].date
  /\ NoMore(b) /\ SameCounted(d, b) /\ SameBooked(d, b)

Records(d, c, b) ==
  /\ Listing(b) /\ Listing(b)' /\ list'[Monitor] = list[Monitor] /\ SameMint(c)
  /\ booked'[b][Place(d)] = SumOf(list[Monitor])[Place(d)] /\ SameCounted(d, b)
  /\ docs' = docs /\ scheduled' = scheduled

Stores(d, c, b) ==
  /\ Listing(b) /\ ~Beyond(Monitor, b)' /\ SameMint(c)
  /\ counted'[b][Place(d)] = SumOf(list[Monitor])[Place(d)] /\ SameBooked(d, b)
  /\ b \in docs' /\ buyouts' = buyouts

Keeps(d, c, b) == SameMint(c) /\ SameCounted(d, b) /\ SameBooked(d, b) /\ NoMore(b)

\* What the step of a handler is for the funding of a position.
LEMMA HandledFunds ==
  ASSUME TypeOK, ControlFits, HistoryFits, LossesAccounted, Grows, TypeOK',
         NEW w \in Worker, Handles(w),
         NEW d \in Index, NEW c \in Index, NEW b \in Index, Purchase(d, c, b),
         Undisturbed(d, c, b), Undisturbed(d, c, b)'
  PROVE  \/ FundsMint(d, c, b) \/ BooksMint(d, c, b) \/ LeavesMint(d, c, b)
         \/ Records(d, c, b) \/ Stores(d, c, b) \/ Keeps(d, c, b)
<1>1. /\ chain \in Chains /\ StoreOK /\ WorkersOK /\ chain' = chain /\ Index' = Index
      /\ Working(w) /\ FitsJob(w) /\ Job(w) \in Index /\ Alone(w) /\ Funds(w)
      /\ \A i \in {c, b} : "refused" \notin excuse'[i]
      /\ done'[c] \in {0, 1} /\ done[c] \in {0, 1}
  <2>1. /\ chain \in Chains /\ StoreOK /\ WorkersOK /\ chain' = chain /\ Index' = Index
        /\ Working(w) /\ FitsJob(w) /\ Job(w) \in Index /\ Alone(w) /\ Funds(w)
    BY AllTypes DEF Grows, Index, Handles, ControlFits
  <2>2. \A i \in {c, b} : "refused" \notin excuse'[i]
    BY DEF Undisturbed, Mishaps
  <2>3. done[c] \in {0, 1} /\ done'[c] \in {0, 1}
    <3>1. done'[c] \in Nat
      BY <2>1, AllTypesNext DEF StoreOK
    <3>2. done'[c] <= 1
      BY DEF Undisturbed
    <3> QED
      BY <3>1, <3>2, LeftToMonitor
  <2> QED
    BY <2>1, <2>2, <2>3
<1>2. /\ Place(d) \in Holding /\ Place(c) = Place(d) /\ ComputeLabs(c) /\ c # b
      /\ chain[b].kind = "BuyoutScheduled" /\ chain[c].kind = "CLGPUTokensTransferred"
      /\ chain[c].kind \in Mints
      /\ \A i \in Index : chain[i].kind = "BuyoutScheduled" => i = b
      /\ \A i \in Index : chain[i].kind = "CLGPUTokensTransferred" /\ Place(i) = Place(d) => i = c
      /\ \A i \in Index : chain[i].kind \in Deposits /\ Place(i) = Place(d) => i = d
      /\ chain[d].date \in Nat /\ chain[b].date \in Nat
  BY <1>1, Purchased, TheChain
<1>3. Job(w) \in {c, b} => w = Monitor
  BY <1>1, LeftToMonitor
<1>4. counted[b][Place(d)] \in Nat /\ booked[b][Place(d)] \in Nat
  BY <1>1, <1>2 DEF StoreOK
\* The funding of the mint.
<1>5. CASE Job(w) = c /\ at[w] \in {"tally", "weigh", "fund", "book"}
  <2>1. w = Monitor /\ Tallying(c) /\ Working(Monitor) /\ Job(Monitor) = c
    BY <1>1, <1>3, <1>5 DEF Tallying
  <2>2. Tallied(w)
    BY <1>1, <1>5 DEF Handles, Searched, Skipped, Entered, Listed, Created, Failed, Applied, Tallied,
       Calls, Leaves
  <2>3. docs' = docs /\ done' = done
    BY <2>2 DEF Tallied, Kept
  <2>4. done[c] = 1 /\ Placed(d)
    <3>1. HasEffect(c)
      BY <1>1, Purchased
    <3>2. Accounted(c)
      BY <2>1, <3>1 DEF LossesAccounted
    <3> QED
      BY <3>2, MintDone
  <2>5. FindsPosition(c)
    BY <1>2, <2>4 DEF Placed, FindsPosition
  <2>6. ~Minted(c)
    BY <2>1 DEF Minted
  <2>7. ASSUME NEW from, Leaves(Monitor, from)
        PROVE  Minted(c)' /\ Counts(c)'
    <3>1. ~Tallying(c)'
      BY <1>1, <1>2, <2>1, <2>7, LeavesFresh
    <3>2. done'[c] = 1 /\ \A calls : MintedPast(c, calls)' <=>
                             ~(Working(Monitor)' /\ Job(Monitor)' = c /\ at'[Monitor] \in calls)
      BY <2>3, <2>4 DEF MintedPast
    <3> QED
      BY <3>1, <3>2 DEF Minted, Counts, Tallying
  <2>8. ASSUME NEW from, NEW to, Calls(Monitor, from, to)
        PROVE  Working(Monitor)' /\ Job(Monitor)' = c /\ at'[Monitor] = to /\ todo'[w] = todo[w]
    BY <2>1, <2>8 DEF Calls, Working, Job
  <2>9. ASSUME buyout[w] # 0
        PROVE  buyout[w] = b /\ (Due(w) <=> chain[d].date <= chain[b].date)
    <3>1. buyout[w] \in Index \cup {0}
      BY <1>1 DEF WorkersOK
    <3>2. buyout[w] = b
      BY <1>2, <2>9, <3>1 DEF HistoryFits
    <3>3. depositTime[Place(d)] = chain[d].date
      BY <1>2, <2>4 DEF HistoryFits, Placed
    <3> QED
      BY <1>2, <1>5, <3>2, <3>3 DEF Due
  <2>10. UNCHANGED sums => NoMore(b) /\ SameCounted(d, b) /\ SameBooked(d, b)
    BY <2>3 DEF sums, NoMore, SameCounted, SameBooked
  <2>11. CASE at[w] \in {"tally", "weigh"}
    <3>1. UNCHANGED sums
      BY <1>1, <2>11 DEF Funds
    <3>2. CASE \E from \in {"tally", "weigh"} : \E to \in {"weigh", "fund"} : Calls(w, from, to)
      <4>1. Working(Monitor)' /\ Job(Monitor)' = c /\ at'[Monitor] \in {"weigh", "fund"}
        BY <2>1, <2>8, <3>2
      <4>2. ~Counts(c) /\ ~Counts(c)' /\ ~Minted(c)'
        BY <2>1, <2>11, <4>1 DEF Counts, MintedPast, Minted, Tallying
      <4> QED
        BY <2>6, <2>10, <3>1, <4>2 DEF Keeps, SameMint
    <3>3. CASE Leaves(w, "tally") /\ (scheduled = {} \/ "refused" \in excuse'[Job(w)])
      <4>1. scheduled = {} /\ scheduled' = scheduled
        BY <1>1, <1>5, <3>1, <3>3 DEF sums
      <4> QED
        BY <2>1, <2>6, <2>7, <2>10, <3>1, <3>3, <4>1 DEF LeavesMint
    <3>4. CASE /\ Leaves(w, "weigh")
               /\ ~(FindsPosition(Job(w)) /\ Due(w)) \/ "refused" \in excuse'[Job(w)]
      <4>1. ~Due(w) /\ buyout[w] # 0
        BY <1>1, <1>5, <2>5, <3>4 DEF Leaves, FitsJob
      <4>2. chain[b].date < chain[d].date
        BY <1>2, <2>9, <4>1
      <4> QED
        BY <2>1, <2>6, <2>7, <2>10, <3>1, <3>4, <4>2 DEF LeavesMint
    <3> QED
      BY <2>2, <2>11, <3>2, <3>3, <3>4 DEF Tallied, Calls, Leaves
  <2>12. CASE at[w] \in {"fund", "book"}
    <3>1. buyout[w] = b /\ ~Late(d, b)
      <4>1. buyout[w] # 0 /\ Due(w)
        BY <1>1, <2>12 DEF FitsJob
      <4>2. ~(chain[b].date < chain[d].date)
        BY <1>2, <2>9, <4>1
      <4> QED
        BY <2>9, <4>1, <4>2 DEF Late
    <3>2. CASE at[w] = "fund"
      <4>1. Calls(Monitor, "fund", "book")
        BY <2>1, <2>2, <3>2 DEF Tallied, Calls, Leaves
      <4>2. at'[Monitor] = "book" /\ Working(Monitor)' /\ Job(Monitor)' = c
        BY <2>8, <4>1
      <4>3. ~Counts(c) /\ Counts(c)' /\ ~Minted(c)'
        BY <2>1, <2>3, <2>4, <3>2, <4>2 DEF Counts, MintedPast, Minted, Tallying
      <4>4. Funded(w)
        BY <1>1, <1>5, <3>2 DEF Funds
      <4>5. counted'[b][Place(d)] = counted[b][Place(d)] + 1
        <5>1. counted' = [counted EXCEPT ![b][Place(d)] = @ + 1]
          BY <1>2, <1>5, <3>1, <4>4 DEF Funded
        <5> QED
          BY <1>1, <1>2, <5>1 DEF StoreOK
      <4>6. NoMore(b) /\ SameBooked(d, b)
        BY <4>4 DEF Funded, NoMore, SameBooked
      <4> QED
        BY <2>6, <3>1, <4>3, <4>5, <4>6 DEF FundsMint
    <3>3. CASE at[w] = "book"
      <4>1. Leaves(Monitor, "book")
        BY <2>1, <2>2, <3>3 DEF Tallied, Calls, Leaves
      <4>2. Counts(c)
        BY <2>1, <2>4, <3>3 DEF Counts, MintedPast
      <4>3. Booked(w)
        BY <1>1, <1>5, <3>3 DEF Funds
      <4>4. NoMore(b) /\ SameCounted(d, b)
        BY <4>3 DEF Booked, NoMore, SameCounted
      <4>5. b \in buyouts => booked'[b][Place(d)] = booked[b][Place(d)] + 1
        <5> SUFFICES ASSUME b \in buyouts
                     PROVE  booked'[b][Place(d)] = booked[b][Place(d)] + 1
          OBVIOUS
        <5>1. \A i \in buyouts : i = b
          BY <1>1, <1>2 DEF HistoryFits, StoreOK
        <5>2. {i \in buyouts : chain[i].date = chain[buyout[w]].date} = {b}
          BY <3>1, <5>1
        <5>3. booked' = [booked EXCEPT ![b][Place(d)] = @ + 1]
          BY <1>2, <1>5, <4>3, <5>2 DEF Booked
        <5> QED
          BY <1>1, <1>2, <5>3 DEF StoreOK
      <4> QED
        BY <2>6, <2>7, <3>1, <4>1, <4>2, <4>4, <4>5 DEF BooksMint
    <3> QED
      BY <2>12, <3>2, <3>3
  <2> QED
    BY <1>5, <2>11, <2>12
\* The schedule.
<1>6. CASE Job(w) = b /\ at[w] = "create"
  <2>1. w = Monitor /\ Listing(b) /\ Working(Monitor) /\ Job(Monitor) = b
    BY <1>1, <1>3, <1>6 DEF Listing
  <2>2. Created(w)
    BY <1>1, <1>6 DEF Handles, Searched, Skipped, Entered, Listed, Created, Failed, Applied, Tallied,
       Calls, Leaves
  <2>3. Leaves(Monitor, "create") /\ done' = done
    BY <1>2, <1>6, <2>1, <2>2 DEF Created
  <2>4. ~Beyond(Monitor, b)' /\ ~Tallying(c)' /\ ~Tallying(c)
    BY <1>1, <1>2, <2>1, <2>3, LeavesFresh DEF Tallying
  <2>5. SameMint(c)
    BY <2>3, <2>4 DEF SameMint, Counts, MintedPast, Minted, Tallying
  <2>6. /\ b \in docs' /\ counted' = [counted EXCEPT ![b] = SumOf(list[Monitor])]
        /\ UNCHANGED <<buyouts, booked>>
    BY <1>1, <1>2, <1>6, <2>1 DEF Funds
  <2>7. counted'[b] = SumOf(list[Monitor]) /\ SameBooked(d, b)
    BY <1>1, <2>6 DEF StoreOK, SameBooked
  <2> QED
    BY <2>1, <2>4, <2>5, <2>6, <2>7 DEF Stores
\* The buyout.
<1>7. CASE Job(w) = b /\ at[w] = "apply"
  <2>1. w = Monitor /\ Listing(b) /\ Working(Monitor) /\ Job(Monitor) = b
    BY <1>1, <1>3, <1>7 DEF Listing
  <2>2. Calls(Monitor, "apply", "create") /\ Effect(b, list[Monitor])
    BY <1>1, <1>2, <1>7, <2>1 DEF Handles, Searched, Skipped, Entered, Listed, Created, Failed, Applied,
       Tallied, Calls, Leaves
  <2>3. /\ Working(Monitor)' /\ Job(Monitor)' = b /\ at'[Monitor] = "create"
        /\ list'[Monitor] = list[Monitor]
    BY <1>1, <1>7, <2>1, <2>2 DEF Calls, Working, Job, Funds
  <2>4. Listing(b)' /\ ~Tallying(c)' /\ ~Tallying(c)
    BY <1>2, <2>1, <2>3 DEF Listing, Tallying
  <2>5. done'[c] = done[c]
    BY <1>2, <1>7 DEF Handles
  <2>6. SameMint(c)
    BY <2>4, <2>5 DEF SameMint, Counts, MintedPast, Minted, Tallying
  <2>7. /\ booked' = [booked EXCEPT ![b] = SumOf(list[Monitor])]
        /\ counted' = counted /\ docs' = docs /\ scheduled' = scheduled
    BY <1>2, <2>2 DEF Effect
  <2>8. booked'[b] = SumOf(list[Monitor]) /\ SameCounted(d, b)
    BY <1>1, <2>7 DEF StoreOK, SameCounted
  <2> QED
    BY <2>1, <2>3, <2>4, <2>6, <2>7, <2>8 DEF Records
\* Anything else.
<1>8. CASE /\ ~(Job(w) = c /\ at[w] \in {"tally", "weigh", "fund", "book"})
           /\ ~(Job(w) = b /\ at[w] \in {"create", "apply"})
  <2>1. /\ SameCounted(d, b) /\ SameBooked(d, b)
        /\ (b \in scheduled' => b \in scheduled) /\ (b \in buyouts' => b \in buyouts)
    <3>1. CASE at[w] = "apply" /\ Effect(Job(w), list[w])
      <4>1. chain[Job(w)].kind # "BuyoutScheduled"
        BY <1>1, <1>2, <1>8, <3>1
      <4> QED
        BY <3>1, <4>1 DEF Effect, SameCounted, SameBooked
    <3>2. CASE UNCHANGED sums
      BY <3>2 DEF sums, SameCounted, SameBooked
    <3>3. CASE at[w] = "fund" /\ Funded(w)
      <4>1. chain[Job(w)].kind = "CLGPUTokensTransferred" /\ Job(w) # c
        BY <1>1, <1>8, <3>3 DEF FitsJob
      <4>2. Place(Job(w)) # Place(d)
        BY <1>1, <1>2, <4>1
      <4>3. counted' = [counted EXCEPT ![buyout[w]][Place(Job(w))] = @ + 1]
        BY <3>3 DEF Funded
      <4>4. SameCounted(d, b)
        BY <1>1, <1>2, <4>2, <4>3 DEF StoreOK, SameCounted
      <4> QED
        BY <3>3, <4>4 DEF Funded, SameBooked
    <3>4. CASE at[w] = "book" /\ Booked(w)
      <4>1. chain[Job(w)].kind = "CLGPUTokensTransferred" /\ Job(w) # c
        BY <1>1, <1>8, <3>4 DEF FitsJob
      <4>2. Place(Job(w)) # Place(d)
        BY <1>1, <1>2, <4>1
      <4>3. booked' = booked \/ \E i \in buyouts : booked' = [booked EXCEPT ![i][Place(Job(w))] = @ + 1]
        BY <3>4 DEF Booked
      <4>4. SameBooked(d, b)
        <5>1. booked \in [Index -> [Holding -> Nat]]
          BY <1>1 DEF StoreOK
        <5>2. ASSUME NEW i \in buyouts, booked' = [booked EXCEPT ![i][Place(Job(w))] = @ + 1]
              PROVE  booked'[b][Place(d)] = booked[b][Place(d)]
          BY <1>2, <4>2, <5>1, <5>2
        <5> QED
          BY <4>3, <5>2 DEF SameBooked
      <4> QED
        BY <3>4, <4>4 DEF Booked, SameCounted
    <3>5. ~(at[w] = "create" /\ chain[Job(w)].kind = "BuyoutScheduled")
      BY <1>1, <1>2, <1>8
    <3>6. \/ UNCHANGED sums
          \/ at[w] = "apply" /\ Effect(Job(w), list[w])
          \/ at[w] = "fund" /\ Funded(w)
          \/ at[w] = "book" /\ Booked(w)
      BY <1>1, <3>5 DEF Funds
    <3> QED
      BY <3>1, <3>2, <3>3, <3>4, <3>6
  <2>2. b \in docs' => b \in docs
    <3> SUFFICES ASSUME b \in docs', b \notin docs
                 PROVE  FALSE
      OBVIOUS
    <3>1. Job(w) = b /\ docs' # docs
      BY DEF Handles
    <3>2. at[w] = "create"
      BY <1>1, <3>1 DEF Handles, Searched, Skipped, Entered, Listed, Created, Failed, Applied, Tallied,
         Kept, Effect, Calls, Leaves
    <3> QED
      BY <1>8, <3>1, <3>2
  <2>3. SameMint(c)
    <3>1. CASE Job(w) = c
      <4>1. w = Monitor /\ at[w] = "apply"
        <5>1. mode[Monitor] = "none" /\ w = Monitor /\ at[w] \in Call /\ at[w] # "idle"
          BY <1>1, <1>3, <3>1 DEF ControlFits, WorkersOK, Working
        <5> QED
          BY <1>1, <1>2, <1>8, <3>1, <5>1 DEF FitsJob, Call
      <4>2. Calls(w, "apply", "tally") /\ Effect(c, list[w])
        BY <1>1, <1>2, <3>1, <4>1 DEF Handles, Searched, Skipped, Entered, Listed, Created, Failed,
           Applied, Tallied, Calls, Leaves
      <4>3. done[c] = 0
        <5>1. done'[c] = IF FindsPosition(c) THEN done[c] + 1 ELSE done[c]
          BY <1>1, <1>2, <4>2, EffectMeans
        <5>2. ~FindsPosition(c) => done[c] = 0
          BY <1>1, <1>2 DEF FindsPosition, HistoryFits, Placed
        <5> QED
          BY <1>1, <5>1, <5>2
      <4>4. Working(Monitor)' /\ Job(Monitor)' = c /\ at'[Monitor] = "tally"
        BY <1>1, <3>1, <4>1, <4>2 DEF Calls, Working, Job
      <4>5. ~Counts(c)' /\ ~Minted(c)'
        BY <4>4 DEF Counts, MintedPast, Minted, Tallying
      <4> QED
        BY <4>3, <4>5 DEF SameMint, Counts, MintedPast, Minted
    <3>2. CASE Job(w) # c
      <4>1. done'[c] = done[c]
        BY <3>2 DEF Handles
      <4>2. CASE w # Monitor
        <5>1. todo'[Monitor] = todo[Monitor] /\ at'[Monitor] = at[Monitor]
          BY <1>1, <4>2, TwoWorkers DEF Alone
        <5> QED
          BY <4>1, <5>1 DEF SameMint, Counts, MintedPast, Minted, Tallying, Working, Job
      <4>3. CASE w = Monitor
        <5>1. ~Tallying(c) /\ ~Tallying(c)'
          BY <3>2, <4>3, MonitorMoves DEF Tallying
        <5> QED
          BY <4>1, <5>1 DEF SameMint, Counts, MintedPast, Minted, Tallying
      <4> QED
        BY <4>2, <4>3
    <3> QED
      BY <3>1, <3>2
  <2> QED
    BY <2>1, <2>2, <2>3 DEF Keeps, NoMore
<1> QED
  BY <1>5, <1>6, <1>7, <1>8

\* What FundingFollows says of one purchase.
FundedOnce(d, c, b) == IF b < d THEN AddedLater(d, c, b) ELSE ListedBefore(d, c, b)

LEMMA FundingEach ==
  /\ FundingFollows <=> \A d, c, b \in Index :
                          Purchase(d, c, b) /\ Undisturbed(d, c, b) => FundedOnce(d, c, b)
  /\ FundingFollows' <=> \A d, c, b \in Index' :
                          Purchase(d, c, b)' /\ Undisturbed(d, c, b)' => FundedOnce(d, c, b)'
BY DEF FundingFollows, FundedOnce

LEMMA AddedMeans ==
  ASSUME NEW d, NEW c, NEW b
  PROVE  AddedLater(d, c, b) <=>
           /\ d \in Logs(todo[Monitor]) \/ d \in docs \/ Placed(d) => b \in docs
           /\ Beyond(Monitor, b) => b \notin docs
           /\ Listing(b) => Place(d) \notin list[Monitor]
           /\ b \in buyouts => Beyond(Monitor, b) \/ b \in docs
           /\ b \in scheduled =>
                counted[b][Place(d)] = IF Counts(c) /\ ~Late(d, b) THEN 1 ELSE 0
           /\ b \in buyouts /\ b \in docs /\ b \in scheduled =>
                booked[b][Place(d)] = IF Minted(c) /\ ~Late(d, b) THEN 1 ELSE 0
           /\ b \in buyouts /\ Beyond(Monitor, b) => booked[b][Place(d)] = 0
BY DEF AddedLater, Counts, Minted, MintedPast, Tallying

LEMMA AddedMeansNext ==
  ASSUME NEW d, NEW c, NEW b, UNCHANGED chain
  PROVE  AddedLater(d, c, b)' <=>
           /\ d \in Logs(todo'[Monitor]) \/ d \in docs' \/ Placed(d)' => b \in docs'
           /\ Beyond(Monitor, b)' => b \notin docs'
           /\ Listing(b)' => Place(d) \notin list'[Monitor]
           /\ b \in buyouts' => Beyond(Monitor, b)' \/ b \in docs'
           /\ b \in scheduled' =>
                counted'[b][Place(d)] = IF Counts(c)' /\ ~Late(d, b) THEN 1 ELSE 0
           /\ b \in buyouts' /\ b \in docs' /\ b \in scheduled' =>
                booked'[b][Place(d)] = IF Minted(c)' /\ ~Late(d, b) THEN 1 ELSE 0
           /\ b \in buyouts' /\ Beyond(Monitor, b)' => booked'[b][Place(d)] = 0
<1>1. Place(d)' = Place(d) /\ (Late(d, b)' <=> Late(d, b))
  BY DEF Place, Late
<1>2. MintedPast(c, {"tally", "weigh", "fund"})' <=> Counts(c)'
  BY DEF Counts
<1>3. MintedPast(c, {"tally", "weigh", "fund", "book"})' <=> Minted(c)'
  BY DEF Minted, MintedPast, Tallying
<1> QED
  BY <1>1, <1>2, <1>3 DEF AddedLater, Logs

\* A step of a handler keeps the funding exact.
LEMMA FundingHandled ==
  ASSUME TypeOK, ControlFits, MonitorInOrder, HistoryFits, LossesAccounted, Grows, TypeOK',
         NEW w \in Worker, Handles(w),
         NEW d \in Index, NEW c \in Index, NEW b \in Index, Purchase(d, c, b),
         Undisturbed(d, c, b), Undisturbed(d, c, b)', FundedOnce(d, c, b)
  PROVE  FundedOnce(d, c, b)'
<1> DEFINE p == Place(d)
<1>1. /\ chain \in Chains /\ chain' = chain /\ docs \subseteq docs' /\ Index \subseteq Nat
      /\ p \in Holding /\ p' = p /\ ComputeLabs(d) /\ (b < d <=> b < c) /\ c # b
  BY AllTypes, Purchased, TheChain DEF Grows, Place
<1>2. \/ FundsMint(d, c, b) \/ BooksMint(d, c, b) \/ LeavesMint(d, c, b)
      \/ Records(d, c, b) \/ Stores(d, c, b) \/ Keeps(d, c, b)
  BY HandledFunds
<1>3. /\ Beyond(Monitor, b)' => Beyond(Monitor, b) \/ (b \notin docs /\ docs' = docs)
      /\ Beyond(Monitor, b) => Beyond(Monitor, b)' \/ b \in docs'
      /\ Listing(b)' => (Listing(b) /\ list'[Monitor] = list[Monitor]) \/ Lists(b)
  BY MonitorMoves
<1>4. /\ d \in Logs(todo'[Monitor]) \/ d \in docs' \/ Placed(d)' =>
           d \in Logs(todo[Monitor]) \/ d \in docs \/ Placed(d)
      /\ position[p] = "completed" => position'[p] = "completed"
  BY DepositArrives
<1>5. (Listing(b) => Beyond(Monitor, b)) /\ (Listing(b)' => Beyond(Monitor, b)')
  BY DEF Listing, Beyond
<1>6. b \in scheduled => b \in docs
  BY DEF HistoryFits
<1>7. position[p] \in {"none", "active", "completed"} /\ (Placed(d) <=> position[p] # "none")
  BY <1>1, AllTypes DEF StoreOK, Placed
<1>8. Minted(c) \/ Counts(c) => Placed(d)
  <2>1. chain[c].kind \in Mints /\ Place(c) = p
    BY <1>1, Purchased
  <2> QED
    BY <2>1 DEF Minted, Counts, MintedPast, HistoryFits, Placed
<1>9. Lists(b) => Beyond(Monitor, b) /\ ~Tallying(c)
  BY <1>1 DEF Lists, Beyond, Tallying
<1>10. SumOf(list[Monitor])[p] = IF p \in list[Monitor] THEN 1 ELSE 0
  BY <1>1 DEF SumOf
<1>11. BooksMint(d, c, b) => ~Beyond(Monitor, b)
  BY DEF BooksMint, Minted, Counts, MintedPast, Tallying, Beyond
<1> HIDE DEF p
\* The deposit comes after the buyout.
<1>12. CASE b < d
  <2>1. /\ d \in Logs(todo[Monitor]) \/ d \in docs \/ Placed(d) => b \in docs
        /\ Beyond(Monitor, b) => b \notin docs
        /\ Listing(b) => p \notin list[Monitor]
        /\ b \in buyouts => Beyond(Monitor, b) \/ b \in docs
        /\ b \in scheduled => counted[b][p] = IF Counts(c) /\ ~Late(d, b) THEN 1 ELSE 0
        /\ b \in buyouts /\ b \in docs /\ b \in scheduled =>
             booked[b][p] = IF Minted(c) /\ ~Late(d, b) THEN 1 ELSE 0
        /\ b \in buyouts /\ Beyond(Monitor, b) => booked[b][p] = 0
    BY <1>12, AddedMeans DEF FundedOnce, p
  <2>2. d \in Logs(todo'[Monitor]) \/ d \in docs' \/ Placed(d)' => b \in docs'
    BY <1>1, <1>4, <2>1
  <2>3. Beyond(Monitor, b)' => b \notin docs'
    BY <1>2, <1>3, <2>1 DEF FundsMint, BooksMint, LeavesMint, Records, Stores, Keeps, NoMore
  <2>4. Listing(b)' => p \notin list'[Monitor]
    <3>1. CASE Lists(b)
      <4>1. ~Placed(d)
        BY <1>9, <2>1, <3>1
      <4> QED
        BY <1>7, <3>1, <4>1 DEF Lists
    <3> QED
      BY <1>3, <2>1, <3>1
  <2>5. b \in buyouts' => Beyond(Monitor, b)' \/ b \in docs'
    <3>1. b \in buyouts' => b \in buyouts \/ Listing(b)'
      BY <1>2 DEF FundsMint, BooksMint, LeavesMint, Records, Stores, Keeps, NoMore
    <3> QED
      BY <1>1, <1>3, <1>5, <2>1, <3>1
  <2>6. Stores(d, c, b) \/ Records(d, c, b) =>
          p \notin list[Monitor] /\ ~Counts(c) /\ ~Minted(c) /\ b \notin docs
    BY <1>5, <1>8, <2>1 DEF Stores, Records
  <2>7. b \in scheduled' => counted'[b][p] = IF Counts(c)' /\ ~Late(d, b) THEN 1 ELSE 0
    <3>1. CASE FundsMint(d, c, b) \/ BooksMint(d, c, b)
      BY <2>1, <3>1 DEF FundsMint, BooksMint, NoMore, SameCounted, p
    <3>2. CASE LeavesMint(d, c, b)
      BY <1>12, <2>1, <3>2 DEF LeavesMint, NoMore, SameCounted, Late, p
    <3>3. CASE Records(d, c, b) \/ Keeps(d, c, b)
      BY <2>1, <3>3 DEF Records, Keeps, NoMore, SameCounted, SameMint, p
    <3>4. CASE Stores(d, c, b)
      BY <1>10, <2>6, <3>4 DEF Stores, SameMint, p
    <3> QED
      BY <1>2, <3>1, <3>2, <3>3, <3>4
  <2>8. b \in buyouts' /\ b \in docs' /\ b \in scheduled' =>
          booked'[b][p] = IF Minted(c)' /\ ~Late(d, b) THEN 1 ELSE 0
    <3>1. CASE FundsMint(d, c, b) \/ BooksMint(d, c, b)
      BY <2>1, <3>1 DEF FundsMint, BooksMint, NoMore, SameBooked, p
    <3>2. CASE LeavesMint(d, c, b)
      BY <1>12, <2>1, <3>2 DEF LeavesMint, NoMore, SameBooked, Late, p
    <3>3. CASE Records(d, c, b)
      BY <2>6, <3>3 DEF Records
    <3>4. CASE Keeps(d, c, b)
      BY <2>1, <3>4 DEF Keeps, NoMore, SameBooked, SameMint, p
    <3>5. CASE Stores(d, c, b)
      BY <1>5, <2>1, <2>6, <3>5 DEF Stores, SameBooked, SameMint, p
    <3> QED
      BY <1>2, <3>1, <3>2, <3>3, <3>4, <3>5
  <2>9. b \in buyouts' /\ Beyond(Monitor, b)' => booked'[b][p] = 0
    <3>1. CASE FundsMint(d, c, b) \/ LeavesMint(d, c, b) \/ Keeps(d, c, b)
      <4>1. booked'[b][p] = booked[b][p] /\ (b \in buyouts' => b \in buyouts)
        BY <3>1 DEF FundsMint, LeavesMint, Keeps, NoMore, SameBooked, p
      <4> QED
        BY <1>3, <2>1, <4>1
    <3>2. CASE BooksMint(d, c, b)
      <4>1. b \in buyouts' => b \in buyouts
        BY <3>2 DEF BooksMint, NoMore
      <4> QED
        BY <1>3, <1>11, <2>1, <3>2, <4>1
    <3>3. CASE Records(d, c, b)
      BY <1>10, <2>6, <3>3 DEF Records, p
    <3>4. CASE Stores(d, c, b)
      BY <3>4 DEF Stores
    <3> QED
      BY <1>2, <3>1, <3>2, <3>3, <3>4
  <2> QED
    BY <1>1, <1>12, <2>2, <2>3, <2>4, <2>5, <2>7, <2>8, <2>9, AddedMeansNext DEF FundedOnce, p
\* The deposit comes before the buyout.
<1>13. CASE ~(b < d)
  <2>1. /\ b \in docs \cup buyouts \/ Listing(b) => Minted(c)
        /\ Listing(b) => p \in list[Monitor] \/ position[p] = "completed"
        /\ b \in scheduled => counted[b][p] = 1 \/ position[p] = "completed"
        /\ b \in buyouts => booked[b][p] = 1 \/ position[p] = "completed"
    BY <1>13 DEF FundedOnce, ListedBefore, p
  <2>2. Lists(b) => Minted(c) /\ Placed(d)
    <3> SUFFICES ASSUME Lists(b)
                 PROVE  done[c] = 1 /\ Placed(d)
      BY <1>9 DEF Minted
    <3>1. c < b
      BY <1>1, <1>13
    <3> QED
      BY <3>1, MintBefore DEF Lists
  <2>3. ~Minted(c) => b \notin docs \cup buyouts \cup scheduled /\ ~Listing(b)'
    BY <1>3, <1>6, <2>1, <2>2
  <2>4. b \in docs' \cup buyouts' \/ Listing(b)' => Minted(c)'
    <3>1. CASE FundsMint(d, c, b)
      BY <2>3, <3>1 DEF FundsMint, NoMore
    <3>2. CASE BooksMint(d, c, b) \/ LeavesMint(d, c, b)
      BY <3>2 DEF BooksMint, LeavesMint
    <3>3. CASE Records(d, c, b) \/ Stores(d, c, b)
      BY <2>1, <3>3 DEF Records, Stores, SameMint
    <3>4. CASE Keeps(d, c, b)
      BY <2>1, <2>3, <3>4 DEF Keeps, SameMint, NoMore
    <3> QED
      BY <1>2, <3>1, <3>2, <3>3, <3>4
  <2>5. Listing(b)' => p \in list'[Monitor] \/ position'[p] = "completed"
    <3>1. CASE Lists(b)
      <4>1. p[2] = "compute_labs"
        BY <1>1 DEF ComputeLabs, Place, p
      <4>2. position' = position /\ (position[p] = "active" => p \in list'[Monitor])
        BY <1>1, <3>1, <4>1 DEF Lists, Kept
      <4> QED
        BY <1>7, <2>2, <3>1, <4>2
    <3> QED
      BY <1>3, <1>4, <2>1, <3>1
  <2>6. b \in scheduled' => counted'[b][p] = 1 \/ position'[p] = "completed"
    <3>1. CASE FundsMint(d, c, b) \/ BooksMint(d, c, b) \/ LeavesMint(d, c, b)
      BY <2>3, <3>1 DEF FundsMint, BooksMint, LeavesMint, NoMore
    <3>2. CASE Records(d, c, b) \/ Keeps(d, c, b)
      BY <1>4, <2>1, <3>2 DEF Records, Keeps, NoMore, SameCounted, p
    <3>3. CASE Stores(d, c, b)
      BY <1>4, <1>10, <2>1, <3>3 DEF Stores, p
    <3> QED
      BY <1>2, <3>1, <3>2, <3>3
  <2>7. b \in buyouts' => booked'[b][p] = 1 \/ position'[p] = "completed"
    <3>1. CASE FundsMint(d, c, b) \/ BooksMint(d, c, b) \/ LeavesMint(d, c, b)
      BY <2>3, <3>1 DEF FundsMint, BooksMint, LeavesMint, NoMore
    <3>2. CASE Stores(d, c, b) \/ Keeps(d, c, b)
      BY <1>4, <2>1, <3>2 DEF Stores, Keeps, NoMore, SameBooked, p
    <3>3. CASE Records(d, c, b)
      BY <1>4, <1>10, <2>1, <3>3 DEF Records, p
    <3> QED
      BY <1>2, <3>1, <3>2, <3>3
  <2> QED
    BY <1>1, <1>13, <2>4, <2>5, <2>6, <2>7 DEF FundedOnce, ListedBefore, p
<1> QED
  BY <1>12, <1>13

LEMMA FundingInit == Init => FundingFollows
<1> SUFFICES ASSUME Init, NEW d \in Index, NEW c \in Index, NEW b \in Index, Purchase(d, c, b)
             PROVE  FundedOnce(d, c, b)
  BY FundingEach
<1>1. /\ chain \in Chains /\ scheduled = {} /\ buyouts = {} /\ docs = {} /\ todo[Monitor] = << >>
      /\ \A p \in Holding : position[p] = "none"
  BY TwoWorkers DEF Init, HandlersInit
<1>2. ~Working(Monitor) /\ Logs(todo[Monitor]) = {}
  BY <1>1 DEF Working, Logs
<1>3. ~Placed(d)
  BY <1>1, Purchased DEF Placed
<1> QED
  BY <1>1, <1>2, <1>3 DEF FundedOnce, AddedLater, ListedBefore, Beyond, Listing

\* A step that leaves the store alone, and the monitor before and after it outside
\* the handlers of the buyout and the funding.
LEMMA FundedStill ==
  ASSUME UNCHANGED <<chain, store>>, NEW d, NEW c, NEW b, FundedOnce(d, c, b),
         ~Beyond(Monitor, b), ~Beyond(Monitor, b)', ~Tallying(c), ~Tallying(c)',
         b < d /\ d \in Logs(todo'[Monitor]) => b \in docs
  PROVE  FundedOnce(d, c, b)'
<1>1. UNCHANGED <<chain, docs, done, position, scheduled, counted, buyouts, booked>>
  BY DEF store, holdings, sums
<1>2. ~Listing(b)'
  BY DEF Listing, Beyond
<1>3. (Counts(c)' <=> Counts(c)) /\ (Minted(c)' <=> Minted(c)) /\ (Placed(d)' <=> Placed(d))
  BY <1>1 DEF Counts, MintedPast, Minted, Tallying, Placed, Place
<1>4. CASE b < d
  BY <1>1, <1>2, <1>3, <1>4, AddedMeans, AddedMeansNext DEF FundedOnce
<1>5. CASE ~(b < d)
  BY <1>1, <1>2, <1>3, <1>5 DEF FundedOnce, ListedBefore, Place
<1> QED
  BY <1>4, <1>5

LEMMA FundingStep ==
  ASSUME TypeOK, ControlFits, MonitorInOrder, EffectsOnce, LossesAccounted, HistoryFits,
         FundingFollows, [Next]_vars
  PROVE  FundingFollows'
<1>1. TypeOK' /\ Grows
  BY NextMeans
<1>2. /\ chain \in Chains /\ StoreOK /\ WorkersOK /\ chain' = chain /\ Index' = Index
  BY <1>1, AllTypes DEF Grows, Index
<1> SUFFICES ASSUME NEW d \in Index, NEW c \in Index, NEW b \in Index,
                    Purchase(d, c, b)', Undisturbed(d, c, b)'
             PROVE  FundedOnce(d, c, b)'
  BY <1>2, FundingEach
<1>3. Purchase(d, c, b)
  BY <1>2 DEF Purchase, ComputeLabs, Place, Twin
<1>4. Undisturbed(d, c, b)
  <2>1. done[c] \in Nat /\ done'[c] \in Nat /\ done'[c] >= done[c] /\ done'[c] <= 1
    BY <1>1, <1>2, AllTypesNext DEF Grows, StoreOK, Undisturbed
  <2>2. \A i \in {d, c, b} : excuse[i] \subseteq excuse'[i]
    BY <1>1 DEF Grows
  <2> QED
    BY <2>1, <2>2 DEF Undisturbed, Mishaps
<1>5. FundedOnce(d, c, b)
  BY <1>3, <1>4, FundingEach
<1>6. CASE \E w \in Worker : Handles(w)
  BY <1>1, <1>3, <1>4, <1>5, <1>6, FundingHandled
<1>7. ASSUME UNCHANGED store, todo'[Monitor] = todo[Monitor], at'[Monitor] = at[Monitor],
             list'[Monitor] = list[Monitor]
      PROVE  FundedOnce(d, c, b)'
  <2>1. /\ Beyond(Monitor, b)' <=> Beyond(Monitor, b)
        /\ Listing(b)' <=> Listing(b)
    BY <1>7 DEF Beyond, Listing, Working, Job
  <2>2. UNCHANGED <<chain, docs, done, position, scheduled, counted, buyouts, booked>>
    BY <1>2, <1>7 DEF store, holdings, sums
  <2>3. (Counts(c)' <=> Counts(c)) /\ (Minted(c)' <=> Minted(c)) /\ (Placed(d)' <=> Placed(d))
    BY <1>7, <2>2 DEF Counts, MintedPast, Minted, Tallying, Placed, Place, Working, Job
  <2>4. CASE b < d
    BY <1>5, <1>7, <2>1, <2>2, <2>3, <2>4, AddedMeans, AddedMeansNext DEF FundedOnce
  <2>5. CASE ~(b < d)
    BY <1>5, <1>7, <2>1, <2>2, <2>3, <2>5 DEF FundedOnce, ListedBefore, Place
  <2> QED
    BY <2>4, <2>5
<1>8. CASE Starts \/ Saves \/ GoesBack \/ \E m, s : Serves(m, s)
  BY <1>7, <1>8 DEF Starts, Saves, GoesBack, Serves, workers, findings
<1>9. CASE \E e, added : Batches(e, added)
  <2>1. PICK e, added : Batches(e, added)
    BY <1>9
  <2> DEFINE s == todo'[Monitor]
  <2>2. /\ ~Working(Monitor) /\ UNCHANGED store /\ s \in Seq(Index)
        /\ at'[Monitor] = Ready("none", s) /\ Logs(s) \subseteq Batch(e)
        /\ \A i \in Hoisted(Logs(s)) : "hoisted" \in excuse'[i]
        /\ \A i \in Batch(e) : i \in Logs(s) \/ excuse'[i] \cap {"cut", "unwatched"} # {}
    BY <2>1 DEF Batches
  <2>3. /\ chain[d].kind \in Deposits /\ chain[b].kind = "BuyoutScheduled"
        /\ "hoisted" \notin excuse'[d] /\ Mishaps(b)' = {}
    BY <1>2, <1>3, Purchased DEF Undisturbed
  <2>4. ~Beyond(Monitor, b)' /\ ~Tallying(c)'
    <3> SUFFICES ASSUME Working(Monitor)'
                 PROVE  /\ Job(Monitor)' = b => at'[Monitor] \notin {"list", "apply", "create"}
                        /\ at'[Monitor] \notin {"tally", "weigh", "fund", "book"}
      BY DEF Beyond, Tallying
    <3>1. s # << >> /\ "none" \in Mode /\ Job(Monitor)' = Head(s)
      BY DEF Working, Mode, Job
    <3> HIDE DEF s
    <3>2. at'[Monitor] = FirstCall(Head(s)) /\ chain[Head(s)].kind \in Signature
      BY <1>2, <2>2, <3>1, ReadyType, TailLogs, TheChain
    <3>3. /\ FirstCall(Head(s)) \in {"apply", "create", "check"}
          /\ Head(s) = b => FirstCall(Head(s)) = "check"
      BY <2>3, <3>2, FirstCalls DEF Mints, StatusEvents
    <3> QED
      BY <3>1, <3>2, <3>3
  <2>5. ~Tallying(c) /\ ~Beyond(Monitor, b)
    BY <2>2 DEF Tallying, Beyond
  <2>6. ASSUME b < d, d \in Logs(s)
        PROVE  b \in docs
    <3>1. b \notin Logs(s)
      BY <2>2, <2>3, <2>6 DEF Hoisted
    <3>2. b \notin Batch(e)
      BY <2>2, <2>3, <3>1 DEF Mishaps
    <3>3. /\ chain[d].tx \in next..e /\ chain[b].tx \in Nat /\ chain[d].tx \in Nat /\ next \in Nat
          /\ e \in Nat /\ chain[b].tx <= chain[d].tx
      <4>1. chain \in Chains /\ next \in Nat
        BY AllTypes DEF ListenerOK
      <4>2. /\ chain[b].tx \in Nat /\ chain[d].tx \in Nat /\ chain[b].tx <= chain[d].tx
        BY <2>6, <4>1, TheChain
      <4>3. e \in Nat /\ chain[d].tx \in next..e
        BY <1>2, <2>1, <2>2, <2>6, <4>1, TheHeight DEF Batch, Batches
      <4> QED
        BY <4>1, <4>2, <4>3
    <3>4. chain[b].tx < next
      BY <3>2, <3>3 DEF Batch
    <3> QED
      BY <1>3, <1>4, <2>2, <3>4, ScheduleStored DEF Reached
  <2> QED
    BY <1>2, <1>5, <2>2, <2>4, <2>5, <2>6, FundedStill
<1>10. CASE \E i : Replays(i)
  <2>1. PICK i : Replays(i)
    BY <1>10
  <2>2. /\ i \in docs /\ i \in Index /\ Effect(i, {}) /\ UNCHANGED workers
        /\ chain[i].kind \notin Mints /\ chain[i].kind # "BuyoutScheduled"
    BY <2>1 DEF Replays
  <2>3. Place(d) \in Holding /\ chain[c].kind \in Mints
    BY <1>2, <1>3, Purchased
  <2>4. /\ docs' = docs /\ done'[c] = done[c] /\ counted' = counted /\ booked' = booked
        /\ scheduled' \subseteq scheduled /\ buyouts' \subseteq buyouts
        /\ position[Place(d)] = "completed" => position'[Place(d)] = "completed"
    <3>1. /\ counted' = counted /\ booked' = booked
          /\ scheduled' \subseteq scheduled /\ buyouts' \subseteq buyouts
      BY <2>2 DEF Effect
    <3>2. docs' = docs /\ done'[c] = done[c]
      BY <1>2, <2>2, <2>3, EffectMeans
    <3> QED
      BY <1>2, <2>2, <2>3, <3>1, <3>2, EffectPlaces
  <2>5. /\ Beyond(Monitor, b)' <=> Beyond(Monitor, b)
        /\ Listing(b)' <=> Listing(b)
        /\ UNCHANGED <<at, todo, list>>
    BY <2>2 DEF workers, findings, Beyond, Listing, Working, Job
  <2>6. Placed(d)' /\ ~Placed(d) => d \in docs
    <3>1. Placed(d)' <=> position'[Place(d)] # "none"
      BY <1>2 DEF Placed, Place
    <3>2. \A j \in Index : chain[j].kind \in Deposits /\ Place(j) = Place(d) => j = d
      BY <1>3 DEF Purchase
    <3> QED
      BY <1>2, <2>2, <2>3, <3>1, <3>2, EffectPlaces DEF Placed
  <2>7. (Counts(c)' <=> Counts(c)) /\ (Minted(c)' <=> Minted(c))
    BY <2>4, <2>5 DEF Counts, MintedPast, Minted, Tallying, Working, Job
  <2>8. CASE b < d
    <3>1. AddedLater(d, c, b)
      BY <1>5, <2>8 DEF FundedOnce
    <3>2. AddedLater(d, c, b)'
      BY <1>2, <2>4, <2>5, <2>6, <2>7, <3>1, AddedMeans, AddedMeansNext
    <3> QED
      BY <2>8, <3>2 DEF FundedOnce
  <2>9. CASE ~(b < d)
    BY <1>2, <1>5, <2>4, <2>5, <2>7, <2>9 DEF FundedOnce, ListedBefore, Place
  <2> QED
    BY <2>8, <2>9
<1>11. CASE Ends
  <2>1. todo'[Monitor] = << >> /\ UNCHANGED store
    BY <1>11, TwoWorkers DEF Ends
  <2>2. ~Working(Monitor)' /\ Logs(todo'[Monitor]) = {}
    BY <2>1 DEF Working, Logs
  <2>3. ~Tallying(c) /\ ~Beyond(Monitor, b)
    <3> SUFFICES ASSUME Working(Monitor) /\ Job(Monitor) \in {b, c}
                 PROVE  FALSE
      BY DEF Tallying, Beyond
    <3>1. "died" \in excuse'[Job(Monitor)]
      BY <1>11, TwoWorkers DEF Ends
    <3> QED
      BY <3>1 DEF Undisturbed, Mishaps
  <2>4. ~Beyond(Monitor, b)' /\ ~Tallying(c)'
    BY <2>2 DEF Beyond, Tallying
  <2> QED
    BY <1>2, <1>5, <2>1, <2>2, <2>3, <2>4, FundedStill
<1> QED
  BY <1>6, <1>8, <1>9, <1>10, <1>11, NextMeans

-----------------------------------------------------------------------------
(* The theorems.                                                           *)

\* The inductive invariant: what a worker is about to do fits its log, the
\* monitor's logs are in the order of the two passes, no guarded effect is
\* repeated, every loss is accounted for, the status follows the chain, and the
\* funding of a buyout follows the deposits.
THEOREM Inductive == Spec => []IInv
<1>1. Init => IInv
  BY InitType, ControlInit, OnceInit, LossesInit, StatusInit, OrderInit, HistoryInit, FundingInit
     DEF IInv
<1>2. IInv /\ [Next]_vars => IInv'
  <2> SUFFICES ASSUME IInv, [Next]_vars
               PROVE  IInv'
    OBVIOUS
  <2>1. /\ TypeOK /\ ControlFits /\ MonitorInOrder /\ EffectsOnce /\ LossesAccounted
        /\ DepositsAccounted /\ StatusFollows /\ HistoryFits /\ FundingFollows
    BY DEF IInv
  <2>2. TypeOK' /\ ControlFits' /\ MonitorInOrder' /\ EffectsOnce'
    BY <2>1, NextMeans, ControlStep, OrderStep, OnceStep
  <2>3. LossesAccounted' /\ DepositsAccounted' /\ StatusFollows'
    BY <2>1, LossesStep, DepositsStep, StatusStep
  <2>4. HistoryFits' /\ FundingFollows'
    BY <2>1, HistoryStep, FundingStep
  <2> QED
    BY <2>2, <2>3, <2>4 DEF IInv
<1> QED
  BY <1>1, <1>2, PTL DEF Spec

\* monitorVaultEvents loses no effect without one of the listed causes.
THEOREM LossesExplained == Spec => []LossExplained
<1>1. IInv => LossExplained
  <2> SUFFICES ASSUME IInv, NEW i \in Index, chain[i].tx <= synced, ~Held(i), HasEffect(i)
               PROVE  Accounted(i)
    BY DEF LossExplained
  <2>1. chain \in Chains /\ WorkersOK
    BY AllTypes DEF IInv
  <2>2. ~Awaited(i)
    BY <2>1, TwoWorkers DEF Awaited, Held
  <2>3. ~InEffect(i)
    <3>1. ASSUME NEW w \in Worker, Working(w), Job(w) = i
          PROVE  FALSE
      BY <2>1, <3>1, TheJob DEF Held
    <3> QED
      BY <3>1 DEF InEffect
  <2> QED
    BY <2>2, <2>3 DEF IInv, LossesAccounted, Reached
<1> QED
  BY <1>1, Inductive, PTL

\* The duplicate check keeps every guarded effect from being repeated, but for
\* the listed causes.
THEOREM DoublesExplained == Spec => []DoubleExplained
<1>1. IInv => DoubleExplained
  <2> SUFFICES ASSUME IInv, NEW i \in Index, done[i] > 1, Once(i)
               PROVE  FALSE
    BY DEF DoubleExplained, Once
  <2>1. done[i] \in Nat
    BY AllTypes DEF IInv, StoreOK
  <2>2. done[i] <= 1
    BY DEF IInv, EffectsOnce
  <2> QED
    BY <2>1, <2>2
<1> QED
  BY <1>1, Inductive, PTL

\* updateVaultStatus leaves the status of a vault at an event that is not older
\* than any the monitor has been through, but for the listed causes.
THEOREM StatusIsNew == Spec => []StatusFollowsChain
<1>1. IInv => StatusFollowsChain
  <2> SUFFICES ASSUME IInv, NEW i \in Index, Passed(i), i \in StatusLogs(Index)
               PROVE  Followed(i)
    BY DEF StatusFollowsChain, StatusLogs
  <2>1. chain[i].tx \in Nat /\ next \in Nat
    BY AllTypes, TheChain DEF IInv, ListenerOK
  <2>2. chain[i].tx <= Front
    BY <2>1 DEF Passed, Between, Front
  <2> QED
    BY <2>2 DEF IInv, StatusFollows
<1> QED
  BY <1>1, Inductive, PTL

\* The schedule and the record of a scheduled buyout contain each active position
\* once, whether its deposit came before the schedule (processBuyoutScheduledEvent
\* lists it) or after (the mint adds it, unless it is late), but for the listed
\* disturbances.
THEOREM FundingCorrect == Spec => []FundingExact
<1>1. IInv => FundingExact
  <2> SUFFICES ASSUME IInv, ~Working(Monitor),
                      NEW d \in Index, NEW c \in Index, NEW b \in Index,
                      Purchase(d, c, b), Undisturbed(d, c, b), b \in scheduled \cap buyouts,
                      Reached(c), position[Place(d)] = "active"
               PROVE  /\ counted[b][Place(d)] = IF Late(d, b) THEN 0 ELSE 1
                      /\ booked[b][Place(d)] = counted[b][Place(d)]
    BY DEF FundingExact
  <2>1. /\ TypeOK /\ ControlFits /\ HistoryFits /\ LossesAccounted /\ chain \in Chains
        /\ FundedOnce(d, c, b) /\ b \in docs
    BY AllTypes, FundingEach DEF IInv, HistoryFits
  <2>2. HasEffect(c) /\ chain[c].kind \in Mints
    BY <2>1, Purchased
  <2>3. ~Awaited(c) /\ ~Tallying(c)
    BY DEF Awaited, Tallying, Working, Logs
  <2>4. Accounted(c)
    BY <2>1, <2>2, <2>3 DEF LossesAccounted
  <2>5. Minted(c) /\ Counts(c)
    BY <2>1, <2>3, <2>4, MintDone DEF Minted, Counts, MintedPast, Tallying
  <2>6. CASE b < d
    BY <2>1, <2>5, <2>6, AddedMeans DEF FundedOnce
  <2>7. CASE ~(b < d)
    BY <2>1, <2>7 DEF FundedOnce, ListedBefore, Late
  <2> QED
    BY <2>6, <2>7
<1> QED
  BY <1>1, Inductive, PTL
=============================================================================

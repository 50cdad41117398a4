---------------------------- MODULE HandlerProofs ----------------------------
(***************************************************************************)
(* Proofs about Handler, for any number of chains, contracts, addresses    *)
(* and events: listeners and processor agree on addresses, and the verdict *)
(* on a log is the configured one; and about Decode, for any number of     *)
(* parameters and any width of a word: a row has the values emitted.       *)
(***************************************************************************)
EXTENDS Handler, FiniteSetTheorems, TLAPS

-----------------------------------------------------------------------------
(* Addresses.                                                              *)

\* The processor's key of a canonical address is the one its logs have.
LEMMA CanonicalKey ==
  ASSUME NEW c \in Contract
  PROVE  /\ ConfiguredKey(c) \in ChainID \X Prefix \X Digits
         /\ Canonical(c) => ConfiguredKey(c) = <<c.chain, "0x", c.digits>>
         /\ ConfiguredKey(c)[1] = c.chain /\ ConfiguredKey(c)[3] = c.digits
BY DEF Contract, Canonical, ConfiguredKey, NormalizeAddr, Lower, Prefix

-----------------------------------------------------------------------------
(* The inductive invariant.                                                *)

LEMMA InitIInv == Init => IInv
<1> SUFFICES ASSUME Init
             PROVE  IInv
  OBVIOUS
<1>1. contracts \in Seq(Contract)
  BY ContractsAssumption DEF Init
<1>2. /\ Len(contracts) \in Nat
      /\ built = 0 /\ under = 0 /\ outcome = "none" /\ DOMAIN registry = {}
  BY <1>1 DEF Init
<1>3. lg \in EventLog
  <2>1. PICK c \in ChainID, d \in Digits :
          lg = [chain |-> c, address |-> d, topic |-> NoTopic, unpacks |-> TRUE]
    BY DEF Init
  <2>2. NoTopic \in Event \cup {NoTopic} /\ TRUE \in BOOLEAN
    OBVIOUS
  <2> QED
    BY <2>1, <2>2 DEF EventLog
<1>4. built \in 0..Len(contracts) /\ under \in 0..built /\ 1..built = {}
  BY <1>2
<1> QED
  BY <1>1, <1>2, <1>3, <1>4 DEF IInv, TypeOK, RegistryBuilt, Handled

\* One more contract is the last of its key.
LEMMA RegisterKeepsIInv ==
  ASSUME IInv, Register
  PROVE  IInv'
<1> USE DEF IInv
<1> DEFINE n == built + 1
           key == ConfiguredKey(contracts[n])
<1>1. /\ contracts \in Seq(Contract) /\ built \in Nat /\ Len(contracts) \in Nat
      /\ n \in 1..Len(contracts) /\ built' = n
      /\ DOMAIN registry' = DOMAIN registry \cup {key}
      /\ \A k \in DOMAIN registry' : registry'[k] = IF k = key THEN n ELSE registry[k]
      /\ UNCHANGED <<contracts, lg, outcome, under>>
  BY DEF Register, TypeOK
<1>2. contracts[n] \in Contract /\ \A i \in 1..n : contracts[i] \in Contract
  BY <1>1
<1>3. \A k \in DOMAIN registry : registry[k] \in 1..built
  BY DEF TypeOK
<1>4. TypeOK'
  <2>1. DOMAIN registry' \subseteq ChainID \X Prefix \X Digits
    BY <1>1, <1>2, CanonicalKey DEF TypeOK
  <2>2. \A k \in DOMAIN registry' : registry'[k] \in 1..built'
    BY <1>1, <1>3
  <2>3. built' \in 0..Len(contracts) /\ under \in 0..built'
    BY <1>1 DEF TypeOK
  <2> QED
    BY <1>1, <2>1, <2>2, <2>3 DEF TypeOK
<1>5. RegistryBuilt'
  <2>1. \A i \in 1..n : ConfiguredKey(contracts[i]) \in DOMAIN registry'
    <3>1. \A i \in 1..n : i = n \/ i \in 1..built
      BY <1>1
    <3> QED
      BY <1>1, <3>1 DEF RegistryBuilt
  <2>2. ASSUME NEW k \in DOMAIN registry'
        PROVE  /\ ConfiguredKey(contracts[registry'[k]]) = k
               /\ \A j \in (registry'[k] + 1)..n : ConfiguredKey(contracts[j]) # k
    <3>1. CASE k = key
      <4>1. registry'[k] = n /\ (n + 1)..n = {}
        BY <1>1, <3>1
      <4> QED
        BY <3>1, <4>1
    <3>2. CASE k # key
      <4>1. k \in DOMAIN registry /\ registry'[k] = registry[k] /\ registry[k] \in 1..built
        BY <1>1, <1>3, <3>2
      <4>2. \A j \in (registry[k] + 1)..n : j = n \/ j \in (registry[k] + 1)..built
        BY <1>1, <4>1
      <4> QED
        BY <3>2, <4>1, <4>2 DEF RegistryBuilt
    <3> QED
      BY <3>1, <3>2
  <2> QED
    BY <1>1, <2>1, <2>2 DEF RegistryBuilt, ConfiguredKey
<1>6. Handled'
  <2>1. outcome = "none"
    BY <1>1 DEF Handled, TypeOK
  <2> QED
    BY <1>1, <2>1 DEF Handled
<1> QED
  BY <1>4, <1>5, <1>6

\* Handle changes neither the contracts nor the registry.
LEMMA HandleKeepsIInv ==
  ASSUME IInv, NEW l \in EventLog, Drop(l) \/ Reject(l) \/ Save(l)
  PROVE  IInv'
<1> USE DEF IInv
<1>1. /\ built = Len(contracts) /\ lg' = l
      /\ UNCHANGED <<contracts, built, registry>>
  BY DEF Drop, Reject, Save, Receive
<1>2. \/ outcome' = "dropped" /\ under' = 0 /\ (Registered(l) => ~Wants(Entry(l), l.topic))
      \/ outcome' = "error" /\ under' = 0
      \/ /\ outcome' = "stored" /\ under' = registry[LogKey(l)]
         /\ Registered(l) /\ Wants(Entry(l), l.topic)
  BY DEF Drop, Reject, Save
<1>3. under' \in 0..built
  <2>1. built \in Nat /\ (Registered(l) => registry[LogKey(l)] \in 1..built)
    BY DEF TypeOK, Registered
  <2> QED
    BY <1>2, <2>1
<1>4. TypeOK'
  BY <1>1, <1>2, <1>3 DEF TypeOK
<1>5. RegistryBuilt'
  BY <1>1 DEF RegistryBuilt, ConfiguredKey
<1>6. Handled'
  BY <1>1, <1>2 DEF Handled, Registered, Entry, LogKey, Wants, Allows
<1> QED
  BY <1>4, <1>5, <1>6

LEMMA NextIInv == IInv /\ [Next]_vars => IInv'
<1> SUFFICES ASSUME IInv, [Next]_vars
             PROVE  IInv'
  OBVIOUS
<1>1. CASE UNCHANGED vars
  BY <1>1 DEF vars, IInv, TypeOK, RegistryBuilt, Handled, ConfiguredKey, Registered, Entry,
              LogKey, Wants, Allows
<1> QED
  BY <1>1, RegisterKeepsIInv, HandleKeepsIInv DEF Next

-----------------------------------------------------------------------------
(* The rows.                                                               *)

\* Counting the inputs of S up to i numbers those of S, and InOrder follows
\* the numbers.
LEMMA TopicOfNumbers ==
  ASSUME NEW S \in SUBSET Input
  PROVE  /\ Cardinality(S) \in Nat /\ (Cardinality(S) = 0 => S = {})
         /\ \A i \in S : TopicOf(S, i) \in 1..Cardinality(S)
         /\ \A i, j \in S : TopicOf(S, i) = TopicOf(S, j) => i = j
         /\ \A i \in S : InOrder(S)[TopicOf(S, i)] = i
<1> DEFINE Upto(i) == {k \in S : k <= i}
<1>1. IsFiniteSet(S) /\ S \subseteq Nat
  <2>1. IsFiniteSet(Input) /\ Input \subseteq Nat
    BY WordAssumption, FS_Interval DEF Input
  <2> QED
    BY <2>1, FS_Subset
<1>2. Cardinality(S) \in Nat /\ (Cardinality(S) = 0 => S = {})
  BY <1>1, FS_CardinalityType, FS_EmptySet
<1>3. ASSUME NEW i \in S
      PROVE  IsFiniteSet(Upto(i)) /\ TopicOf(S, i) = Cardinality(Upto(i))
             /\ TopicOf(S, i) \in 1..Cardinality(S)
  <2>1. IsFiniteSet(Upto(i)) /\ Cardinality(Upto(i)) <= Cardinality(S)
    BY <1>1, FS_Subset
  <2>2. i \in Upto(i)
    BY <1>1
  <2>3. Cardinality(Upto(i)) \in Nat \ {0}
    BY <2>1, <2>2, FS_CardinalityType, FS_EmptySet
  <2> QED
    BY <1>2, <2>1, <2>3 DEF TopicOf
<1>4. ASSUME NEW i \in S, NEW j \in S, i < j
      PROVE  TopicOf(S, i) # TopicOf(S, j)
  <2>0. i \in Nat /\ j \in Nat /\ \A k \in S : k \in Nat
    BY <1>1
  <2>1. /\ \A k \in S : k <= i => k <= j
        /\ j <= j /\ ~(j <= i)
    BY <1>4, <2>0
  <2>2. Upto(i) \subseteq Upto(j) /\ j \in Upto(j) /\ j \notin Upto(i)
    BY <2>1
  <2>3. Cardinality(Upto(i)) # Cardinality(Upto(j))
    BY <1>3, <2>2, FS_Subset
  <2> QED
    BY <1>3, <2>3
<1>5. ASSUME NEW i \in S, NEW j \in S, TopicOf(S, i) = TopicOf(S, j)
      PROVE  i = j
  <2>1. i < j \/ j < i \/ i = j
    BY <1>1
  <2> QED
    BY <1>4, <1>5, <2>1
<1>6. ASSUME NEW i \in S
      PROVE  InOrder(S)[TopicOf(S, i)] = i
  <2> DEFINE k == TopicOf(S, i)
  <2>1. InOrder(S)[k] = CHOOSE j \in S : Cardinality({l \in S : l <= j}) = k
    BY <1>3 DEF InOrder
  <2>2. \A j \in S : Cardinality({l \in S : l <= j}) = TopicOf(S, j)
    BY DEF TopicOf
  <2> HIDE DEF k
  <2>3. \A j \in S : Cardinality({l \in S : l <= j}) = k => j = i
    BY <1>5, <2>2 DEF k
  <2>4. \E j \in S : Cardinality({l \in S : l <= j}) = k
    BY <2>2 DEF k
  <2> QED
    BY <2>1, <2>3, <2>4 DEF k
<1> QED
  BY <1>2, <1>3, <1>5, <1>6

\* What a topic says of a value, and what a word of the data does.
LEMMA WordDecoded ==
  ASSUME NEW type \in Type, NEW v \in Value(type)
  PROVE  /\ DecodeTopic(type, TopicFor(type, v)) = ShownIndexed(type, v)
         /\ Unpacked(type, WordOf(v)) = v
<1>1. /\ Word \in Nat /\ Address \in Nat /\ Address >= 2 /\ Address <= Word
      /\ Small \in Nat /\ Small >= 2 /\ Small <= Word /\ Word >= 2
      /\ Byte \in Nat /\ Byte >= 2
  BY WordAssumption
<1> DEFINE half == Word \div 2
           smallHalf == Small \div 2
<1>2. /\ half \in Nat /\ half < Word /\ Word - half >= half
      /\ smallHalf \in Nat /\ smallHalf <= half
  BY <1>1
<1> HIDE DEF half, smallHalf
<1>3. CASE type \in Signed
  <2>1. v \in Int /\ -half <= v /\ v <= half - 1
    <3>1. CASE type = "int"
      BY <1>2, <3>1 DEF Value, half
    <3>2. CASE type = "small int"
      <4>1. Value(type) = (-smallHalf)..(smallHalf - 1)
        BY <3>2 DEF Value, smallHalf
      <4> QED
        BY <1>2, <4>1
    <3> QED
      BY <1>3, <3>1, <3>2 DEF Signed
  <2>2. DecodeTopic(type, TopicFor(type, v)) = <<"decimal", WordOf(v)>>
    BY <1>3 DEF DecodeTopic, ToJSONFriendly, TopicFor, Signed, Integer, Dynamic
  <2>3. ShownIndexed(type, v) = <<"decimal", v % Word>>
    BY <1>3, Zenon DEF ShownIndexed, Signed, Integer, Dynamic
  <2>4. Unpacked(type, WordOf(v)) = IF WordOf(v) >= half THEN WordOf(v) - Word ELSE WordOf(v)
    BY <1>3 DEF Unpacked, half
  <2>5. CASE v < 0
    <3>1. WordOf(v) = v + Word /\ v + Word >= half /\ (v + Word) - Word = v
      BY <1>1, <1>2, <2>1, <2>5 DEF WordOf
    <3>2. v % Word = v + Word
      BY <1>1, <1>2, <2>1, <2>5
    <3> QED
      BY <2>2, <2>3, <2>4, <3>1, <3>2
  <2>6. CASE ~(v < 0)
    <3>1. WordOf(v) = v /\ ~(v >= half)
      BY <1>2, <2>1, <2>6 DEF WordOf
    <3>2. v % Word = v
      BY <1>1, <1>2, <2>1, <2>6
    <3> QED
      BY <2>2, <2>3, <2>4, <3>1, <3>2
  <2> QED
    BY <2>5, <2>6
<1>4. CASE type \notin Signed
  <2>1. v \in Nat /\ v < Word
    <3>1. CASE type = "address"
      BY <1>1, <3>1 DEF Value
    <3>2. CASE type = "small uint"
      <4>1. Value(type) = 0..(Small - 1)
        BY <3>2 DEF Value
      <4> QED
        BY <1>1, <4>1
    <3>3. CASE type = "bool"
      BY <1>1, <3>3 DEF Value
    <3>4. CASE type \in {"fixed bytes", "uint", "bytes", "string"}
      <4>1. Value(type) = 0..(Word - 1)
        BY <3>4 DEF Value
      <4> QED
        BY <1>1, <4>1
    <3> QED
      BY <1>4, <3>1, <3>2, <3>3, <3>4 DEF Type, Integer, Signed, Dynamic
  <2>2. WordOf(v) = v
    BY <2>1 DEF WordOf
  <2>3. Unpacked(type, WordOf(v)) = v
    BY <1>4, <2>2 DEF Unpacked
  <2>4. CASE type = "address"
    <3>1. v % Address = v
      BY <1>1, <2>1, <2>4 DEF Value
    <3> QED
      BY <2>2, <2>3, <2>4, <3>1
      DEF DecodeTopic, ToJSONFriendly, TopicFor, ShownIndexed, Signed, Integer, Dynamic
  <2>5. CASE type = "bool"
    <3>1. v \in {0, 1}
      BY <2>5 DEF Value
    <3>2. v % Byte = v
      BY <1>1, <3>1
    <3> QED
      BY <2>2, <2>3, <2>5, <3>2 DEF DecodeTopic, TopicFor, ShownIndexed, Signed, Integer, Dynamic
  <2>6. CASE type \in {"uint", "small uint"}
    <3>1. v % Word = v
      BY <1>1, <2>1
    <3> QED
      BY <2>2, <2>3, <2>6, <3>1
      DEF DecodeTopic, ToJSONFriendly, TopicFor, ShownIndexed, Signed, Integer, Dynamic
  <2>7. CASE type = "fixed bytes"
    BY <2>2, <2>3, <2>7 DEF DecodeTopic, TopicFor, ShownIndexed, Signed, Integer, Dynamic
  <2>8. CASE type \in Dynamic
    BY <2>3, <2>8 DEF DecodeTopic, TopicFor, ShownIndexed, Signed, Integer, Dynamic
  <2> QED
    BY <1>4, <2>4, <2>5, <2>6, <2>7, <2>8 DEF Type, Integer
<1> QED
  BY <1>3, <1>4

\* Whatever the types and the choice of indexed parameters, topics and data
\* come together again, each in its own form (handler.go:98-116).
LEMMA RowsComeTogether == RowsAsEmitted
<1> SUFFICES ASSUME NEW types \in [Input -> Type], NEW S \in SUBSET Input,
                    NEW values \in [Input -> UNION {Value(t) : t \in Type}],
                    \A i \in Input : values[i] \in Value(types[i])
             PROVE  LET row == Decoded(types, S, Topics(types, S, values), Data(S, values))
                    IN /\ DOMAIN row = Input
                       /\ \A i \in Input :
                            row[i] = IF i \in S THEN ShownIndexed(types[i], values[i])
                                     ELSE ToJSONFriendly(types[i], values[i])
  BY DEF RowsAsEmitted
<1> DEFINE topics == Topics(types, S, values)
           data == Data(S, values)
           read == FromTopics(types, S, topics)
           unpacked == FromData(types, S, data)
           rest == InOrder(Input \ S)
<1>1. \A i \in Input : types[i] \in Type /\ values[i] \in Value(types[i])
  OBVIOUS
<1>2. /\ Cardinality(S) \in Nat
      /\ \A i \in S : TopicOf(S, i) \in 1..Cardinality(S) /\ InOrder(S)[TopicOf(S, i)] = i
  BY TopicOfNumbers
<1>3. /\ Cardinality(Input \ S) \in Nat /\ (Cardinality(Input \ S) = 0 => Input \ S = {})
      /\ \A i \in Input \ S : /\ TopicOf(Input \ S, i) \in 1..Cardinality(Input \ S)
                              /\ rest[TopicOf(Input \ S, i)] = i
  BY TopicOfNumbers
<1>4. DOMAIN rest = 1..Cardinality(Input \ S)
  BY DEF InOrder
<1>5. data = << >> <=> Input \ S = {}
  <2> DEFINE n == Cardinality(Input \ S)
             R == {data[k] : k \in 1..n}
  <2>1. data \in [1..n -> R]
    BY <1>4 DEF Data
  <2>2. n \in Nat
    BY <1>3
  <2> HIDE DEF data, n, R
  <2>3. data \in Seq(R) /\ Len(data) = n
    BY <2>1, <2>2
  <2>4. data = << >> <=> n = 0
    BY <2>3
  <2> QED
    BY <1>3, <2>4, FS_EmptySet DEF n
<1>6. Len(topics) = Cardinality(S)
  <2> DEFINE R == {topics[k] : k \in 1..Cardinality(S)}
  <2>1. topics \in [1..Cardinality(S) -> R]
    BY DEF Topics
  <2>2. topics \in Seq(R) /\ DOMAIN topics = 1..Cardinality(S)
    BY <1>2, <2>1
  <2> QED
    BY <1>2, <2>2
<1>7. /\ DOMAIN read = S
      /\ \A i \in S : read[i] = DecodeTopic(types[i], TopicFor(types[i], values[i]))
  <2>1. {k \in S : TopicOf(S, k) <= Len(topics)} = S
    BY <1>2, <1>6
  <2>2. \A i \in S : topics[TopicOf(S, i)] = TopicFor(types[i], values[i])
    BY <1>2 DEF Topics
  <2>3. read = [i \in S |-> DecodeTopic(types[i], topics[TopicOf(S, i)])]
    BY <2>1 DEF FromTopics
  <2> QED
    BY <2>2, <2>3
<1>8. /\ DOMAIN unpacked = Input \ S
      /\ \A i \in Input \ S :
           unpacked[i] = ToJSONFriendly(types[i], Unpacked(types[i], WordOf(values[i])))
  <2>1. CASE Input \ S = {}
    <3>1. unpacked = << >> /\ DOMAIN << >> = {}
      BY <1>5, <2>1 DEF FromData
    <3> HIDE DEF unpacked
    <3>2. DOMAIN unpacked = {}
      BY <3>1, Zenon
    <3> QED
      BY <2>1, <3>2
  <2>2. CASE Input \ S # {}
    <3>1. unpacked =
            [i \in Input \ S |->
               ToJSONFriendly(types[i],
                 Unpacked(types[i], data[CHOOSE k \in DOMAIN rest : rest[k] = i]))]
      BY <1>5, <2>2 DEF FromData
    <3>2. ASSUME NEW i \in Input \ S
          PROVE  data[CHOOSE k \in DOMAIN rest : rest[k] = i] = WordOf(values[i])
      <4> DEFINE k == CHOOSE l \in DOMAIN rest : rest[l] = i
      <4>1. k \in DOMAIN rest /\ rest[k] = i
        BY <1>3, <1>4
      <4> QED
        BY <4>1 DEF Data
    <3> HIDE DEF unpacked, data, rest
    <3> QED
      BY <3>1, <3>2
  <2> QED
    BY <2>1, <2>2
<1> DEFINE row == Decoded(types, S, topics, data)
<1>9. row = [i \in DOMAIN read \cup DOMAIN unpacked |->
               IF i \in DOMAIN read THEN read[i] ELSE unpacked[i]]
  BY DEF Decoded
<1> HIDE DEF read, unpacked, row
<1>10. DOMAIN row = Input /\ \A i \in Input : row[i] = IF i \in S THEN read[i] ELSE unpacked[i]
  BY <1>7, <1>8, <1>9
<1>11. \A i \in Input :
         row[i] = IF i \in S THEN ShownIndexed(types[i], values[i])
                  ELSE ToJSONFriendly(types[i], values[i])
  BY <1>1, <1>7, <1>8, <1>10, WordDecoded
<1> QED
  BY <1>10, <1>11 DEF row

-----------------------------------------------------------------------------
(* The theorems.                                                           *)

\* NewProcessor's registry holds the last contract of every key, and Handle
\* judges by it (handler.go:56-93).
THEOREM Inductive == Spec => []IInv
BY InitIInv, NextIInv, PTL DEF Spec

\* The registry's keys are keys and its values registered contracts.
THEOREM TypeCorrect == Spec => []TypeOK
<1>1. IInv => TypeOK
  BY DEF IInv
<1> QED
  BY <1>1, Inductive, PTL

\* Whatever addresses and spellings are configured, a listener asks for no
\* address its processor does not know, unless it is spelt without a prefix or
\* with a mixed one (handler.go:58-59, poller.go:37).
THEOREM AskedIsKnown == Spec => []AskedIsRegistered
<1>1. IInv => AskedIsRegistered
  <2> SUFFICES ASSUME IInv, built = Len(contracts), NEW chain \in ChainID, NEW d,
                      NEW i \in DOMAIN contracts,
                      contracts[i].chain = chain, contracts[i].digits = d, Canonical(contracts[i])
               PROVE  <<chain, "0x", d>> \in DOMAIN registry
    BY DEF AskedIsRegistered
  <2>1. contracts[i] \in Contract /\ i \in 1..built
    BY DEF IInv, TypeOK
  <2>2. ConfiguredKey(contracts[i]) = <<chain, "0x", d>>
    BY <2>1, CanonicalKey
  <2> QED
    BY <2>1, <2>2 DEF IInv, RegistryBuilt
<1> QED
  BY <1>1, Inductive, PTL

\* For every configuration and every log: what is stored was asked for under
\* its own chain and address, and what is dropped was not asked for, or by a
\* contract that a later one of the same address replaced (handler.go:60-93).
THEOREM VerdictIsConfigured == Spec => []VerdictAsConfigured
<1>1. IInv => VerdictAsConfigured
  <2> SUFFICES ASSUME IInv
               PROVE  VerdictAsConfigured
    OBVIOUS
  <2> USE DEF IInv
  <2>1. /\ contracts \in Seq(Contract) /\ lg \in EventLog
        /\ \A k \in DOMAIN registry : registry[k] \in 1..built
        /\ built \in 0..Len(contracts) /\ Len(contracts) \in Nat
    BY DEF TypeOK
  <2>2. ASSUME outcome = "stored"
        PROVE  /\ contracts[under].chain = lg.chain
               /\ contracts[under].digits = lg.address
               /\ AsksFor(contracts[under], lg.topic)
    <3>1. /\ LogKey(lg) \in DOMAIN registry /\ under = registry[LogKey(lg)]
          /\ Wants(contracts[under], lg.topic)
      BY <2>2 DEF Handled, Registered, Entry
    <3>2. under \in 1..Len(contracts) /\ contracts[under] \in Contract
      BY <2>1, <3>1
    <3>3. ConfiguredKey(contracts[under]) = <<lg.chain, "0x", lg.address>>
      BY <3>1 DEF RegistryBuilt, LogKey
    <3>4. contracts[under].chain = lg.chain /\ contracts[under].digits = lg.address
      BY <3>2, <3>3, CanonicalKey
    <3> QED
      BY <3>1, <3>4 DEF Wants, Allows, AsksFor
  <2>3. ASSUME outcome = "dropped", NEW i \in DOMAIN contracts,
               contracts[i].chain = lg.chain, contracts[i].digits = lg.address,
               Canonical(contracts[i]), AsksFor(contracts[i], lg.topic)
        PROVE  \E j \in (i + 1)..Len(contracts) :
                 ConfiguredKey(contracts[j]) = ConfiguredKey(contracts[i])
    <3>1. built = Len(contracts) /\ i \in 1..built /\ contracts[i] \in Contract
      BY <2>1, <2>3 DEF Handled
    <3>2. ConfiguredKey(contracts[i]) = LogKey(lg)
      BY <2>3, <3>1, CanonicalKey DEF LogKey
    <3>3. LogKey(lg) \in DOMAIN registry
      BY <3>1, <3>2 DEF RegistryBuilt
    <3> DEFINE m == registry[LogKey(lg)]
    <3>4. m \in 1..built /\ ConfiguredKey(contracts[m]) = LogKey(lg)
      BY <2>1, <3>3 DEF RegistryBuilt
    <3>5. ~(i \in (m + 1)..built)
      BY <3>2, <3>3 DEF RegistryBuilt
    <3>6. m # i
      BY <2>3, <3>3 DEF Handled, Registered, Entry, Wants, Allows, AsksFor
    <3>7. m \in (i + 1)..Len(contracts)
      BY <2>1, <3>1, <3>4, <3>5, <3>6
    <3> QED
      BY <3>2, <3>4, <3>7
  <2> QED
    BY <2>2, <2>3 DEF VerdictAsConfigured
<1> QED
  BY <1>1, Inductive, PTL

\* For every event, whatever the types of its parameters, which of them are
\* indexed, and the values emitted, every parameter is in the row that is stored:
\* one of the data with its value and in its own form, an indexed one as the
\* string that its topic makes (handler.go:98-116, 137-168).
THEOREM RowIsAsEmitted == Spec => []RowMatchesLog
<1>1. RowMatchesLog
  BY RowsComeTogether DEF RowMatchesLog
<1> QED
  BY <1>1, PTL
=============================================================================

------------------------------- MODULE Decode -------------------------------
(***************************************************************************)
(* internal/handler: what Handle makes of the parameters of a log, the     *)
(* part of it between the whitelist and SaveEvent (handler.go:95-116).     *)
(*                                                                         *)
(* A parameter is a number: 1..Arity in the order of the event.  A word of *)
(* the log is a natural below Word (2^256), an address one below Address   *)
(* (2^160), an integer of 8, 16, 32 or 64 bits ("small") has a range of    *)
(* Small.  What ends up in the row is a form and a value; a value without  *)
(* a word of its own is named by one: a string, which stands here for      *)
(* arrays and tuples too, or the bytes of a dynamic type.                  *)
(***************************************************************************)
EXTENDS Integers, Sequences, FiniteSets

CONSTANTS
  Arity, Word, Address, Small, Byte,
  Hash  \* the topic of an indexed value of a dynamic type

ASSUME WordAssumption ==
  /\ Arity \in Nat
  /\ Word \in Nat /\ Word % 2 = 0
  /\ Address \in 2..Word /\ Byte \in 2..Word
  /\ Small \in 2..Word /\ Small % 2 = 0
  /\ Hash \in [0..(Word - 1) -> 0..(Word - 1)]

Input == 1..Arity

Signed == {"int", "small int"}
Integer == Signed \cup {"uint", "small uint"}
Dynamic == {"bytes", "string"}
Type == {"address", "bool", "fixed bytes"} \cup Integer \cup Dynamic

Value(type) ==
  CASE type = "address"    -> 0..(Address - 1)
    [] type = "int"        -> (-(Word \div 2))..(Word \div 2 - 1)
    [] type = "small int"  -> (-(Small \div 2))..(Small \div 2 - 1)
    [] type = "small uint" -> 0..(Small - 1)
    [] type = "bool"       -> {0, 1}
    [] OTHER               -> 0..(Word - 1)

\* The inputs of S in the order of the event.
InOrder(S) ==
  [k \in 1..Cardinality(S) |-> CHOOSE i \in S : Cardinality({j \in S : j <= i}) = k]

-----------------------------------------------------------------------------
(* The log of an event with these values, whose contract indexes the       *)
(* inputs of S.                                                            *)

WordOf(v) == IF v < 0 THEN v + Word ELSE v

\* A value of a dynamic type is hashed.
TopicFor(type, v) == IF type \in Dynamic THEN Hash[v] ELSE WordOf(v)

Topics(types, S, values) ==
  [k \in 1..Cardinality(S) |-> TopicFor(types[InOrder(S)[k]], values[InOrder(S)[k]])]

Data(S, values) ==
  LET rest == InOrder(Input \ S)
  IN [k \in DOMAIN rest |-> WordOf(values[rest[k]])]

-----------------------------------------------------------------------------

\* go-ethereum's reading of one word of the data.
Unpacked(type, word) ==
  IF type \in Signed /\ word >= Word \div 2 THEN word - Word ELSE word

\* toJSONFriendly, for a value that go-ethereum has unpacked: a *big.Int becomes
\* its decimal string, an address and a []byte a hex string.  What is left as it
\* is comes out as a JSON number, an array of bytes, a text or a boolean.
ToJSONFriendly(type, v) ==
  CASE type \in {"int", "uint"}             -> <<"decimal", v>>
    [] type \in {"small int", "small uint"} -> <<"number", v>>
    [] type \in {"address", "bytes"}        -> <<"hex", v>>
    [] type = "fixed bytes"                 -> <<"array", v>>
    [] type = "string"                      -> <<"text", v>>
    [] type = "bool"                        -> <<"bool", v = 1>>

\* UnpackIntoMap, for an ABI that indexes the inputs of S; it is not called for
\* a log without data.
FromData(types, S, data) ==
  LET rest == InOrder(Input \ S)
  IN IF data = << >> THEN << >>
     ELSE [i \in Input \ S |->
             LET word == data[CHOOSE k \in DOMAIN rest : rest[k] = i]
             IN ToJSONFriendly(types[i], Unpacked(types[i], word))]

\* decodeTopic: an integer of any size becomes an unsigned *big.Int, and what is
\* not an integer, an address or a boolean keeps its whole word.
DecodeTopic(type, topic) ==
  CASE type = "address"   -> ToJSONFriendly("address", topic % Address)
    [] type \in Integer   -> ToJSONFriendly("uint", topic)
    [] type = "bool"      -> <<"bool", topic % Byte = 1>>
    [] OTHER              -> <<"hex", topic>>

\* Mutant of TopicOf: idx counts the inputs that are not indexed, too.
TopicOfInput(S, i) == i

\* idx, without the signature: the topic of input i, which S contains.
TopicOf(S, i) == Cardinality({k \in S : k <= i})

\* The loop ends with the topics.
FromTopics(types, S, topics) ==
  [i \in {k \in S : TopicOf(S, k) <= Len(topics)} |-> DecodeTopic(types[i], topics[TopicOf(S, i)])]

Decoded(types, S, topics, data) ==
  LET read == FromTopics(types, S, topics)
      unpacked == FromData(types, S, data)
  IN [i \in DOMAIN read \cup DOMAIN unpacked |->
        IF i \in DOMAIN read THEN read[i] ELSE unpacked[i]]

\* What a reader of the row finds under an indexed parameter of value v: an
\* integer as a string, modulo 2^256; only the hash of a value of dynamic type.
ShownIndexed(type, v) ==
  CASE type \in Integer -> <<"decimal", v % Word>>
    [] type = "bool"    -> <<"bool", v = 1>>
    [] type \in Dynamic -> <<"hex", Hash[v]>>
    [] OTHER            -> <<"hex", v>>

\* The rows of all logs whose contract indexes what its ABI says: every parameter
\* is there, from the word that carried it, and one of the data keeps its value.
RowsAsEmitted ==
  \A types \in [Input -> Type] : \A S \in SUBSET Input :
    \A values \in {f \in [Input -> UNION {Value(t) : t \in Type}] :
                     \A i \in Input : f[i] \in Value(types[i])} :
      LET row == Decoded(types, S, Topics(types, S, values), Data(S, values))
      IN /\ DOMAIN row = Input
         /\ \A i \in Input :
              row[i] = IF i \in S THEN ShownIndexed(types[i], values[i])
                       ELSE ToJSONFriendly(types[i], values[i])
=============================================================================

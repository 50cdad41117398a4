------------------------------ MODULE Handler ------------------------------
(***************************************************************************)
(* internal/handler and the address handling of internal/listener: which   *)
(* logs the listeners ask the node for, and what Processor.Handle does     *)
(* with each log they get.                                                 *)
(*                                                                         *)
(* An address in config.yaml is a prefix and the hexadecimal digits after  *)
(* it; the digits stand for the 20 bytes they encode.  An event is the     *)
(* topic its signature hashes to, and its name.                            *)
(***************************************************************************)
EXTENDS Decode

CONSTANTS
  ChainID,      \* chain ids
  Digits,       \* 20-byte addresses other than zero
  Event,        \* events of the contracts
  MaxContracts  \* bound of the model: contracts in the configuration

ASSUME ContractsAssumption == MaxContracts \in Nat

Prefix == {"0x", "0X", "xdc", "XDC", "Xdc", "none"}

ZeroAddress == "zero"  \* what HexToAddress makes of a text that is not hexadecimal

NoTopic == "no topic"  \* an anonymous log

\* events = {} in the configuration keeps every event of the ABI.
Contract == [chain : ChainID, prefix : Prefix, digits : Digits,
             abi : SUBSET Event, events : SUBSET Event]

EventLog == [chain : ChainID, address : Digits, topic : Event \cup {NoTopic},
             unpacks : BOOLEAN]

VARIABLES
  contracts,  \* the contracts of all chains in file order
  built,      \* how many of them NewProcessor has registered
  registry,   \* Processor.contracts: key to position in contracts
  lg,         \* the log Handle was last called with
  outcome,    \* what came of it: "none", "dropped", "error" or "stored"
  under       \* the contract it was stored under, by position; 0 for none

vars == <<contracts, built, registry, lg, outcome, under>>

-----------------------------------------------------------------------------
(* Addresses.                                                              *)

\* Mutant of NormalizeAddr: the upper-case prefix is forgotten.
NormalizeLowerOnly(prefix) == IF prefix = "xdc" THEN "0x" ELSE prefix

\* "xdc" and "XDC" become "0x"; any other text passes through.
NormalizeAddr(prefix) == IF prefix \in {"xdc", "XDC"} THEN "0x" ELSE prefix

\* strings.ToLower on a prefix.
Lower(prefix) ==
  CASE prefix = "0X" -> "0x"
    [] prefix \in {"XDC", "Xdc"} -> "xdc"
    [] OTHER -> prefix

\* common.HexToAddress: 0x and 0X are optional, and what is not hexadecimal is lost.
HexToAddress(prefix, digits) ==
  IF prefix \in {"0x", "0X", "none"} THEN digits ELSE ZeroAddress

\* The addresses a chain's listener puts in its FilterQuery.
Asked(chain) ==
  {HexToAddress(NormalizeAddr(contracts[i].prefix), contracts[i].digits) :
     i \in {k \in DOMAIN contracts : contracts[k].chain = chain}}

\* Mutant of ConfiguredKey: the configured text is not lowercased.
ConfiguredKeyAsWritten(c) == <<c.chain, NormalizeAddr(c.prefix), c.digits>>

ConfiguredKey(c) == <<c.chain, Lower(NormalizeAddr(c.prefix)), c.digits>>

\* lg.Address.Hex(), lowercased, starts with 0x.
LogKey(l) == <<l.chain, "0x", l.address>>

-----------------------------------------------------------------------------
(* The processor.                                                          *)

Init ==
  /\ contracts \in UNION {[1..n -> Contract] : n \in 1..MaxContracts}
  /\ built = 0
  /\ registry = << >>
  /\ lg \in {[chain |-> c, address |-> d, topic |-> NoTopic, unpacks |-> TRUE] :
               c \in ChainID, d \in Digits}
  /\ outcome = "none"
  /\ under = 0

\* Mutant of Register: contracts are keyed by position from 0.
RegisterFromZero ==
  /\ built < Len(contracts)
  /\ LET key == ConfiguredKey(contracts[built + 1])
     IN registry' = [k \in DOMAIN registry \cup {key} |->
                       IF k = key THEN built ELSE registry[k]]
  /\ built' = built + 1
  /\ UNCHANGED <<contracts, lg, outcome, under>>

\* One turn of NewProcessor's loop: a later contract of the same key replaces
\* an earlier one.
Register ==
  /\ built < Len(contracts)
  /\ LET key == ConfiguredKey(contracts[built + 1])
     IN registry' = [k \in DOMAIN registry \cup {key} |->
                       IF k = key THEN built + 1 ELSE registry[k]]
  /\ built' = built + 1
  /\ UNCHANGED <<contracts, lg, outcome, under>>

\* The whitelist of a contract; an empty one allows everything.
Allows(c, event) == c.events = {} \/ event \in c.events

Registered(l) == LogKey(l) \in DOMAIN registry

\* Mutant of Entry: the first contract with the log's address, on any chain.
EntryOfAddress(l) == contracts[CHOOSE i \in DOMAIN contracts : contracts[i].digits = l.address]

Entry(l) == contracts[registry[LogKey(l)]]

\* The event is in the contract's ABI and its whitelist.
Wants(c, topic) == topic \in c.abi /\ Allows(c, topic)

Receive(l) ==
  /\ built = Len(contracts)
  /\ l.address \in Asked(l.chain)
  /\ lg' = l
  /\ UNCHANGED <<contracts, built, registry>>

\* Not registered, no topic, not in the ABI or not in the whitelist: nil.
Drop(l) ==
  /\ Receive(l)
  /\ Registered(l) => ~Wants(Entry(l), l.topic)
  /\ outcome' = "dropped"
  /\ under' = 0

\* UnpackIntoMap fails on the data.
Reject(l) ==
  /\ Receive(l)
  /\ Registered(l) /\ Wants(Entry(l), l.topic)
  /\ ~l.unpacks
  /\ outcome' = "error"
  /\ under' = 0

\* SaveEvent under the name of the contract's entry.
Save(l) ==
  /\ Receive(l)
  /\ Registered(l) /\ Wants(Entry(l), l.topic)
  /\ l.unpacks
  /\ outcome' = "stored"
  /\ under' = registry[LogKey(l)]

Next ==
  \/ Register
  \/ \E l \in EventLog : Drop(l) \/ Reject(l) \/ Save(l)

Spec == Init /\ [][Next]_vars

-----------------------------------------------------------------------------

TypeOK ==
  /\ contracts \in Seq(Contract)
  /\ built \in 0..Len(contracts)
  /\ DOMAIN registry \subseteq ChainID \X Prefix \X Digits
  /\ \A k \in DOMAIN registry : registry[k] \in 1..built
  /\ lg \in EventLog
  /\ outcome \in {"none", "dropped", "error", "stored"}
  /\ under \in 0..built

\* The spellings with which listener and processor mean the same address.
Canonical(c) == c.prefix \in {"0x", "0X", "xdc", "XDC"}

\* What a contract's configuration says it wants, in the words of config.go:35:
\* "optional whitelist; empty = all events".
AsksFor(c, topic) == topic \in c.abi /\ (c.events = {} \/ topic \in c.events)

(***************************************************************************)
(* The two sides of an address agree: the listener of a chain gets logs    *)
(* only for contracts the processor will find again, as long as addresses  *)
(* carry a 0x or xdc prefix.  Digits alone are asked for and never found   *)
(* (handler.go:58-59, 76; listener.go:38-43; poller.go:37).                *)
(***************************************************************************)
AskedIsRegistered ==
  built = Len(contracts) =>
    \A chain \in ChainID : \A d \in Asked(chain) \ {ZeroAddress} :
      \/ <<chain, "0x", d>> \in DOMAIN registry
      \/ \A i \in DOMAIN contracts :
           contracts[i].chain = chain /\ contracts[i].digits = d => ~Canonical(contracts[i])

(***************************************************************************)
(* The verdict on a log is what the configuration says.  It is stored      *)
(* under a contract of its own chain and address that asks for its event,  *)
(* whatever is configured for the same address on another chain, and it is *)
(* only dropped if no contract of its chain and address asks for it,       *)
(* unless a later entry for the same address has replaced that contract in *)
(* the registry (handler.go:60, 76-93).                                    *)
(***************************************************************************)
VerdictAsConfigured ==
  /\ outcome = "stored" =>
       /\ contracts[under].chain = lg.chain
       /\ contracts[under].digits = lg.address
       /\ AsksFor(contracts[under], lg.topic)
  /\ outcome = "dropped" =>
       \A i \in DOMAIN contracts :
         (/\ contracts[i].chain = lg.chain
          /\ contracts[i].digits = lg.address
          /\ Canonical(contracts[i])
          /\ AsksFor(contracts[i], lg.topic)) =>
           \E j \in (i + 1)..Len(contracts) :
             ConfiguredKey(contracts[j]) = ConfiguredKey(contracts[i])

(***************************************************************************)
(* A row is stored only with what was emitted.  Whatever the types of an   *)
(* event and the choice of its indexed parameters, the topics and the data *)
(* come together again (handler.go:98-116), each parameter in the form its *)
(* place gives it.  In the data a value keeps its sign and its own form: a *)
(* small integer is a number, fixed bytes are an array (line 166).  In a   *)
(* topic every integer is a decimal string and unsigned, so a negative one *)
(* is itself plus 2^256 (line 141), and a string or bytes only a hash.     *)
(***************************************************************************)
RowMatchesLog == outcome = "stored" => RowsAsEmitted

-----------------------------------------------------------------------------
(* An inductive invariant.                                                 *)

\* The registry has every key so far, each with the last contract of that key.
RegistryBuilt ==
  /\ \A i \in 1..built : ConfiguredKey(contracts[i]) \in DOMAIN registry
  /\ \A k \in DOMAIN registry :
       /\ ConfiguredKey(contracts[registry[k]]) = k
       /\ \A j \in (registry[k] + 1)..built : ConfiguredKey(contracts[j]) # k

\* What came of the last log followed from the whole registry.
Handled ==
  /\ outcome # "none" => built = Len(contracts)
  /\ outcome = "stored" =>
       Registered(lg) /\ under = registry[LogKey(lg)] /\ Wants(Entry(lg), lg.topic)
  /\ outcome = "dropped" => (Registered(lg) => ~Wants(Entry(lg), lg.topic))

IInv == TypeOK /\ RegistryBuilt /\ Handled
=============================================================================

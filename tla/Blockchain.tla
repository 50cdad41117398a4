----------------------------- MODULE Blockchain -----------------------------
(***************************************************************************)
(* The chain a listener reads through an Ethereum RPC node.  It is not     *)
(* part of the repository: it is what listener/poller.go and               *)
(* listener/websocket.go can observe with BlockNumber, FilterLogs and      *)
(* SubscribeFilterLogs.                                                    *)
(*                                                                         *)
(* A log stands for a pair (transaction hash, log index), the identity the *)
(* events table uses.  Only the logs of the configured contracts matter:   *)
(* the RPC node filters by address.  A reorganisation may move a log to    *)
(* another block, remove it, or bring in one that was not mined before.    *)
(***************************************************************************)
EXTENDS Integers

CONSTANTS
  Log,        \* the logs of the contracts one chain's configuration names
  MaxBlock,   \* bound of the model: the chain stops growing at this height
  MaxReorg    \* the deepest reorganisation the chain goes through, in blocks

ASSUME ChainAssumption ==
  /\ MaxBlock \in Nat
  /\ MaxReorg \in Nat

NoBlock == 0  \* the block of a log that is not mined; genesis holds no logs

VARIABLES
  head,     \* the height BlockNumber answers
  blockOf   \* the canonical block of every log, NoBlock when it has none

chainVars == <<head, blockOf>>

ChainTypeOK ==
  /\ head \in 0..MaxBlock
  /\ blockOf \in [Log -> 0..MaxBlock]
  /\ \A l \in Log : blockOf[l] <= head

Mined(l) == blockOf[l] # NoBlock

\* What the node delivers about log l: its identity and its block.
LogRow(l) == [log |-> l, block |-> blockOf[l]]

Row == [log : Log, block : 1..MaxBlock]

\* The answer to FilterLogs with FromBlock = from and ToBlock = to.
LogsIn(from, to) == {LogRow(l) : l \in {k \in Log : Mined(k) /\ blockOf[k] \in from..to}}

ChainInit ==
  /\ head = 0
  /\ blockOf = [l \in Log |-> NoBlock]

\* A block is mined on top of the chain and holds any set of logs not mined yet.
Mine ==
  /\ head < MaxBlock
  /\ head' = head + 1
  /\ \E new \in SUBSET {l \in Log : ~Mined(l)} :
       blockOf' = [l \in Log |-> IF l \in new THEN head' ELSE blockOf[l]]

\* The logs that were above height base may be anywhere above it, or nowhere.
Rearranged(base) ==
  [l \in Log |-> IF Mined(l) /\ blockOf[l] <= base
                 THEN {blockOf[l]}
                 ELSE {NoBlock} \cup (base + 1)..head]

\* The top blocks of the chain are replaced by as many others.
Reorg ==
  /\ \E depth \in 1..MaxReorg :
       /\ depth <= head
       /\ blockOf' \in {f \in [Log -> 0..MaxBlock] :
                          \A l \in Log : f[l] \in Rearranged(head - depth)[l]}
  /\ blockOf' # blockOf
  /\ UNCHANGED head

ChainNext == Mine \/ Reorg
=============================================================================

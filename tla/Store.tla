------------------------------- MODULE Store -------------------------------
(***************************************************************************)
(* internal/db: the two PostgreSQL tables of the service, as far as one    *)
(* chain sees them.  Rows of `events` are kept in the order of their       *)
(* serial id; `checkpoint` is the chain's row of `checkpoints`.            *)
(*                                                                         *)
(* Every call runs one statement under the caller's context.  Three things *)
(* can happen to it: it commits and the caller learns so; it fails and     *)
(* leaves the tables alone; or the caller gives up (its context was        *)
(* cancelled, its connection broke, its process died) while the statement  *)
(* is on its way, and it commits later or never.  Statements of the third  *)
(* kind wait in lateRows and lateMarks.                                    *)
(***************************************************************************)
EXTENDS Integers, Sequences, FiniteSets

CONSTANT MaxAbandoned  \* bound of the model: abandoned statements outstanding

ASSUME StoreAssumption == MaxAbandoned \in Nat

NoRow == -1  \* GetCheckpoint's exists = false

VARIABLES
  events,      \* table events: sequence of [log, block] rows
  checkpoint,  \* the chain's last_block, NoRow when there is no row yet
  lateRows,    \* INSERT INTO events statements their caller gave up on
  lateMarks    \* INSERT INTO checkpoints statements their caller gave up on

storeVars == <<events, checkpoint, lateRows, lateMarks>>

StoreInit ==
  /\ events = << >>
  /\ checkpoint = NoRow
  /\ lateRows = {}
  /\ lateMarks = {}

Recorded == {events[i].log : i \in DOMAIN events}

\* Mutant of Inserted: no ON CONFLICT clause and no unique index.
InsertedBlindly(r) == Append(events, r)

\* INSERT ... ON CONFLICT (chain_id, tx_hash, log_index) DO NOTHING
Inserted(r) == IF r.log \in Recorded THEN events ELSE Append(events, r)

\* Mutant of Raised: the upsert without its WHERE clause.
RaisedBlindly(b) == b

\* INSERT ... ON CONFLICT DO UPDATE ... WHERE checkpoints.last_block < EXCLUDED.last_block
Raised(b) == IF checkpoint < b THEN b ELSE checkpoint

SaveEvent(r) ==
  /\ events' = Inserted(r)
  /\ UNCHANGED <<checkpoint, lateRows, lateMarks>>

SaveCheckpoint(b) ==
  /\ checkpoint' = Raised(b)
  /\ UNCHANGED <<events, lateRows, lateMarks>>

CanAbandon == Cardinality(lateRows) + Cardinality(lateMarks) < MaxAbandoned

AbandonEvent(r) ==
  /\ CanAbandon
  /\ lateRows' = lateRows \cup {r}
  /\ UNCHANGED <<events, checkpoint, lateMarks>>

AbandonCheckpoint(b) ==
  /\ CanAbandon
  /\ lateMarks' = lateMarks \cup {b}
  /\ UNCHANGED <<events, checkpoint, lateRows>>

\* The server gets to an abandoned statement, or drops it with its connection.
SettleEvent ==
  \E r \in lateRows :
    /\ lateRows' = lateRows \ {r}
    /\ events' \in {events, Inserted(r)}
    /\ UNCHANGED <<checkpoint, lateMarks>>

SettleCheckpoint ==
  \E b \in lateMarks :
    /\ lateMarks' = lateMarks \ {b}
    /\ checkpoint' \in {checkpoint, Raised(b)}
    /\ UNCHANGED <<events, lateRows>>

Settle == SettleEvent \/ SettleCheckpoint
=============================================================================

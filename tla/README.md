# A verification project for the event listener

The service reads contract events from EVM chains and stores them in
PostgreSQL. One goroutine per configured chain either polls an HTTP node or
subscribes over a WebSocket; it hands each log to a processor that decodes it,
and keeps a checkpoint per chain so that a restart resumes where it left off.
The repository also carries, as the sample the service was derived from, a
larger listener for vault contracts (`internal/contracts/abi/sampleExample.go`)
that keeps its state in MongoDB and transfers tokens for the deposits it sees.

Everything here answers one question in several parts: **can an event be lost,
stored twice, stored wrongly, or paid twice, whatever fails or happens at the
same time, and does the service always get on with its work and stop when it is
told to?**

## 1. Inventory

| Part | Source | State | Operations | Hard behaviour |
|---|---|---|---|---|
| service | `main.go` | context, wait group, goroutines, pool | load, connect, migrate, start each chain, wait for a signal, cancel, wait, close | `log.Fatal` under running goroutines; a listener that returns by itself; signals early and late |
| configuration | `internal/config` | chains, contracts, confirmations, batch sizes | `Load` | a batch size near 2^64; two entries for one address; two chains with one id |
| polling listener | `internal/listener/poller.go` | cursor | resume, poll the head, filter a range, handle each log, save the checkpoint | every remote call can fail, be cut off or answer late; reorganisations |
| subscribing listener | `internal/listener/websocket.go` | cursor, subscription, channel | backfill, subscribe, handle each log, save its block, reconnect | the gap between backfill and subscription; whole-block checkpoints; random `select` |
| listener construction | `internal/listener/listener.go` | none | `New`, `NormalizeAddr` | refusal ends the process |
| processor | `internal/handler` | registry of contracts | `NewProcessor`, `Handle` | address spellings; overwritten entries; what is dropped in silence; topics and data read apart and put together again |
| store | `internal/db` | tables `events`, `checkpoints` | `SaveEvent`, `GetCheckpoint`, `SaveCheckpoint` | statements that commit after their caller gave up |
| vault monitor (sample) | `sampleExample.go` 1640-2322 | sync state, current block, batch size | start, next batch, filter, process, save, step back, stop | adaptive batches; recovery from being stuck; restarts |
| vault deposits (sample) | `sampleExample.go` 1341-1638, 2446-2789 | vault_events, vault_positions, tokens | duplicate check, document, transfer, receipt, position, mint hash | the same deposit twice at once; a failure or a death between any two calls |
| other vault handlers (sample) | `sampleExample.go` 2791-4379 | vault_events, positions, buyout schedules, status of the vault | one handler per event type | duplicate keys without the log index; a document stored before or after its effect; effects that overwrite each other |
| manual trigger (sample) | `sampleExample.go` 4382-5007 | none | reprocess by hash, block range, stored event, position; a fixed block | runs beside the monitor; two duplicate checks in a row |
| log supplement (sample) | `sampleExample.go` 5011-5237 | none | complete a suspicious `FilterLogs` answer from receipts | signatures it leaves out; logs appended out of order |
| ABI files, samples of the configuration, module files | `internal/contracts/abi/*.json`, `config.yaml`, `go.mod` | none | none | none |

How they interact: `main` starts the listeners and shares one context and one
store with them; a listener calls the processor for every log, and both write
to the store; nothing is sent back. Two listeners share no state but the store.
In the sample the monitor and the manual trigger call the same handlers from
different goroutines over the same collections, and every deposit of every
chain spends the same deployer account.

What makes each part correct:

- poller: the checkpoint never passes a log that was neither stored nor reported;
  rows are unique and stay canonical; every confirmed log is handled in the end;
  a cancelled listener returns.
- subscribing listener: every log it can lose is lost for a known reason; the
  checkpoint does not move back; it always reconnects.
- processor: asked for and registered addresses agree; nothing wanted is dropped;
  nothing is stored under another contract; a row holds what was emitted.
- service: goroutines only use a migrated, open store; `bye` comes after every
  goroutine; one signal ends the process.
- vault monitor: the sync state claims no unread block; only confirmed blocks are
  read; it keeps up; `Stop` comes back.
- vault deposits: tokens leave only for recorded deposits; a double or a missing
  payment is always explained by a named event; a confirmed position was paid.
- vault handlers, trigger and supplement: every effect that is lost and every one
  that happens twice has a known reason; the status of a vault is that of its
  newest event; a buyout pays each active position once.

## 2. Modules

```
Blockchain   Store                 EventFeed (abstract)
      \       /                        |
       Listener                        | implemented by
       /      \                        |
  Poller     WebSocket   <-------------+ (Poller)

Service    Decode    VaultMonitor    VaultDeposit    VaultHandlers
             |                                            |
          Handler                                   VaultListener

PollerProofs, WebSocketProofs (both with ListenerProofs), ServiceProofs,
HandlerProofs, VaultMonitorProofs, VaultDepositProofs, VaultListenerProofs (of
VaultListener with VaultHandlers): one per module proved about
```

**Blockchain** (external) is what a node lets a listener observe: `head`, and for
every log its canonical block. `Mine` adds a block, `Reorg` moves, removes or
brings in the logs of the newest `MaxReorg` blocks. A log is one model value: the
pair (transaction hash, log index) that the `events` table uses as identity.

**Store** is `internal/db`. `Inserted` is `ON CONFLICT DO NOTHING`, `Raised` the
upsert with its `WHERE`. A call commits, fails, or is given up while its
statement is under way; statements of the third kind wait in `lateRows` and
`lateMarks` and are executed later, or never (`Settle`).

**Listener** is what both listeners do alike: `Resume` (the checkpoint against
the least start block), `RangeEnd` and `Safe` in uint64 arithmetic, the loop over
the logs of a range, and `Mark`, the checkpoint at its end. One action per remote
call and per outcome of the call, so everything else can happen in between.

**Poller** is `Run` of `poller.go`; `pc` names the place in it. Ticks are not
timed: a tick that finds nothing or fails changes nothing. `Crash` is any end of
the process at any point, `Restart` a new start after a shutdown, `Cancel` the
signal. Outside its loop an error ends the goroutine for good, as in the code.

**EventFeed** says what a reader of the tables may rely on, without ranges,
cursors or restarts: final logs are recorded at most once with their final block,
and the checkpoint passes only blocks whose logs are recorded or refused.
`Poller!ImplementsFeed` is the refinement: `FeedHorizon` is the newest confirmed
block and `FeedSettled` gives a log its block once it is confirmed.

**WebSocket** is `Run` and `runOnce` of `websocket.go`. The node pushes the logs
of every change of the chain to a live subscription (`Pushed`, removed ones
first, as nodes do); `queue` is the client's buffer and the channel together.
`window`, `torn` and `moved` are history variables that record the three ways in
which a log can escape.

**Service** is `main`, its goroutines and its wait group; a listener only goes in
and out of the store there.

**Handler** is the address handling of both packages, `NewProcessor` and `Handle`,
over every configuration of at most `MaxContracts` contracts; an address is a
prefix and its digits, an event its topic. **Decode** is the part of `Handle` that
makes a row of a log: `UnpackIntoMap` for the inputs that are not indexed, the loop
over the topics with its counter for those that are, `decodeTopic` and
`toJSONFriendly`. A word of the log is a number below `Word`, an integer of at most 64
bits ("small") has a range of `Small`, and what the row gets is a form and a value: the
two paths give some types different forms, so `DecodeTopic` and `ToJSONFriendly` are
kept apart and `RowMatchesLog` says for each what a reader finds.

**VaultMonitor** is one chain of the sample: `StartMonitoringChain`, the loop,
`Stop`. A range whose first block is negative is modelled as what it is, the name
of a block or a refused query. **VaultDeposit** is `processVaultDepositEvent` with
`transferTokens` and `updateVaultPositionWithMintHash`, run by several workers
(monitors, the manual trigger) over several deposits, one action per remote call;
the token's chain mines, reverts or drops each transfer. `Begin` hands a deposit
to a worker at any time: a replay after a restart, a step back or the trigger.

**VaultHandlers** is every handler the sample dispatches to, one action per remote
call. A log is its block, signature, position, vault (the contract that emitted it)
and date (`depositTime` of a deposit, `buyoutDate` of a buyout). A position is the pair
of user and id in the topics; a document of `vault_positions` (`Holding`) also has the
vault, by which a mint looks it up and a duplicate check does not. `todo[w]` is what a
worker has still to hand over, `at[w]` the next call for the first of these: the
trigger's own search (`lookup`), the handler's duplicate check (`check`), the
positions of a buyout (`list`), the document (`create`), the effect (`apply`), and for
the funding of a buyout after a mint the search for a scheduled one (`tally`), the
reading of the position and of the dates (`weigh`), the `$inc` of the schedule (`fund`)
and that of the buyout (`book`). Both sums, `counted` and `booked`, count how often each
holding went into them. A call that answers with an error may have committed. Which calls a handler makes, in which
order, and which of their errors end it, differs between event types: `FirstCall`,
`AfterCheck`, `AfterCreate` and `AfterApply` say how. `done[i]` counts the effects of
log `i`; `excuse[i]` is a history variable that collects what has happened to its
processing (`Mishap`), so that the properties can say which mishaps explain a lost
or a repeated effect. What `vaultService` and `computeLabsService` do is external. Where
several handlers have the same code, the map in `PROJECT.json` names one of them.

**VaultListener** composes these handlers with the goroutines that call them: `Start`
adds contracts one by one beside the running loop, which begins behind the sync state
(`FirstEntry`) or, if there is none or it cannot be read, some blocks below the head
(`FirstEntryAfresh`: the document of the sync state may be created or not, and the logs
between are `skipped`); the monitor takes a batch
(`Fetch`, `FetchTruncated` with the supplement), hands it over in two passes,
deposits first, and saves its progress (`Save`); it may step back or die; the manual
trigger hands logs over again in each of its modes, at any time, with or without
`force_reprocess`, for the kinds of log that mode knows, as soon as there is a client for the chain, if a
closed one (`Accepts`). The ranges
of the monitor are the subject of `VaultMonitor`, the
token transfer that of `VaultDeposit`.

The `MC...` modules only give the constants their values for TLC. Operators whose
comment begins with "Mutant of" are mistakes one could make in that place; they
are used by no specification and are there to show that each property notices.

## 3. Model-checking runs

| Run | Distinct states | Checks |
|---|---|---|
| `poller` | 147,553 | `TypeOK`, `Coverage`, `NoDuplicateRows`, `RowsCanonical`, `CheckpointMonotone`, `ImplementsFeed`, `EveryLogHandled`, `ShutdownCompletes` |
| `ws_reorg` | 2.44 million | `TypeOK`, `LossAccounted`, `TornSharesBlock`, `ChannelNotPassed` |
| `ws_live` | 10,969 | `Reconnects`, `ChannelDrains`, `ShutdownCompletes` |
| `ws_catch_up` | violated | `CaughtUp` |
| `service` | 132 | `TypeOK`, `StoreUsable`, `CleanExit`, `SignalEnds` |
| `handler` | 404,308 | `TypeOK`, `AskedIsRegistered`, `VerdictAsConfigured`, `RowMatchesLog` |
| `vault_monitor` | 39,712 | `TypeOK`, `NothingUnread`, `ReadConfirmed`, `KeepsUp`, `StopCompletes` |
| `vault_reduced` | violated | `ReducedIsAsked` |
| `vault_deposit` | 348,160 | `TypeOK`, `MintsBacked`, `DoubleMintExplained`, `UnpaidExplained`, `ConfirmedIsPaid`, `PositionOfRecord`, `WorkersReturn` |
| `vault_minted_once` | violated | `MintedOnce` |
| `vault_events` | 832,783 | `TypeOK`, `LossExplained`, `DoubleExplained`, `StatusFollowsChain`, `FundingExact` |
| `vault_forced` | violated | `ForcedReprocesses` |

### Bounds, and why they are enough

- `poller`: three logs, one of them of no interest to the processor, three blocks,
  batches of two (the default, since none is configured), one confirmation, one
  abandoned statement, reorganisations of one block, contracts starting at blocks 1
  and 2. Three logs give a range with several logs, two ranges, a log that stays and
  one that moves; three blocks give a full range, a clamped one and a restart between
  them. One late statement is enough to meet every other statement, because each
  step concerns at most one row. The proof (section 5) removes all these bounds.
  There is no symmetry, so that safety and liveness are checked in one run.
- `ws_reorg`: two blocks and two logs that may share a block, which is what a torn
  block needs; one reorganisation and one late statement meet in every order. With
  three blocks TLC finds 23 million states and no error, in too long a time to
  repeat with each change.
- `ws_live` has one log but three blocks, so that the backfill takes two ranges and
  `FilterLogs` may be refused in either.
- `service`: three chains, one polled: one goroutine that can return by itself
  beside two that cannot, and a chain still to be started.
- `handler`: two chains, two addresses, two events, all six spellings of a prefix
  and all configurations of one or two contracts: all a lookup by one key can
  confuse. Rows are compared for all events of two parameters of nine types, any
  of them indexed, with words below 4 and addresses, bytes and small integers of two
  values: two parameters are what one counter can mix up. The hash of a dynamic value
  is a permutation without a fixed point. The system stops only
  with its caller, hence no deadlock check.
- `vault_monitor`: batch sizes 1 to 3, so that halving, doubling, clamping to what
  is available and the reset to the maximum all occur, and a chain that starts at
  height 0, below `Confirmations + StepBack`, so that a step back can pass block 0
  (`NamedBlocks` stands for the negative numbers a node reads as names).
- `vault_deposit`: two workers, one deposit that may be handed over twice and that
  the deployer can pay once, and one of a vault that mints by itself. A third
  worker adds no new pair of steps; `vault_minted_once` has both deposits paid by
  the backend.
- `vault_events`: eleven histories of two or three logs, each one a group of events
  that share a key, a position or a document; logs that share none of these do not
  disturb each other. Two faults (a failed call, an unreadable sync state, a truncated
  answer, a step back, a death or a request to the trigger) give a failure and a failure
  of its repair, and a request meets the monitor at each of its calls. Three histories
  have a buyout: with a deposit before it, after it, and after its date. `SuspiciousCounts` has one member,
  as a transaction of the model has at most three logs. The process may rest at any
  time, hence no deadlock check.

### Fairness

- `Poller`: the goroutine is scheduled (weak fairness of its steps). `FilterLogs`
  may fail any number of times but not for ever (strong fairness): the code asks
  again at each tick, and nothing else can make progress if the node never
  answers. No fairness is assumed for crashes, signals, blocks or late statements.
- `WebSocket`: the same for each call of `runOnce`, where `FilterLogs` for another
  range is another call: a node that answers for the first range for ever but never
  for the second is not excused by the first. A connection may break at any time.
  The liveness properties assume that the process is not killed for ever
  (`EventuallyUndisturbed`).
- `Service`: `main` and the goroutines are scheduled, a store call ends, and a
  listener with a done context returns; that last one is what `ShutdownCompletes`
  shows of both listeners. Nobody owes the process a signal.
- `VaultMonitor`: as for the poller.
- `VaultDeposit`: workers are scheduled and their calls end; a transfer does not
  stay pending for ever, though it may be dropped. That `WaitMined` fails is *not*
  assumed, because its context has no deadline.
- `VaultListener`: none; its properties are all about safety.

## 4. Findings

- `ws_catch_up`: the comment at `websocket.go:59-61` says that the catch-up step
  is there so that nothing that happened while the service was down is missed.
  `backfill` stops at the newest confirmed block and the subscription brings only
  later ones, so the last `confirmations` blocks (and those mined between the two
  calls) are read by neither; the first live log then moves the checkpoint past
  them. `LossAccounted` shows that this, dropped connections and reorganisations
  are the only ways in which a log is lost.
- `vault_reduced`: after a refused range the loop logs that it reduced the batch
  size (`sampleExample.go:2105`), but with more than `VaultMaxBatchSize` blocks to
  read lines 2043-2044 set it to the maximum again before the next query. A node
  that refuses ranges of 100 blocks is asked for 100 blocks until the chain has
  caught up, which it cannot.
- `vault_minted_once`: the duplicate check (`sampleExample.go:2461`) takes every
  error for "not found" and is not atomic with the document it looks for, so a
  deposit handed over twice may be paid twice. `DoubleMintExplained` shows that
  these two are the only reasons.
- `vault_forced`: the comment at `sampleExample.go:4416` says of `force_reprocess`
  that it reprocesses even what is processed. It only leaves out the trigger's own
  search; the handler's duplicate check still finds the document, so an event whose
  document was stored and whose effect failed, which is what one would force, is
  skipped and counted as processed.

More behaviours are part of the models rather than findings, since no text
promises otherwise:

- Rows of removed logs stay in the table of a subscribed chain.
- A negative integer in a topic is stored as itself plus 2^256, the same integer in
  the data with its sign. Integers of at most 64 bits and fixed bytes in the data are
  JSON numbers and arrays; the same types in a topic, and larger integers in the data,
  are strings (`RowMatchesLog`).
- A deposit whose worker dies between its document and its transfer is never paid
  (`UnpaidExplained` names it), and a step back takes the saved progress back.
- The first pass of a batch handles its deposits before a buyout of an earlier
  block; the position is then in the sum of the buyout and in the later increment
  (`hoisted` in `Undisturbed`, a hypothesis of `FundingExact`).
- The supplement and the trigger's modes each know their own list of signatures
  (`Supplemented`, `KnownByTx`, `KnownByRange`); by block range two signatures are
  counted as processed without any handler.
- Position 0 in a request, said to stand for all positions, is searched for as such.
- After a step back the sync state is ahead of the loop; a death there leaves the
  status of a vault at an event in the middle of the replay (`interrupted`).
- A buyout is inserted before the schedule that guards it, so a failure in between
  inserts it again (`DoubleExplained`).
- A start that cannot read the sync state takes it for missing, begins 1000 blocks below
  the head, and the next save passes what it left out (`skipped` in `LossExplained`).
- The duplicate checks compare user, id and transaction but not the contract: of two
  deposits with the same of these in two vaults, the second one is taken for the first
  (`Twin`). The mints do compare the contract.
- A deposit made after the date of a scheduled buyout is in neither of its sums
  (`Late`); one made before the buyout was scheduled always has its principal in both,
  whatever the date.

## 5. Proofs

Each module of proofs has the theorem `Inductive` (its component's `IInv` is an
invariant) and one theorem per property, which follows from `IInv` alone.
`ListenerProofs` holds the lemmas about `Store` and `Listener` that both listeners
need. `TypeCorrect` and `Inductive` occur once in each module.

`PollerProofs` proves, for every number of logs and blocks, every batch size,
confirmation depth, start block and number of late statements:

| Theorem | Statement |
|---|---|
| `TypeCorrect` | The poller's variables keep their types, the range bounds included, for any chain, configuration and batch size that does not wrap a uint64. |
| `Inductive` | IInv is an invariant: memory, tables, late statements and chain agree at every point between two calls. |
| `NothingIsSkipped` | No accepted log at or below the checkpoint is missing from the table without its error having been reported, through crashes, errors, late statements and final reorganisations. |
| `StoredOnce` | However often a range is read again, a log has one row. |
| `RowsStayTrue` | With MaxReorg <= Confirmations no reorganisation falsifies a stored row. |
| `CheckpointStaysBehind` | The checkpoint is always Confirmations blocks behind the head. |
| `CheckpointNeverFalls` | No step, late upserts included, lowers the checkpoint. |
| `FeedImplemented` | The poller implements EventFeed under the refinement mapping of Poller!Feed: every step is a step of the feed or leaves what its readers see. |

`VaultMonitorProofs` proves, for every range of batch sizes, confirmation depth,
look-back, step back and height of the chain:

| Theorem | Statement |
|---|---|
| `Inductive` | `IInv` is an invariant of the loop. |
| `TypeCorrect` | A batch is never empty nor longer than the maximum, and the loop never stands further below zero than one step back. |
| `OnlyConfirmedIsRead` | Only blocks strictly below the newest confirmed one are read. |
| `SyncStateClaimsNothingUnread` | Every block from the first one to `last_block_processed` has been processed, or was skipped by a start that could not read the sync state or by a range that began below zero. |

`WebSocketProofs` proves, for every finite set of logs, every number of blocks and of
reorganisations, every depth of these and of `confirmations`, and any number of late
statements:

| Theorem | Statement |
|---|---|
| `Inductive`, `TypeCorrect` | `IInv` is an invariant; so are the types, the contents of the channel included. |
| `LossesAccounted` | An accepted log at or below the checkpoint is stored, failed, in the channel, or lost in one of the three ways `LossAccounted` names. |
| `TornIsShared` | Without reorganisations, a log that a disconnection lost below the checkpoint shares its block with one that was handled. |
| `ChannelAhead` | Without reorganisations, the checkpoint never passes the block of a log that is still in the channel. |
| `NeverBack` | No step takes the checkpoint back. |

`ServiceProofs` proves, for every non-empty list of distinct chains, polled or not:

| Theorem | Statement |
|---|---|
| `Inductive`, `TypeCorrect` | `IInv` is an invariant; the wait group's counter stays between 0 and the number of chains. |
| `StoreStaysUsable` | A listener in the store finds its pool open and its tables there. |
| `NobodyLeftBehind` | At `bye` every listener has returned and the pool is closed. |

`HandlerProofs` proves, for every configuration of any length, any addresses,
spellings and events:

| Theorem | Statement |
|---|---|
| `Inductive`, `TypeCorrect` | `IInv` is an invariant; the registry's values are contracts of the configuration. |
| `AskedIsKnown` | What a listener asks for is registered, but for the spellings `AskedIsRegistered` names. |
| `VerdictIsConfigured` | A stored log was asked for by a contract of its own chain and address; a dropped one was not, or a later entry replaced the one that did. |
| `RowIsAsEmitted` | For an event of any number of parameters, any of them indexed, the row has a value for each: one of the data in the form `toJSONFriendly` gives its type; an indexed integer as its decimal string modulo 2^256, an indexed dynamic value as its hash, any other as it was emitted. |

`VaultDepositProofs` proves, for any number of deposits, workers and hand-overs:

| Theorem | Statement |
|---|---|
| `Inductive`, `TypeCorrect` | `IInv` is an invariant; a deposit has no more documents and transfers than hand-overs. |
| `TransfersAreBacked` | Each transfer, sent or about to be, has a document of its own. |
| `DoublesHaveACause` | Two transfers of one deposit need a race at the duplicate check, or a check answered by an error. |
| `UnpaidHasACause` | A recorded deposit is not left unpaid without a transfer out, a logged error, an unseen receipt or a death. |
| `ConfirmationIsTrue` | A confirmed position was paid, unless its receipt could not be had. |
| `RecordsGetPositions` | A recorded deposit has its position, a logged error or a death. |

`VaultListenerProofs` proves, for every history of vault logs, any projects and
positions, any number of faults and of requests:

| Theorem | Statement |
|---|---|
| `Inductive`, `TypeCorrect` | `IInv` is an invariant of the monitor, the trigger and the handlers they share; the types are those of `TypeOK`. |
| `LossesExplained` | Every effect due at or below the saved progress has happened or has one of the causes that `LossExplained` names; a mint has its effect on a position of its own vault only. |
| `DoublesExplained` | A guarded effect happens twice only after a race, a check answered by an error, a document replayed on request, or a buyout's failure between its two inserts. |
| `StatusIsNew` | The status of a vault is not older than any event the monitor has been through, but for the causes of `Followed`. |
| `FundingCorrect` | Both sums of a scheduled buyout contain each active position exactly once, on whichever side of the schedule its deposit was, and neither contains one deposited after the buyout's date, for the purchases that `Purchase` and `Undisturbed` describe. |

### Assumptions

- `ChainAssumption`, `StoreAssumption`, `ConfigAssumption`, `MonitorAssumption`,
  `ChainsAssumption`, `DepositAssumption` and those of `Handler` only say what kind of
  value each constant is; `LogAssumption` and `DepositAssumption` also that there are
  finitely many logs and workers, because a range of logs is put in an order and
  workers are counted. `ChainsAssumption` takes the chains of the file as distinct.
- `HandlersAssumption`: the logs of a vault come in the order of their blocks, none
  in block 0, and those of deposits, redemptions and mints name a position.
  `ListenerAssumption`: the monitor and the trigger are two workers; the lengths at
  which an answer is taken for truncated are naturals.
- `WordAssumption`: words and small integers have an even number of values, addresses,
  bytes and small integers fit in a word, and the hash of a word is a word.
- `FundingExact` has hypotheses of its own. `Purchase` is what the contracts emit: a
  position has one deposit and one mint, a vault one buyout, and the buyout does not
  come between the two, because the contract mints in the transaction of the deposit;
  no other vault has a deposit of that user and id in the same transaction.
  `Undisturbed` rules out, for these three logs only, the mishaps with which the code
  does miscount: a failed or repeated call, a request of the operator, and the deposit
  that the first pass of a batch puts before the schedule.
- `BatchAssumption`: the highest block plus the batch size fits a uint64.
  `RangeEnd` wraps otherwise and the listener would ask for ranges that end before
  they begin; `config.Load` does not refuse such a size.
- `FinalityAssumption`: `MaxReorg <= Confirmations`, what an operator asks for by
  setting `confirmations`. Without it no polling listener can be correct. Only the
  poller assumes it; the runs and the proofs of `WebSocket` do not.
- Late statements may be as many as `MaxAbandoned` says, in any order, at any time.

### Why the invariants are stronger than the properties

`Coverage` is not inductive. Whether a saved checkpoint is safe depends on what
the listener did before it saved it, so `Poller!IInv` follows the cursor through
memory: `RangeDeep` (the range being read is final), `CursorCovered` (all below
the cursor is dealt with) and, inside a range, `RangeCovered` (all in it is dealt
with but the pending logs). A statement that was given up commits later, when the
listener has moved on or died: `MarksCovered` therefore speaks of every upsert
under way as well as of the row, and `RowsFinal` of every insert under way and
every log in memory. A reorganisation moves logs: it is harmless because all these
claims are about blocks at least `Confirmations` deep, which is why `Final` and
`Deep` are in them. `Recorded` and `failed` only grow, so a covered block stays
covered; `CheckpointMonotone` uses the upsert's `WHERE`, not the order of calls.

`NothingUnread` of the vault monitor is not inductive either: `SyncedAfterOrigin`
makes it survive the first start, `CurrentAboveDealt`, `RangeNotEmpty` and
`SavesDealt` carry it from the read of a range to the save of its end, and
`SyncedBelowHead` keeps a resumed loop inside the chain. A step back lowers
`current`, which keeps the loop above a part of what it has dealt with.

For the subscribing listener it is the block of each log in the channel that will be
the next checkpoint. So `WebSocket!IInv` says of every number that may become one
(the marks, the late ones, the cursor less one, the blocks in the channel) that it is
in `Known`: all logs up to it are accounted for. `ChannelKnown` keeps a connected head
in `Known`, because a live subscription is told of every change; and a reorganisation
only takes logs out of the account that `moved` or the channel put back. While there
has been no reorganisation the channel also has the order of the chain
(`ChannelOrdered`), and what a broken connection tore off is no older than what it
left (`TornLast`); this makes the same numbers members of `Shared`.

`Service!IInv` ties the counter of the wait group to the number of goroutines that
run (`Counted`) and main's place to the pool, the tables and the counter
(`InSequence`): `Close` comes after a `Wait` that saw the counter at 0.

`Handler!IInv` says what the half-built registry is: each key has the last contract
read so far that spells it.

`VaultDeposit!IInv` counts: documents and workers before the document do not exceed
the hand-overs (`HandedOut`), transfers and workers before the transfer do not exceed
the documents (`MintsBacked`), and a second document, or worker about to write one,
has its excuse (`DoublesExplained`): the one that comes first passes its check with no
rival. `InHand` carries `UnpaidExplained` and `PositionOfRecord` over the calls of a
worker: what a recorded deposit lacks is in the hands of a worker that has not yet
come to it. `HashKept` ties a hash that reaches the position to a transfer that moved.

`VaultListener!IInv` has a part for each question and two for all of them:
`ControlFits` (the next call of a worker fits the log it is at; the monitor's logs are
those of its batch; the trigger's are marked) and `MonitorInOrder` (what is left of the
two passes is in order, but for logs appended from receipts).

- Doubles (`EffectsOnce`): a worker past the duplicate check is alone with its log, and
  what was applied has its document or the worker about to write it. Two workers at one
  check are a race, and the race is in `excuse` before either goes on.
- Losses (`LossesAccounted`, `DepositsAccounted`): an effect that is due has happened,
  is lost for a cause, is in the hands of a worker, or waits in the batch above the
  saved progress. A document that is found counts as the effect, hence the second part:
  a document without an effect has a cause or a worker at its effect.
- Status (`StatusFollows`): up to `Front`, the last block the loop is through with, and
  for what the batch at hand is through with, the status is new enough, and every
  status event still to come is newer than those handled.
- Funding (`FundingFollows`): for a deposit after the buyout, that its position does not
  exist before the buyout is stored and that each sum has it once the mint is past the
  call that adds it, unless it is late (`AddedLater`); for
  one before, that the mint was handled before the positions were listed, and that the
  list has the position until it is spent (`ListedBefore`). `HistoryFits` excludes the
  ways around the check that need a request.

TLC checked these parts on the histories of `vault_events` before they were proved.

### What is only model-checked

- All liveness: fairness and `ENABLED` are out of the prover's reach.
- Whatever a run says of a disagreement (section 4): TLC shows the counterexample.

Every other safety property of a passing run is a theorem. `CheckpointConfirmed`, and
`CheckpointMonotone` of the subscribing listener, are theorems and no properties of a
run.

## 6. What is not modelled

- Time: tickers, back-offs and deadlines appear as "may happen now"; only the
  order of events is modelled.
- Reading of YAML and environment, defaults of the configuration other than the
  batch size, the migration's SQL, connection pooling, logging.
- An ABI that indexes other parameters of an event than the contract does: the
  signature is the same, and the row then holds words under other names, or an
  error. `RowMatchesLog` is about logs whose ABI is right.
- Two entries of the configuration with one chain id: their listeners share a
  checkpoint row in the code; each model has one listener per chain. The same goes
  for a restart with a changed configuration.
- Parameters of dynamic types other than as opaque values: a string stands for slices
  and tuples too, which `toJSONFriendly` also leaves as they are.
- Contract addresses in the configuration that are not forty hexadecimal digits after
  their prefix.
- Amounts: a transfer of zero tokens counts as a transfer, and a sum of a buyout is the
  number of times that each position went into it.
- In the sample: `processClaimRequestedEvent` and `processPaymentProcessedEvent`,
  which nothing calls; the tallies of the trigger's response; the loading of keys
  and ABI files; and what the services behind the handlers do, which is not in the
  repository.

`PROJECT.json` lists every component with its status and, under "hazards", the
lines where this code can go wrong and what would notice.

## 7. What could follow

1. Two listeners on one checkpoint row, and a restart with a changed configuration,
   as further actions of `Listener`: a hazard without a property. The other one is the
   transfer of zero tokens, which needs amounts in `VaultDeposit`.
2. An ABI that disagrees with the contract about what is indexed, in `Decode`.
3. An abstract specification of the vault's books (each position paid, counted and
   closed once) that `VaultListener` and `VaultDeposit` implement.

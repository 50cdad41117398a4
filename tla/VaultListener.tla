--------------------------- MODULE VaultListener ---------------------------
(***************************************************************************)
(* contracts/abi/sampleExample.go: the goroutines that hand the logs of a  *)
(* chain to the handlers.  Start adds the vaults of the configuration, the *)
(* monitor reads batches of blocks and completes them from receipts, and   *)
(* the manual trigger hands logs over again on request.                    *)
(*                                                                         *)
(* Which range the monitor asks for and when is the subject of             *)
(* VaultMonitor; here a batch ends at any block.                           *)
(***************************************************************************)
EXTENDS VaultHandlers, Integers

CONSTANTS
  Monitor, Trigger,  \* the two workers
  SuspiciousCounts   \* the numbers of logs that hint at a truncated answer

ASSUME ListenerAssumption ==
  /\ Worker = {Monitor, Trigger}
  /\ Monitor # Trigger
  /\ SuspiciousCounts \subseteq Nat

VARIABLES
  entered,   \* the entries of the configuration that Start has gone through
  watched,   \* s.contractAddresses: the projects whose vault is asked for
  client,    \* s.clients: "none", "open", or "closed" by StartMonitoringChain
  next,      \* the first block of the monitor's next batch
  upto,      \* the last block of the batch at hand, below next if there is none
  synced     \* last_block_processed, or NoState

listenerVars == <<entered, watched, client, next, upto, synced>>
vars == <<handlerVars, listenerVars>>

NoState == -1

Block == {chain[i].tx : i \in Index}
Height == IF chain = << >> THEN 0 ELSE chain[Len(chain)].tx

TypeOK ==
  /\ HandlersTypeOK
  /\ watched \subseteq entered /\ entered \subseteq Vault
  /\ client \in {"none", "open", "closed"}
  /\ next \in 1..(Height + 1)
  /\ upto \in 0..Height
  /\ synced \in NoState..Height

Init ==
  /\ HandlersInit
  /\ entered = {}
  /\ watched = {}
  /\ client = "none"
  /\ next = 1
  /\ upto = 0
  /\ synced = NoState

Logs(s) == {s[k] : k \in DOMAIN s}

\* The logs of S in the order of the chain.
InOrder(S) ==
  [k \in 1..Cardinality(S) |-> CHOOSE i \in S : Cardinality({j \in S : j <= i}) = k]

\* The logs of S, those of one group together and in their order.
Grouped(S, group) ==
  {s \in [1..Cardinality(S) -> S] :
     \A j, k \in DOMAIN s : j < k =>
       /\ s[j] # s[k]
       /\ group[s[j]] = group[s[k]] =>
            s[j] < s[k] /\ \A l \in j..k : group[s[l]] = group[s[j]]}

\* A worker takes the logs of s, and looks for documents as m says.
Takes(w, m, s) ==
  /\ ~Working(w)
  /\ todo' = [todo EXCEPT ![w] = s]
  /\ mode' = [mode EXCEPT ![w] = IF s = << >> THEN "none" ELSE m]
  /\ at' = [at EXCEPT ![w] = Ready(m, s)]
  /\ UNCHANGED <<chain, store, findings>>

-----------------------------------------------------------------------------
(* Start and StartMonitoringChain.                                         *)

\* An invalid entry, or no endpoint answers: Start goes on with the others.
EntryFails(p) ==
  /\ Fault
  /\ entered' = entered \cup {p}
  /\ UNCHANGED <<chain, store, workers, excuse, watched, client, next, upto, synced>>

\* The first entry of the chain starts its goroutine, behind the sync state.
FirstEntry(p) ==
  /\ client = "none"
  /\ synced # NoState
  /\ client' = "open"
  /\ entered' = entered \cup {p}
  /\ watched' = {p}
  /\ next' = synced + 1
  /\ UNCHANGED <<handlerVars, upto, synced>>

\* There is no sync state, or reading it failed, which is taken for the same: it
\* begins some blocks below the head, wherever that is.  Creating the document
\* may fail, and one that exists stays the one FindOne and Upsert see.
FirstEntryAfresh(p) ==
  /\ client = "none"
  /\ \/ synced = NoState /\ UNCHANGED faults
     \/ synced # NoState /\ Fault
  /\ client' = "open"
  /\ entered' = entered \cup {p}
  /\ watched' = {p}
  /\ next' \in 1..(Height + 1)
  /\ \/ synced = NoState /\ synced' = next' - 1
     \/ synced' = synced
  /\ excuse' = [i \in Index |->
       IF chain[i].tx \in (synced + 1)..(next' - 1) THEN excuse[i] \cup {"skipped"}
       ELSE excuse[i]]
  /\ UNCHANGED <<chain, store, workers, upto>>

\* Then BlockNumber is asked for, and if it fails, the client is closed but stays
\* in the map.
FirstEntryFails(p) ==
  /\ client = "none"
  /\ Fault
  /\ client' = "closed"
  /\ entered' = entered \cup {p}
  /\ watched' = {p}
  /\ UNCHANGED <<chain, store, workers, excuse, next, upto, synced>>

\* A further one only adds its contract, beside a goroutine that may be running.
FurtherEntry(p) ==
  /\ client # "none"
  /\ entered' = entered \cup {p}
  /\ watched' = watched \cup {p}
  /\ UNCHANGED <<handlerVars, client, next, upto, synced>>

Start ==
  \E p \in Vault \ entered :
    \/ EntryFails(p)
    \/ FirstEntry(p)
    \/ FirstEntryAfresh(p)
    \/ FirstEntryFails(p)
    \/ FurtherEntry(p)

-----------------------------------------------------------------------------
(* One batch of monitorVaultEvents.                                        *)

\* The signatures that verifyAndSupplementLogsFromReceipts is given.
Supplemented ==
  Signature \ {"RazeReserveVaultDeposit", "RazeReserveVaultRedeemed", "CLGPUTokensTransferred"}

LogsOf(b) == {i \in Index : chain[i].tx = b}

\* What the receipt of block b's transaction holds of the watched vaults.
Receipt(b) == {i \in LogsOf(b) : chain[i].vault \in watched /\ chain[i].kind \in Supplemented}

AreDeposits(S) == {i \in S : chain[i].kind \in Deposits}

\* Deposits first, so that positions exist when they are updated; in each pass
\* those of S in their order, then those that were appended.
TwoPasses(S, added) ==
  InOrder(AreDeposits(S)) \o InOrder(AreDeposits(added)) \o
  InOrder(S \ AreDeposits(S)) \o InOrder(added \ AreDeposits(added))

\* Deposits that are handled before a buyout of an earlier block.
Hoisted(S) ==
  {d \in S : /\ chain[d].kind \in Deposits
             /\ \E b \in S : chain[b].kind = "BuyoutScheduled" /\ b < d}

Batch(e) == {i \in Index : chain[i].tx \in next..e}

\* The monitor begins a batch that ends with block e.  FilterLogs has left out
\* the logs of cut, and the receipts have brought back those of added.
Fetched(e, cut, added) ==
  LET asked == {i \in Batch(e) : chain[i].vault \in watched}
      taken == (asked \ cut) \cup added
      noted == [i \in Index |->
                 (IF i \in Batch(e) \ asked THEN {"unwatched"} ELSE {}) \cup
                 (IF i \in cut \ added THEN {"cut"} ELSE {}) \cup
                 (IF i \in added THEN {"appended"} ELSE {}) \cup
                 (IF i \in Hoisted(taken) THEN {"hoisted"} ELSE {})]
  IN /\ Takes(Monitor, "none", TwoPasses(asked \ cut, added))
     /\ excuse' = [i \in Index |-> excuse[i] \cup noted[i]]
     /\ upto' = e
     /\ UNCHANGED <<entered, watched, client, next, synced>>

Between == client = "open" /\ upto < next /\ ~Working(Monitor)

Fetch ==
  /\ Between
  /\ \E e \in next..Height : Fetched(e, {}, {})
  /\ UNCHANGED faults

\* FilterLogs leaves out the last logs of a transaction.  If their number is a
\* suspicious one, the receipt is fetched, and if it has more logs of the listed
\* signatures than FilterLogs had of all, those of them are added.
FetchTruncated ==
  /\ Between
  /\ Fault
  /\ \E e \in next..Height : \E b \in next..e :
       LET asked == {i \in LogsOf(b) : chain[i].vault \in watched}
       IN \E first \in asked :
            LET cut  == {i \in asked : i > first}
                left == Cardinality(asked \ cut)
            IN /\ cut # {}
               /\ \/ Fetched(e, cut, {})
                  \/ /\ left \in SuspiciousCounts
                     /\ Cardinality(Receipt(b)) > left
                     /\ Fetched(e, cut, Receipt(b) \cap cut)

\* Mutant of NextBatch: the loop goes on a block too far.
NextBatchTooFar(e) == e + 2

\* currentBlock after a batch that ends with block e.
NextBatch(e) == e + 1

\* updateLastProcessedVaultBlock; its error is printed.
Save ==
  /\ client = "open"
  /\ upto >= next
  /\ ~Working(Monitor)
  /\ next' = NextBatch(upto)
  /\ \/ synced' = upto /\ UNCHANGED faults
     \/ synced' = synced /\ Fault
  /\ UNCHANGED <<chain, store, workers, excuse, entered, watched, client, upto>>

\* The loop was stuck and goes back.
StepBack ==
  /\ Between
  /\ Fault
  /\ next' \in 1..(next - 1)
  /\ upto' = 0
  /\ UNCHANGED <<chain, store, workers, excuse, entered, watched, client, synced>>

-----------------------------------------------------------------------------
(* The manual trigger.                                                     *)

KnownByTx == Signature \ {"ComputeLabsVaultDeposit", "ComputeLabsVaultRedeemed"}

\* The names of ManualTriggerByBlockRange that its switch has a case for.
KnownByRange ==
  KnownByTx \ {"KnotsVaultDeposit", "RazeReserveVaultRedeemed"}

\* What ManualTriggerByTxHash hands over of a transaction, of any contract.
OfTransaction(b) == {i \in LogsOf(b) : chain[i].kind \in KnownByTx}

\* The watched contracts' logs of a range, of the kinds asked for.
OfRange(lo, hi, kinds) ==
  {i \in Index : /\ chain[i].tx \in lo..hi
                 /\ chain[i].vault \in watched
                 /\ chain[i].kind \in kinds \cap KnownByRange}

\* eventTypeFilter: one event type, or all.
TypeFilter == {Signature} \cup {{chain[i].kind} : i \in Index}

Forced(m) == {"forced", m}

\* A client for the chain is found, if a closed one.
Accepts == client # "none" /\ Fault

Requested(m, s) ==
  /\ Takes(Trigger, m, s)
  /\ excuse' = [i \in Index |->
       IF i \in Logs(s) THEN excuse[i] \cup {"triggered"} ELSE excuse[i]]
  /\ UNCHANGED <<entered, watched, client, next, upto, synced>>

ManualTriggerByTxHash ==
  /\ Accepts
  /\ \E b \in Block : \E m \in Forced("by name") : Requested(m, InOrder(OfTransaction(b)))

\* One query for each contract, and the logs of each in their order.
ManualTriggerByBlockRange ==
  /\ Accepts
  /\ watched # {}
  /\ \E lo, hi \in Block : \E m \in Forced("by signature") :
       \E kinds \in TypeFilter :
         \E s \in Grouped(OfRange(lo, hi, kinds), [i \in Index |-> chain[i].vault]) :
           lo <= hi /\ Requested(m, s)

\* Every transaction with a document of the position, in any order.  Position 0,
\* said to stand for all positions (line 4988), is searched for as such.
ManualTriggerByUserAndPosition ==
  /\ Accepts
  /\ \E p \in Position : \E m \in Forced("by name") :
       LET found == {chain[i].tx : i \in {j \in docs : InVaultEvents(j) /\ chain[j].position = p}}
       IN \E s \in Grouped(UNION {OfTransaction(b) : b \in found}, [i \in Index |-> chain[i].tx]) :
            Requested(m, s)

\* vaultService is called with the document; no handler, no search.
ManualTriggerByStoredEvent ==
  /\ Fault
  /\ ~Working(Trigger)
  /\ \E i \in docs :
       /\ EventName(chain[i].kind) \in {"VaultDeposit", "VaultRedeemed", "RedemptionRequested",
                                        "PositionStatusUpdated", "VaultRolledOver"}
       /\ Effect(i, {})
       /\ Note(i, "stored")
  /\ UNCHANGED <<chain, workers, entered, watched, client, next, upto, synced>>

\* All roll-overs of one transaction go to their handler.
FixMissingEvents ==
  /\ Accepts
  /\ \E b \in Block :
       Requested("none", InOrder({i \in LogsOf(b) : chain[i].kind = "VaultRolledOver"}))

ManualTrigger ==
  \/ ManualTriggerByTxHash
  \/ ManualTriggerByBlockRange
  \/ ManualTriggerByUserAndPosition
  \/ ManualTriggerByStoredEvent
  \/ FixMissingEvents

-----------------------------------------------------------------------------

\* The monitor is at blocks that it has been through, and the sync state knows.
Replaying == client = "open" /\ next <= synced

\* The process ends and starts again.
Die ==
  /\ Fault
  /\ client # "none"
  /\ at' = [w \in Worker |-> "idle"]
  /\ todo' = [w \in Worker |-> << >>]
  /\ mode' = [w \in Worker |-> "none"]
  /\ list' = [w \in Worker |-> {}]
  /\ buyout' = [w \in Worker |-> 0]
  /\ excuse' = [i \in Index |->
       excuse[i] \cup
       (IF \E w \in Worker : Working(w) /\ Job(w) = i THEN {"died"} ELSE {}) \cup
       (IF Replaying /\ chain[i].tx <= synced THEN {"interrupted"} ELSE {})]
  /\ entered' = {}
  /\ watched' = {}
  /\ client' = "none"
  /\ next' = 1
  /\ upto' = 0
  /\ UNCHANGED <<chain, store, synced>>

Next ==
  \/ \E w \in Worker : Handle(w) /\ UNCHANGED listenerVars
  \/ Start
  \/ Fetch
  \/ FetchTruncated
  \/ Save
  \/ StepBack
  \/ ManualTrigger
  \/ Die

Spec == Init /\ [][Next]_vars
-----------------------------------------------------------------------------
(* Safety.                                                                 *)

Held(i) == \E w \in Worker : i \in Logs(todo[w])

\* The monitor of this process has been through the block of log i.
Passed(i) == Between /\ chain[i].tx < next

\* The monitor has read the block of log i, in this process or an earlier one.
Reached(i) == chain[i].tx <= synced \/ chain[i].tx < next \/ chain[i].tx <= upto

\* Something went wrong with the processing of log i.
Mishaps(i) == excuse[i] \cap {"refused", "died", "cut", "unwatched", "skipped"}
Races(i) == excuse[i] \cap {"blind", "raced", "overtaken"}

\* Another event of the same name, transaction, user and position id.
Twin(i, m) ==
  /\ m # i
  /\ chain[m].tx = chain[i].tx
  /\ EventName(chain[m].kind) = EventName(chain[i].kind)
  /\ chain[m].position = chain[i].position

\* The handler of log i comes to its effect.
Acts(i) == Supported(i) /\ (chain[i].kind \in StatusEvents => ComputeLabs(i))

\* Log i is meant to have an effect besides its document.
HasEffect(i) == Acts(i) /\ (chain[i].kind = "CLGPUTokensTransferred" => ComputeLabs(i))

\* The deposits that the mint of log i can follow.
DepositsOf(i) ==
  {d \in Index : /\ chain[d].kind \in Deposits
                 /\ Place(d) = Place(i)
                 /\ chain[d].tx <= chain[i].tx}

\* A deposit was lost, or skipped for a twin that was, or that is another vault's.
DepositLost(d) ==
  \/ Mishaps(d) \cup Races(d) # {}
  \/ \E m \in docs : Twin(d, m) /\ (Mishaps(m) # {} \/ Place(m) # Place(d))

Accounted(i) ==
  \/ done[i] > 0
  \/ Mishaps(i) # {}
  \/ \E m \in docs : Twin(i, m)
  \/ chain[i].kind \in Mints /\ \A d \in DepositsOf(i) : DepositLost(d)

(***************************************************************************)
(* An accounting of every effect the listener can lose.  An event below    *)
(* the sync state that nobody is working on has had its effect, unless a   *)
(* call failed or the process died under it, FilterLogs left it out, Start *)
(* had not added its contract in time or began behind it for want of a     *)
(* sync state (1777-1806), or it is taken for another event of its         *)
(* transaction, be it of another vault (2466-2475).  A mint is also lost   *)
(* with every deposit of its position in its vault so far, or to a worker  *)
(* that is still busy with one: the two passes see to the rest             *)
(* (2124-2152).                                                            *)
(***************************************************************************)
LossExplained ==
  \A i \in Index : (chain[i].tx <= synced /\ ~Held(i) /\ HasEffect(i)) => Accounted(i)

\* Handlers that do not look for a document, or look where there is never one.
Unguarded == Mints \cup StatusEvents \cup Undocumented

(***************************************************************************)
(* However often a log is read again, after a death, a step back or on     *)
(* request, a guarded handler gives it its effect once, unless two workers *)
(* raced, the check was answered by an error, or an operator replayed its  *)
(* document.  A buyout is scheduled before the document that guards it, so *)
(* it is repeated after a failure in between (3148-3310).                  *)
(***************************************************************************)
DoubleExplained ==
  \A i \in Index :
    (done[i] > 1 /\ chain[i].kind \notin Unguarded) =>
      \/ excuse[i] \cap {"blind", "raced", "stored"} # {}
      \/ chain[i].kind = "BuyoutScheduled" /\ excuse[i] \cap {"died", "refused"} # {}

StatusLogs(S) == {i \in S : chain[i].kind \in StatusEvents /\ ComputeLabs(i)}

Followed(i) ==
  \/ status >= i
  \/ Mishaps(i) # {}
  \/ "interrupted" \in excuse[i]
  \/ status # 0 /\ excuse[status] \cap {"triggered", "appended"} # {}

(***************************************************************************)
(* The status of a vault is never older than an event the monitor has been *)
(* through, although any event handled again overwrites it (4069-4284):    *)
(* replays go forward, so they end with the newest.  Only a log that       *)
(* failed or was lost, one handed over out of order by the trigger or the  *)
(* log supplement, or a death within the replay after a step back (2018:   *)
(* the next process starts behind the replay) leaves it stale.             *)
(***************************************************************************)
StatusFollowsChain == \A i \in StatusLogs({i \in Index : Passed(i)}) : Followed(i)

\* What the contracts emit: the position of a Compute Labs deposit d has one mint
\* c, and the vault one buyout b, which does not come between the two.  No other
\* vault has a deposit of that user and id in the same transaction.
Purchase(d, c, b) ==
  /\ ComputeLabs(d) /\ chain[d].tx <= chain[c].tx
  /\ \A i \in Index : chain[i].kind \in Deposits /\ Place(i) = Place(d) <=> i = d
  /\ \A i \in Index : ~Twin(d, i)
  /\ \A i \in Index : chain[i].kind = "CLGPUTokensTransferred" /\ Place(i) = Place(d) <=> i = c
  /\ \A i \in Index : chain[i].kind = "BuyoutScheduled" <=> i = b
  /\ b < d <=> b < c

\* No call for them went wrong, the mint's $inc, which has no guard, was not
\* repeated, the trigger left them to the monitor, and the first pass of a batch
\* did not put the deposit before the schedule.
Undisturbed(d, c, b) ==
  /\ \A i \in {d, c, b} : Mishaps(i) = {} /\ excuse[i] \cap {"blind", "triggered"} = {}
  /\ done[c] <= 1
  /\ "hoisted" \notin excuse[d]

\* The buyout was scheduled before the deposit, for a date before it.
Late(d, b) == b < d /\ chain[b].date < chain[d].date

(***************************************************************************)
(* While a buyout is scheduled, both of its documents (its schedule and    *)
(* its record) contain each active position exactly once, whether the      *)
(* deposit came before or after (3461-3549, "include this new deposit that *)
(* came after scheduling"), once the monitor is through with the mint:     *)
(* through deaths, step backs and replays, unless one of the disturbances  *)
(* above occurred.  Only a deposit after a buyout date that has passed is  *)
(* in neither (3482-3485).                                                 *)
(***************************************************************************)
FundingExact ==
  ~Working(Monitor) => \A d, c, b \in Index :
    (/\ Purchase(d, c, b) /\ Undisturbed(d, c, b)
     /\ b \in scheduled \cap buyouts
     /\ Reached(c)
     /\ position[Place(d)] = "active") =>
      /\ counted[b][Place(d)] = IF Late(d, b) THEN 0 ELSE 1
      /\ booked[b][Place(d)] = counted[b][Place(d)]

(***************************************************************************)
(* "ForceReprocess ... If true, reprocess even if already processed"       *)
(* (4416): with nobody else at work, a forced request does not skip a log  *)
(* that has not had its effect.                                            *)
(***************************************************************************)
ForcedReprocesses ==
  [][\A w \in Worker :
       (/\ mode[w] = "forced" /\ at[w] = "check" /\ Supported(Job(w))
        /\ todo'[w] = Tail(todo[w]) /\ client' # "none"
        /\ \A v \in Worker \ {w} : ~Working(v)) => done[Job(w)] > 0]_vars
-----------------------------------------------------------------------------
(* An inductive invariant.                                                 *)

\* What a worker is about to call fits the log it is at.
FitsJob(w) ==
  LET i == Job(w)
  IN /\ at[w] = "lookup" => mode[w] \in {"by name", "by signature"}
     /\ at[w] = "check" => chain[i].kind \notin Mints \cup StatusEvents
     /\ at[w] = "list" => chain[i].kind = "BuyoutScheduled"
     /\ at[w] = "create" => /\ chain[i].kind \notin Mints \cup Undocumented
                            /\ Supported(i)
                            /\ chain[i].kind = "BuyoutScheduled" => done[i] > 0
     /\ at[w] = "apply" => Acts(i)
     /\ at[w] \in {"tally", "weigh", "fund", "book"} => chain[i].kind = "CLGPUTokensTransferred"
     /\ at[w] \in {"weigh", "fund", "book"} => buyout[w] # 0
     /\ at[w] \in {"fund", "book"} => FindsPosition(i) /\ Due(w)

ControlFits ==
  /\ mode[Monitor] = "none"
  /\ client # "open" => next = 1 /\ upto = 0 /\ ~Working(Monitor)
  /\ client = "none" => ~Working(Trigger)
  /\ \A i \in Logs(todo[Monitor]) : chain[i].tx \in next..upto
  /\ \A i \in Logs(todo[Trigger]) : "triggered" \in excuse[i]
  /\ \A w \in Worker : Working(w) => FitsJob(w)

\* The monitor's logs are in the order of the two passes, and of the chain but
\* for those appended.
MonitorInOrder ==
  \A a, b \in DOMAIN todo[Monitor] : a < b =>
    LET first == todo[Monitor][a]
        later == todo[Monitor][b]
    IN /\ chain[later].kind \in Deposits => chain[first].kind \in Deposits
       /\ chain[first].kind \notin Deposits /\ "appended" \notin excuse[later] => first < later

\* Worker w has passed the check with log i and is not through with it.
Beyond(w, i) == Working(w) /\ Job(w) = i /\ at[w] \in {"list", "create", "apply"}

\* Nothing has happened to log i that lets its guarded effect be repeated.
Once(i) ==
  /\ chain[i].kind \notin Unguarded
  /\ excuse[i] \cap {"blind", "raced", "stored"} = {}
  /\ chain[i].kind = "BuyoutScheduled" => excuse[i] \cap {"died", "refused"} = {}

\* A worker past the check has its log to itself and has not applied it, but for
\* a buyout that awaits its document; what was applied has its document.
EffectsOnce ==
  \A i \in Index : Once(i) =>
    /\ done[i] <= 1
    /\ \A v, w \in Worker : Beyond(v, i) /\ Beyond(w, i) => v = w
    /\ \A w \in Worker : Beyond(w, i) =>
         done[i] = IF chain[i].kind = "BuyoutScheduled" /\ at[w] = "create" THEN 1 ELSE 0
    /\ \/ i \in docs
       \/ /\ done[i] = 1 => \E w \in Worker : Beyond(w, i) /\ at[w] = "create"
          /\ chain[i].kind # "BuyoutScheduled" =>
               \A w \in Worker : Beyond(w, i) => at[w] = "create"

\* A worker is about to apply log i.
InEffect(i) == \E w \in Worker : Working(w) /\ Job(w) = i /\ at[w] = "apply"

Awaited(i) == chain[i].tx > synced /\ i \in Logs(todo[Monitor])

\* The monitor has handled the mint of log i but for the funding of a buyout.
Tallying(i) ==
  /\ Working(Monitor) /\ Job(Monitor) = i
  /\ at[Monitor] \in {"tally", "weigh", "fund", "book"}

LossesAccounted ==
  /\ \A i \in Index : HasEffect(i) /\ Reached(i) =>
       Accounted(i) \/ (chain[i].kind \notin Mints /\ InEffect(i)) \/ Awaited(i)
  /\ \A i \in docs : /\ chain[i].kind \notin Mints
                     /\ HasEffect(i) => done[i] > 0 \/ Mishaps(i) # {} \/ InEffect(i)
  /\ \A i \in Index : Tallying(i) /\ HasEffect(i) => Accounted(i)

Placed(d) == position[Place(d)] # "none"

DepositsAccounted ==
  \A d \in {i \in Index : chain[i].kind \in Deposits} :
    /\ done[d] > 0 => Placed(d)
    /\ Reached(d) => Placed(d) \/ DepositLost(d) \/ Awaited(d)

\* The last block whose events the status of the vault reflects.
Front == IF client = "open" THEN next - 1 ELSE synced

\* Log i belongs to the batch at hand, and the monitor has done with it.
HandledInBatch(i) == chain[i].tx \in next..upto /\ i \notin Logs(todo[Monitor])

StatusFollows ==
  /\ \A i \in StatusLogs(Index) : chain[i].tx <= Front \/ HandledInBatch(i) => Followed(i)
  /\ \A i \in StatusLogs(Index) : \A k \in Logs(todo[Monitor]) :
       (HandledInBatch(i) /\ chain[k].kind \notin Deposits /\ "appended" \notin excuse[k]) =>
         i < k \/ Mishaps(i) # {}

\* Two workers meet only by request, and only some kinds of log are brought back
\* from receipts or replayed as documents; a mint that was applied had a position.
HistoryFits ==
  /\ \A i \in Index :
       /\ excuse[i] \cap {"raced", "overtaken"} # {} =>
            \E j \in Index : Key(j) = Key(i) /\ "triggered" \in excuse[j]
       /\ "appended" \in excuse[i] => chain[i].kind \in Supplemented
       /\ "stored" \in excuse[i] => chain[i].kind # "BuyoutScheduled"
       /\ chain[i].kind \in Mints /\ done[i] > 0 => Placed(i)
  /\ \A i \in scheduled \cup buyouts : chain[i].kind = "BuyoutScheduled"
  /\ scheduled \subseteq docs
  /\ \A w \in Worker : buyout[w] # 0 => chain[buyout[w]].kind = "BuyoutScheduled"
  /\ \A h \in Holding : position[h] # "none" =>
       \E d \in Index : /\ chain[d].kind \in Deposits
                        /\ Place(d) = h
                        /\ depositTime[h] = chain[d].date

\* The monitor has listed the positions for buyout b, and not stored it yet.
Listing(b) == Working(Monitor) /\ Job(Monitor) = b /\ at[Monitor] \in {"apply", "create"}

\* The mint of log c has been applied, and the monitor is past these calls for it.
MintedPast(c, calls) ==
  done[c] = 1 /\ ~(Working(Monitor) /\ Job(Monitor) = c /\ at[Monitor] \in calls)

\* The mint of log c has been applied, and added to the funding of a buyout.
Minted(c) == done[c] = 1 /\ ~Tallying(c)

\* Until the buyout is stored, the position of a later deposit does not exist;
\* then the mint adds it, unless it is late.
AddedLater(d, c, b) ==
  LET here == Place(d)
      Owed(calls) == IF MintedPast(c, calls) /\ ~Late(d, b) THEN 1 ELSE 0
  IN /\ d \in Logs(todo[Monitor]) \/ d \in docs \/ Placed(d) => b \in docs
     /\ Beyond(Monitor, b) => b \notin docs
     /\ Listing(b) => here \notin list[Monitor]
     /\ b \in buyouts => Beyond(Monitor, b) \/ b \in docs
     /\ b \in scheduled => counted[b][here] = Owed({"tally", "weigh", "fund"})
     /\ b \in buyouts /\ b \in docs /\ b \in scheduled =>
          booked[b][here] = Owed({"tally", "weigh", "fund", "book"})
     /\ b \in buyouts /\ Beyond(Monitor, b) => booked[b][here] = 0

\* The position of an earlier deposit is listed, and its mint adds nothing to it.
ListedBefore(d, c, b) ==
  LET here == Place(d)
  IN /\ b \in docs \cup buyouts \/ Listing(b) => Minted(c)
     /\ Listing(b) => here \in list[Monitor] \/ position[here] = "completed"
     /\ b \in scheduled => counted[b][here] = 1 \/ position[here] = "completed"
     /\ b \in buyouts => booked[b][here] = 1 \/ position[here] = "completed"

FundingFollows ==
  \A d, c, b \in Index : Purchase(d, c, b) /\ Undisturbed(d, c, b) =>
    IF b < d THEN AddedLater(d, c, b) ELSE ListedBefore(d, c, b)

IInv ==
  /\ TypeOK
  /\ ControlFits
  /\ MonitorInOrder
  /\ EffectsOnce
  /\ LossesAccounted
  /\ DepositsAccounted
  /\ StatusFollows
  /\ HistoryFits
  /\ FundingFollows
=============================================================================

--------------------------- MODULE VaultHandlers ---------------------------
(***************************************************************************)
(* contracts/abi/sampleExample.go: the handlers of the vault's events, one *)
(* action per remote call, run by the workers that hand logs to them.      *)
(*                                                                         *)
(* A log is a record of its block, signature, position, vault and date.    *)
(* One transaction per block: tx names both.  A position stands for the    *)
(* pair of user and position id that the handlers read from the topics; a  *)
(* vault for the contract that emitted the log, named by its project.  The *)
(* date is a deposit's depositTime, or a buyout's buyoutDate.              *)
(*                                                                         *)
(* at[w] is the call worker w makes next for Head(todo[w]): "lookup" (the  *)
(* manual trigger's own search for a document), "check" (the handler's),   *)
(* "list" (the positions a buyout pays for), "create" (the document that   *)
(* the handler looks for), "apply" (its effect); and for the funding of a  *)
(* buyout, "tally" (is one scheduled?), "weigh" (the position), "fund" and *)
(* "book" (the sums of the schedule and of the buyout).  What vaultService *)
(* and computeLabsService do is external; transferTokens, a part of the    *)
(* deposit's handler, is modelled in VaultDeposit.                         *)
(***************************************************************************)
EXTENDS Naturals, Sequences, FiniteSets

CONSTANTS
  Chains,     \* the sequences of vault logs to consider
  Position,
  NoPosition, \* of a log that is about a vault
  Worker,     \* the goroutines that call handlers
  MaxFaults   \* bound of the model: failures, deaths, steps back, requests

Deposits == {"VaultDeposit", "KnotsVaultDeposit", "ComputeLabsVaultDeposit",
             "RazeReserveVaultDeposit"}

Redemptions == {"VaultRedeemed", "ComputeLabsVaultRedeemed", "RazeReserveVaultRedeemed"}

Mints == {"XTFTokensTransferred", "CLGPUTokensTransferred"}

StatusEvents == {"ContractPaused", "ContractUnpaused", "VaultClosedToNewInvestments",
                 "VaultReopened"}

\* They look for a document in collections that nothing writes.
Undocumented == {"DistributionScheduleInitiated", "BuyoutExecuted"}

Signature ==
  Deposits \cup Redemptions \cup Mints \cup StatusEvents \cup Undocumented \cup
  {"RedemptionRequested", "PositionStatusUpdated", "VaultRolledOver",
   "DistributionClaimed", "BuyoutScheduled"}

Log == [tx : Nat, kind : Signature, position : Position \cup {NoPosition}, vault : STRING,
        date : Nat]

ASSUME HandlersAssumption ==
  /\ NoPosition \notin Position
  /\ \A c \in Chains :
       /\ c \in Seq(Log)
       /\ \A i \in DOMAIN c : c[i].tx \in Nat \ {0}
       /\ \A i, j \in DOMAIN c : i < j => c[i].tx <= c[j].tx
       /\ \A i \in DOMAIN c :
            c[i].kind \in Deposits \cup Redemptions \cup Mints => c[i].position \in Position
  /\ MaxFaults \in Nat

VARIABLES
  chain,      \* the logs of the vaults, in the order of the chain
  docs,       \* the logs whose document is where their handler looks for it
  done,       \* how often the effect of each log has taken place
  position,   \* the status of each document in vault_positions
  depositTime,
  scheduled,  \* the logs whose document in compute_labs_buyout_schedules is "scheduled"
  counted,    \* how often its funding_amount contains each position
  buyouts,    \* the logs whose document in compute_labs_buyouts is "scheduled"
  booked,     \* how often its funding_amount contains each position
  status,     \* the log that vault_status was last set from, 0 for none
  at,
  todo,       \* the logs each worker still has to hand to a handler
  mode,       \* how the caller of the handlers looks for documents itself
  list,       \* the positions each worker found active for a buyout
  buyout,     \* the scheduled buyout each worker found for a mint, 0 for none
  excuse,     \* history: what has happened to the processing of a log
  faults      \* how often a call has failed, the process died, the monitor gone
              \* back, or an operator asked the manual trigger for something

holdings == <<position, depositTime>>
sums == <<scheduled, counted, buyouts, booked>>
store == <<docs, done, holdings, sums, status>>
findings == <<list, buyout>>
workers == <<at, todo, mode, findings>>
handlerVars == <<chain, store, workers, excuse, faults>>

Index == DOMAIN chain
Vault == {chain[i].vault : i \in Index}

\* What identifies a document of vault_positions.
Holding == Position \X Vault
Place(i) == <<chain[i].position, chain[i].vault>>

Call == {"idle", "lookup", "check", "list", "create", "apply", "tally", "weigh", "fund", "book"}
Mode == {"none", "forced", "by name", "by signature"}
Mishap == {"refused", "blind", "raced", "overtaken", "died", "cut", "unwatched",
           "skipped", "hoisted", "appended", "triggered", "stored", "interrupted"}

HandlersTypeOK ==
  /\ chain \in Chains
  /\ docs \subseteq Index
  /\ done \in [Index -> Nat]
  /\ position \in [Holding -> {"none", "active", "completed"}]
  /\ depositTime \in [Holding -> Nat]
  /\ scheduled \subseteq Index /\ buyouts \subseteq Index
  /\ counted \in [Index -> [Holding -> Nat]]
  /\ booked \in [Index -> [Holding -> Nat]]
  /\ status \in Index \cup {0}
  /\ at \in [Worker -> Call]
  /\ todo \in [Worker -> Seq(Index)]
  /\ \A w \in Worker : at[w] = "idle" <=> todo[w] = << >>
  /\ mode \in [Worker -> Mode]
  /\ list \in [Worker -> SUBSET Holding]
  /\ buyout \in [Worker -> Index \cup {0}]
  /\ excuse \in [Index -> SUBSET Mishap]
  /\ faults \in 0..MaxFaults

HandlersInit ==
  /\ chain \in Chains
  /\ docs = {}
  /\ done = [i \in Index |-> 0]
  /\ position = [p \in Holding |-> "none"]
  /\ depositTime = [p \in Holding |-> 0]
  /\ scheduled = {} /\ buyouts = {}
  /\ counted = [i \in Index |-> [p \in Holding |-> 0]]
  /\ booked = [i \in Index |-> [p \in Holding |-> 0]]
  /\ status = 0
  /\ at = [w \in Worker |-> "idle"]
  /\ todo = [w \in Worker |-> << >>]
  /\ mode = [w \in Worker |-> "none"]
  /\ list = [w \in Worker |-> {}]
  /\ buyout = [w \in Worker |-> 0]
  /\ excuse = [i \in Index |-> {}]
  /\ faults = 0

-----------------------------------------------------------------------------
(* What the handlers make of a log.                                        *)

\* The event_type under which a handler stores its document.
EventName(kind) ==
  CASE kind \in Deposits    -> "VaultDeposit"
    [] kind \in Redemptions -> "VaultRedeemed"
    [] OTHER                -> kind

\* Mutant of Key: without the position.
KeyOfTransaction(i) == <<chain[i].tx, EventName(chain[i].kind)>>

\* What the duplicate check compares: not the contract, nor the log's index.
Key(i) == <<chain[i].tx, EventName(chain[i].kind), chain[i].position>>

\* Is the document of this log in vault_events?
InVaultEvents(i) ==
  chain[i].kind \notin Mints \cup Undocumented \cup {"DistributionClaimed", "BuyoutScheduled"}

ComputeLabs(i) == chain[i].vault = "compute_labs"

\* 129knots has no roll-over.
Supported(i) == ~(chain[i].kind = "VaultRolledOver" /\ chain[i].vault = "129knots")

FirstCall(i) ==
  CASE chain[i].kind \in Mints        -> "apply"
    [] chain[i].kind \in StatusEvents -> "create"
    [] OTHER                          -> "check"

AfterCheck(i) ==
  CASE chain[i].kind \in Undocumented      -> "apply"
    [] chain[i].kind = "BuyoutScheduled"   -> "list"
    [] OTHER                               -> "create"

-----------------------------------------------------------------------------
(* Control.                                                                *)

Working(w) == todo[w] # << >>
Job(w) == Head(todo[w])

\* The first call for the logs of s, when worker w's caller looks as m says.
Ready(m, s) ==
  IF s = << >> THEN "idle"
  ELSE IF m \in {"by name", "by signature"} THEN "lookup" ELSE FirstCall(Head(s))

\* The handler returns nothing: its caller counts the log and takes the next one.
Finish(w, from) ==
  /\ at[w] = from
  /\ todo' = [todo EXCEPT ![w] = Tail(@)]
  /\ at' = [at EXCEPT ![w] = Ready(mode[w], Tail(todo[w]))]
  /\ mode' = [mode EXCEPT ![w] = IF Len(todo[w]) = 1 THEN "none" ELSE @]
  /\ list' = [list EXCEPT ![w] = {}]
  /\ buyout' = [buyout EXCEPT ![w] = 0]
  /\ UNCHANGED chain

Proceed(w, from, to) ==
  /\ at[w] = from
  /\ at' = [at EXCEPT ![w] = to]
  /\ UNCHANGED <<chain, todo, mode>>

Note(i, what) == excuse' = [excuse EXCEPT ![i] = @ \cup {what}]

Fault == faults < MaxFaults /\ faults' = faults + 1

-----------------------------------------------------------------------------
(* The duplicate checks.                                                   *)

\* ManualTrigger's search by (tx_hash, event_type), which takes any event of
\* that name for this one.  By block range the name is the signature's own.
LookupFinds(w) ==
  LET name == IF mode[w] = "by name" THEN EventName(chain[Job(w)].kind)
              ELSE chain[Job(w)].kind
  IN \E m \in docs :
       /\ InVaultEvents(m)
       /\ chain[m].tx = chain[Job(w)].tx
       /\ EventName(chain[m].kind) = name

Lookup(w) ==
  /\ \/ LookupFinds(w) /\ Finish(w, "lookup") /\ UNCHANGED faults
     \/ ~LookupFinds(w) /\ Proceed(w, "lookup", FirstCall(Job(w))) /\ UNCHANGED <<findings, faults>>
     \/ Fault /\ Proceed(w, "lookup", FirstCall(Job(w))) /\ UNCHANGED findings
  /\ UNCHANGED <<store, excuse>>

Duplicate(i) == \E m \in docs : Key(m) = Key(i)

\* Workers that handle the same event, as the check sees it, right now.
Rivals(w) == {v \in Worker \ {w} : Working(v) /\ Key(Job(v)) = Key(Job(w))}

\* The document of a worker that has not come to its effect yet also counts.
SkipDuplicate(w) ==
  /\ Finish(w, "check")
  /\ Duplicate(Job(w))
  /\ IF \E v \in Rivals(w) : at[v] = "apply" THEN Note(Job(w), "overtaken") ELSE UNCHANGED excuse
  /\ UNCHANGED <<store, faults>>

SkipUnsupported(w) ==
  /\ Finish(w, "check")
  /\ ~Supported(Job(w))
  /\ UNCHANGED <<store, excuse, faults>>

\* Mutant of FoundNothing: the documents are not looked at.
FoundNothingEver(w) ==
  /\ Supported(Job(w))
  /\ Proceed(w, "check", AfterCheck(Job(w)))
  /\ UNCHANGED <<store, findings, excuse, faults>>

FoundNothing(w) ==
  /\ Supported(Job(w))
  /\ Proceed(w, "check", AfterCheck(Job(w)))
  /\ ~Duplicate(Job(w))
  /\ IF \E v \in Rivals(w) : at[v] \in {"list", "create", "apply"}
     THEN Note(Job(w), "raced")
     ELSE UNCHANGED excuse
  /\ UNCHANGED <<store, findings, faults>>

\* FindOneWhere failed, and any error is taken for "not found".
FoundError(w) ==
  /\ Fault
  /\ Supported(Job(w))
  /\ Proceed(w, "check", AfterCheck(Job(w)))
  /\ Note(Job(w), "blind")
  /\ UNCHANGED <<store, findings>>

Check(w) == SkipDuplicate(w) \/ SkipUnsupported(w) \/ FoundNothing(w) \/ FoundError(w)

-----------------------------------------------------------------------------
(* Documents and effects.                                                  *)

\* The log cannot be decoded: the handler returns before its next call.
Undecodable(w) ==
  /\ Fault
  /\ \E from \in {"list", "create", "apply"} :
       /\ from = (IF FirstCall(Job(w)) = "check" THEN AfterCheck(Job(w)) ELSE FirstCall(Job(w)))
       /\ Finish(w, from)
  /\ Note(Job(w), "refused")
  /\ UNCHANGED store

\* processBuyoutScheduledEvent reads the active positions of Compute Labs; if it
\* cannot, it goes on as if there were none.
ListPositions(w) ==
  /\ Proceed(w, "list", "apply")
  /\ \/ /\ list' = [list EXCEPT ![w] =
               {p \in Holding : position[p] = "active" /\ p[2] = "compute_labs"}]
        /\ UNCHANGED <<excuse, faults>>
     \/ /\ Fault
        /\ list' = [list EXCEPT ![w] = {}]
        /\ Note(Job(w), "blind")
  /\ UNCHANGED <<store, buyout>>

\* A sum of the principals of these positions.
SumOf(S) == [p \in Holding |-> IF p \in S THEN 1 ELSE 0]

\* The document of the log.  That of a buyout is its schedule, inserted after the
\* buyout itself; it asks for every position listed before, whenever deposited.
Document(w) ==
  /\ docs' = docs \cup {Job(w)}
  /\ IF chain[Job(w)].kind = "BuyoutScheduled"
     THEN /\ scheduled' = scheduled \cup {Job(w)}
          /\ counted' = [counted EXCEPT ![Job(w)] = SumOf(list[w])]
     ELSE UNCHANGED <<scheduled, counted>>
  /\ UNCHANGED <<done, holdings, buyouts, booked, status>>

\* Only an event of a Compute Labs vault changes the status of the vault.
AfterCreate(w) ==
  IF \/ chain[Job(w)].kind = "BuyoutScheduled"
     \/ chain[Job(w)].kind \in StatusEvents /\ ~ComputeLabs(Job(w))
  THEN Finish(w, "create")
  ELSE Proceed(w, "create", "apply") /\ UNCHANGED findings

Create(w) == AfterCreate(w) /\ Document(w) /\ UNCHANGED <<excuse, faults>>

\* Create answers with an error; the document may be stored all the same.  The
\* handler returns, but goes on to the status of the vault.
CreateFails(w) ==
  /\ Fault
  /\ IF chain[Job(w)].kind \in StatusEvents
     THEN AfterCreate(w) /\ UNCHANGED excuse
     ELSE Finish(w, "create") /\ Note(Job(w), "refused")
  /\ Document(w) \/ UNCHANGED store

\* Mutant of VaultStatus: an existing document is left alone.
VaultStatusFirst(i) == IF status = 0 THEN i ELSE status

\* updateVaultStatus: whichever event is handled last.
VaultStatus(i) == i

\* vault_positions after the effect of log i.
Positions(i) ==
  CASE chain[i].kind \in Deposits /\ position[Place(i)] = "none"
         -> [position EXCEPT ![Place(i)] = "active"]
    [] chain[i].kind \in Redemptions /\ position[Place(i)] = "active"
         -> [position EXCEPT ![Place(i)] = "completed"]
    [] OTHER -> position

\* deposit_time of each document, set once.
DepositTimes(i) ==
  IF chain[i].kind \in Deposits /\ position[Place(i)] = "none"
  THEN [depositTime EXCEPT ![Place(i)] = chain[i].date]
  ELSE depositTime

\* The mint's filter: user, id, contract, and of a CLGPU mint the project.
FindsPosition(i) ==
  /\ position[Place(i)] # "none"
  /\ chain[i].kind = "CLGPUTokensTransferred" => ComputeLabs(i)

\* A buyout's effect is its record with the sum of the positions in listed; its
\* execution ends all that are scheduled.  The mint's update has no upsert.
Effect(i, listed) ==
  /\ done' = IF chain[i].kind \in Mints /\ ~FindsPosition(i) THEN done
             ELSE [done EXCEPT ![i] = @ + 1]
  /\ position' = Positions(i)
  /\ depositTime' = DepositTimes(i)
  /\ scheduled' = IF chain[i].kind = "BuyoutExecuted" THEN {} ELSE scheduled
  /\ buyouts' = CASE chain[i].kind = "BuyoutScheduled" -> buyouts \cup {i}
                  [] chain[i].kind = "BuyoutExecuted"  -> {}
                  [] OTHER                             -> buyouts
  /\ booked' = IF chain[i].kind = "BuyoutScheduled"
               THEN [booked EXCEPT ![i] = SumOf(listed)] ELSE booked
  /\ status' = IF chain[i].kind \in StatusEvents THEN VaultStatus(i) ELSE status
  /\ UNCHANGED <<docs, counted>>

AfterApply(w) ==
  CASE chain[Job(w)].kind = "BuyoutScheduled"
         -> Proceed(w, "apply", "create") /\ UNCHANGED findings
    [] chain[Job(w)].kind = "CLGPUTokensTransferred"
         -> Proceed(w, "apply", "tally") /\ UNCHANGED findings
    [] OTHER -> Finish(w, "apply")

\* The effect: vaultService, computeLabsService, or an update of one document.
Apply(w) == AfterApply(w) /\ Effect(Job(w), list[w]) /\ UNCHANGED <<excuse, faults>>

\* Its error is printed; only a buyout's handler returns.
ApplyFails(w) ==
  /\ Fault
  /\ IF chain[Job(w)].kind = "BuyoutScheduled" THEN Finish(w, "apply") ELSE AfterApply(w)
  /\ Effect(Job(w), list[w]) \/ UNCHANGED store
  /\ Note(Job(w), "refused")

-----------------------------------------------------------------------------
(* The funding of a buyout, after a mint of CLGPU.                         *)

\* Any of the buyouts that are scheduled may be the one that is found.
Tally(w) ==
  /\ \/ \E b \in scheduled :
          Proceed(w, "tally", "weigh") /\ buyout' = [buyout EXCEPT ![w] = b] /\ UNCHANGED list
     \/ scheduled = {} /\ Finish(w, "tally")
  /\ UNCHANGED <<store, excuse, faults>>

\* The buyout is to pay for this position, unless its date is before the deposit.
Due(w) == depositTime[Place(Job(w))] <= chain[buyout[w]].date

\* Mutant of Weigh: the dates are not compared.
WeighNothing(w) ==
  /\ at[w] = "weigh"
  /\ IF FindsPosition(Job(w)) THEN Proceed(w, "weigh", "fund") /\ UNCHANGED findings
     ELSE Finish(w, "weigh")
  /\ UNCHANGED <<store, excuse, faults>>

Weigh(w) ==
  /\ at[w] = "weigh"
  /\ IF FindsPosition(Job(w)) /\ Due(w)
     THEN Proceed(w, "weigh", "fund") /\ UNCHANGED findings
     ELSE Finish(w, "weigh")
  /\ UNCHANGED <<store, excuse, faults>>

\* An error of these two is taken for "not found".
TallyFails(w) ==
  /\ Fault
  /\ Finish(w, "tally") \/ Finish(w, "weigh")
  /\ Note(Job(w), "refused")
  /\ UNCHANGED store

\* The $inc of the schedule that was found, whatever its status is by now.
Funded(w) ==
  /\ counted' = [counted EXCEPT ![buyout[w]][Place(Job(w))] = @ + 1]
  /\ UNCHANGED <<docs, done, holdings, scheduled, buyouts, booked, status>>

Fund(w) ==
  /\ Proceed(w, "fund", "book")
  /\ Funded(w)
  /\ UNCHANGED <<findings, excuse, faults>>

FundFails(w) ==
  /\ Fault
  /\ Proceed(w, "fund", "book")
  /\ Funded(w) \/ UNCHANGED store
  /\ Note(Job(w), "refused")
  /\ UNCHANGED findings

\* The $inc of a scheduled buyout of the same date, if there is one.
Booked(w) ==
  LET same == {b \in buyouts : chain[b].date = chain[buyout[w]].date}
  IN /\ \/ \E b \in same : booked' = [booked EXCEPT ![b][Place(Job(w))] = @ + 1]
        \/ same = {} /\ UNCHANGED booked
     /\ UNCHANGED <<docs, done, holdings, scheduled, counted, buyouts, status>>

Book(w) == Finish(w, "book") /\ Booked(w) /\ UNCHANGED <<excuse, faults>>

BookFails(w) ==
  /\ Fault
  /\ Finish(w, "book")
  /\ Booked(w) \/ UNCHANGED store
  /\ Note(Job(w), "refused")

Handle(w) ==
  /\ Working(w)
  /\ \/ Lookup(w)
     \/ Check(w)
     \/ Undecodable(w)
     \/ ListPositions(w)
     \/ Create(w)
     \/ CreateFails(w)
     \/ Apply(w)
     \/ ApplyFails(w)
     \/ Tally(w)
     \/ Weigh(w)
     \/ TallyFails(w)
     \/ Fund(w)
     \/ FundFails(w)
     \/ Book(w)
     \/ BookFails(w)
=============================================================================

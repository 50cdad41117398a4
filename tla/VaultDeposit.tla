---------------------------- MODULE VaultDeposit ----------------------------
(***************************************************************************)
(* contracts/abi/sampleExample.go: processVaultDepositEvent and the token  *)
(* transfer it makes.  A VaultDeposit log is handed to it by the monitor   *)
(* of its chain, and again by that monitor after a restart or a step back, *)
(* and by the manual trigger API, which runs beside the monitor.           *)
(*                                                                         *)
(* One action per remote call.  at[w] is the call worker w is about to     *)
(* make: "check" (FindOneWhere in vault_events), "create" (the document),  *)
(* "balance" and "transact" (transferTokens), "mined" (WaitMined),         *)
(* "position" (vaultService), "update" (updateVaultPositionWithMintHash).  *)
(***************************************************************************)
EXTENDS Naturals, Sequences, FiniteSets

CONSTANTS
  Deposit,    \* VaultDeposit logs, each with its own transaction, user and position
  NoDeposit,  \* what an idle worker works on
  Worker,     \* goroutines that call processVaultDepositEvent
  Backend,    \* the deposits whose tokens the backend transfers
  Tokens,     \* the tokens of each deposit: its amount in whole dollars
  Supply,     \* the deployer's tokens at first
  MaxRuns     \* bound of the model: how often each deposit is handed to a worker

ASSUME DepositAssumption ==
  /\ NoDeposit \notin Deposit
  /\ Backend \subseteq Deposit
  /\ Tokens \in [Deposit -> Nat]
  /\ Supply \in Nat
  /\ MaxRuns \in [Deposit -> Nat]
  /\ IsFiniteSet(Worker)

VARIABLES
  at,        \* the call each worker is about to make
  job,       \* the deposit it works on
  hash,      \* the transfer it made for it, by position in sent, 0 for none
  runs,      \* how often each deposit has been handed to a worker
  docs,      \* how many VaultDeposit documents of it vault_events holds
  logged,    \* the stages of errors errorService has logged for it
  position,  \* its vault_positions document
  sent,      \* the state of each token transfer sent for it
  balance,   \* the deployer's tokens
  excuse     \* history: what has happened to the processing of a deposit

workers == <<at, job, hash>>
vars == <<workers, runs, docs, logged, position, sent, balance, excuse>>

Call == {"idle", "check", "create", "balance", "transact", "mined", "position", "update"}

Shape ==
  /\ at \in [Worker -> Call]
  /\ job \in [Worker -> Deposit \cup {NoDeposit}]
  /\ hash \in [Worker -> Nat]
  /\ runs \in [Deposit -> Nat]
  /\ docs \in [Deposit -> Nat]
  /\ logged \in [Deposit -> SUBSET {"decoding", "saving", "transfer", "processing"}]
  /\ position \in [Deposit -> {"none", "active", "confirmed"}]
  /\ sent \in [Deposit -> Seq({"pending", "mined", "failed", "dropped"})]
  /\ balance \in 0..Supply
  /\ excuse \in [Deposit -> SUBSET {"blind", "raced", "died", "no receipt"}]

TypeOK ==
  /\ Shape
  /\ \A d \in Deposit : docs[d] <= runs[d] /\ runs[d] <= MaxRuns[d] /\ Len(sent[d]) <= runs[d]
  /\ \A w \in Worker :
       /\ at[w] = "idle" <=> job[w] = NoDeposit
       /\ hash[w] \in IF at[w] = "idle" THEN {0} ELSE 0..Len(sent[job[w]])

Init ==
  /\ at = [w \in Worker |-> "idle"]
  /\ job = [w \in Worker |-> NoDeposit]
  /\ hash = [w \in Worker |-> 0]
  /\ runs = [d \in Deposit |-> 0]
  /\ docs = [d \in Deposit |-> 0]
  /\ logged = [d \in Deposit |-> {}]
  /\ position = [d \in Deposit |-> "none"]
  /\ sent = [d \in Deposit |-> << >>]
  /\ balance = Supply
  /\ excuse = [d \in Deposit |-> {}]

-----------------------------------------------------------------------------
(* Control.                                                                *)

Goes(w, from, to) == at[w] = from /\ at' = [at EXCEPT ![w] = to]

Proceed(w, from, to) == Goes(w, from, to) /\ UNCHANGED <<job, hash>>

Finish(w, from) ==
  /\ Goes(w, from, "idle")
  /\ job' = [job EXCEPT ![w] = NoDeposit]
  /\ hash' = [hash EXCEPT ![w] = 0]

\* errorService.LogEventError
Log(d, stage) == logged' = [logged EXCEPT ![d] = @ \cup {stage}]

Excuse(d, what) == excuse' = [excuse EXCEPT ![d] = @ \cup {what}]

Begin(w, d) ==
  /\ runs[d] < MaxRuns[d]
  /\ Goes(w, "idle", "check")
  /\ job' = [job EXCEPT ![w] = d]
  /\ runs' = [runs EXCEPT ![d] = @ + 1]
  /\ UNCHANGED <<hash, docs, logged, position, sent, balance, excuse>>

-----------------------------------------------------------------------------
(* processVaultDepositEvent up to its document.                            *)

Skip(w) ==
  /\ Finish(w, "check")
  /\ docs[job[w]] > 0
  /\ UNCHANGED <<runs, docs, logged, position, sent, balance, excuse>>

\* Another worker has passed its check and not stored its document yet.
Rivals(w) == {v \in Worker \ {w} : job[v] = job[w] /\ at[v] = "create"}

\* Mutant of FoundNothing: the document is not looked for.
FoundNothingEver(w) ==
  /\ Proceed(w, "check", "create")
  /\ UNCHANGED excuse

FoundNothing(w) ==
  /\ Proceed(w, "check", "create")
  /\ docs[job[w]] = 0
  /\ IF Rivals(w) = {} THEN UNCHANGED excuse ELSE Excuse(job[w], "raced")

\* FindOneWhere failed, and any error is taken for "not found".
FoundError(w) ==
  /\ Proceed(w, "check", "create")
  /\ Excuse(job[w], "blind")

Check(w) ==
  /\ FoundNothing(w) \/ FoundError(w)
  /\ UNCHANGED <<runs, docs, logged, position, sent, balance>>

\* The log cannot be decoded.
Undecodable(w) ==
  /\ Finish(w, "create")
  /\ Log(job[w], "decoding")
  /\ UNCHANGED <<runs, docs, position, sent, balance, excuse>>

\* Create fails; the document may be stored although the answer was an error.
CreateFails(w) ==
  /\ Finish(w, "create")
  /\ Log(job[w], "saving")
  /\ docs' \in {docs, [docs EXCEPT ![job[w]] = @ + 1]}
  /\ UNCHANGED <<runs, position, sent, balance, excuse>>

\* XDC and LUCA vaults mint by themselves; for the others the backend transfers.
Create(w) ==
  /\ Proceed(w, "create", IF job[w] \in Backend THEN "balance" ELSE "position")
  /\ docs' = [docs EXCEPT ![job[w]] = @ + 1]
  /\ UNCHANGED <<runs, logged, position, sent, balance, excuse>>

-----------------------------------------------------------------------------
(* transferTokens.                                                         *)

\* The transfers of d after one more may have been sent.
MaybeSent(d) == {sent, [sent EXCEPT ![d] = Append(@, "pending")]}

\* Mutant of TransferFails: the handler returns.
TransferFailsReturns(w) ==
  /\ Finish(w, "balance")
  /\ Log(job[w], "transfer")
  /\ UNCHANGED <<runs, docs, position, sent, balance, excuse>>

\* Any error: it is logged, and the deposit is processed without a mint hash.
\* The node may have accepted the transaction it answers with an error.
TransferFails(w) ==
  /\ \/ Proceed(w, "balance", "position") /\ UNCHANGED sent
     \/ Proceed(w, "transact", "position") /\ sent' \in MaybeSent(job[w])
  /\ Log(job[w], "transfer")
  /\ UNCHANGED <<runs, docs, position, balance, excuse>>

\* balanceOf(deployer) is not less than the amount.
BalanceSuffices(w) ==
  /\ Proceed(w, "balance", "transact")
  /\ balance >= Tokens[job[w]]
  /\ UNCHANGED <<runs, docs, logged, position, sent, balance, excuse>>

\* Mutant of Transact: sent a second time when the first call was slow.
TransactTwice(w) ==
  /\ Goes(w, "transact", "mined")
  /\ sent' = [sent EXCEPT ![job[w]] = @ \o <<"pending", "pending">>]
  /\ hash' = [hash EXCEPT ![w] = 1]
  /\ UNCHANGED <<job, runs, docs, logged, position, balance, excuse>>

Transact(w) ==
  /\ Goes(w, "transact", "mined")
  /\ sent' = [sent EXCEPT ![job[w]] = Append(@, "pending")]
  /\ hash' = [hash EXCEPT ![w] = Len(sent[job[w]]) + 1]
  /\ UNCHANGED <<job, runs, docs, logged, position, balance, excuse>>

Transfer(w) == sent[job[w]][hash[w]]

\* WaitMined, with a receipt of status 1 ...
MinedOk(w) ==
  /\ Proceed(w, "mined", "position")
  /\ Transfer(w) = "mined"
  /\ UNCHANGED <<runs, docs, logged, position, sent, balance, excuse>>

\* Mutant of MinedBad: only a receipt of status 1 ends the wait.
MinedBadWaits(w) ==
  /\ at[w] = "mined"
  /\ Transfer(w) = "failed"
  /\ UNCHANGED vars

\* Mutant of MinedBad: the receipt's status is not looked at.
MinedBadUnnoticed(w) ==
  /\ Proceed(w, "mined", "position")
  /\ Transfer(w) = "failed"
  /\ UNCHANGED <<runs, docs, logged, position, sent, balance, excuse>>

\* ... of status 0 ...
MinedBad(w) ==
  /\ Goes(w, "mined", "position")
  /\ Transfer(w) = "failed"
  /\ hash' = [hash EXCEPT ![w] = 0]
  /\ Log(job[w], "transfer")
  /\ UNCHANGED <<job, runs, docs, position, sent, balance, excuse>>

\* ... or with an error: the hash is returned all the same.  WaitMined only fails
\* with its context, and that one is never cancelled: nothing may rely on it.
MinedUnknown(w) ==
  /\ Proceed(w, "mined", "position")
  /\ Excuse(job[w], "no receipt")
  /\ UNCHANGED <<runs, docs, logged, position, sent, balance>>

-----------------------------------------------------------------------------
(* The position.                                                           *)

\* if mintHash != "" && tokenAmount > 0
AfterPosition(w) ==
  IF hash[w] # 0 /\ Tokens[job[w]] > 0
  THEN Proceed(w, "position", "update")
  ELSE Finish(w, "position")

WithPosition(d) == [position EXCEPT ![d] = IF @ = "none" THEN "active" ELSE @]

\* vaultService.ProcessVaultDepositEvent creates the document, or fails.
MakePosition(w) ==
  /\ AfterPosition(w)
  /\ \/ /\ position' = WithPosition(job[w])
        /\ UNCHANGED logged
     \/ /\ position' \in {position, WithPosition(job[w])}
        /\ Log(job[w], "processing")
  /\ UNCHANGED <<runs, docs, sent, balance, excuse>>

\* UpdateOne without upsert; its error is only printed.
Update(w) ==
  /\ Finish(w, "update")
  /\ \/ /\ position[job[w]] # "none"
        /\ position' = [position EXCEPT ![job[w]] = "confirmed"]
     \/ UNCHANGED position
  /\ UNCHANGED <<runs, docs, logged, sent, balance, excuse>>

Step(w) ==
  \/ Skip(w)
  \/ Check(w)
  \/ Undecodable(w)
  \/ CreateFails(w)
  \/ Create(w)
  \/ TransferFails(w)
  \/ BalanceSuffices(w)
  \/ Transact(w)
  \/ MinedOk(w)
  \/ MinedBad(w)
  \/ MakePosition(w)
  \/ Update(w)

-----------------------------------------------------------------------------
(* The token's chain, and the process.                                     *)

\* A transfer is mined: the token contract moves the tokens or reverts.
Mine ==
  \E d \in Deposit : \E i \in DOMAIN sent[d] :
    /\ sent[d][i] = "pending"
    /\ \/ /\ balance >= Tokens[d]
          /\ sent' = [sent EXCEPT ![d][i] = "mined"]
          /\ balance' = balance - Tokens[d]
       \/ /\ sent' = [sent EXCEPT ![d][i] = "failed"]
          /\ UNCHANGED balance
    /\ UNCHANGED <<workers, runs, docs, logged, position, excuse>>

\* A transfer is replaced by another of the same nonce, or evicted.
Drop ==
  \E d \in Deposit : \E i \in DOMAIN sent[d] :
    /\ sent[d][i] = "pending"
    /\ sent' = [sent EXCEPT ![d][i] = "dropped"]
    /\ UNCHANGED <<workers, runs, docs, logged, position, balance, excuse>>

InProgress(d) == \E w \in Worker : job[w] = d

Die ==
  /\ at' = [w \in Worker |-> "idle"]
  /\ job' = [w \in Worker |-> NoDeposit]
  /\ hash' = [w \in Worker |-> 0]
  /\ excuse' = [d \in Deposit |-> IF InProgress(d) THEN excuse[d] \cup {"died"} ELSE excuse[d]]
  /\ UNCHANGED <<runs, docs, logged, position, sent, balance>>

Next ==
  \/ \E w \in Worker : Step(w) \/ MinedUnknown(w) \/ \E d \in Deposit : Begin(w, d)
  \/ Mine
  \/ Drop
  \/ Die

Spec == Init /\ [][Next]_vars

(***************************************************************************)
(* Every worker is scheduled and its calls return (the clients have        *)
(* default timeouts; that WaitMined ends with an error is not assumed),    *)
(* and a transfer does not stay pending for ever.                          *)
(***************************************************************************)
Fairness ==
  /\ \A w \in Worker : WF_vars(Step(w))
  /\ WF_vars(Mine \/ Drop)

FairSpec == Spec /\ Fairness

-----------------------------------------------------------------------------
(* Safety.                                                                 *)

\* The workers that have d and are about to make one of these calls.
Within(d, calls) == {w \in Worker : job[w] = d /\ at[w] \in calls}

Transferring(d) == Within(d, {"balance", "transact"})

(***************************************************************************)
(* Tokens only leave for recorded deposits: each transfer of a deposit,    *)
(* sent or about to be, has a vault_events document of its own, stored     *)
(* before it, whatever died in between (lines 2697-2767).                  *)
(***************************************************************************)
MintsBacked ==
  \A d \in Deposit : Len(sent[d]) + Cardinality(Transferring(d)) <= docs[d]

(***************************************************************************)
(* A deposit is paid twice only if two workers raced between the duplicate *)
(* check and the document, or if the check was answered by an error that   *)
(* the code takes for "not found" (lines 2461-2475).                       *)
(***************************************************************************)
DoubleMintExplained ==
  \A d \in Deposit : Len(sent[d]) > 1 => excuse[d] \cap {"blind", "raced"} # {}

(***************************************************************************)
(* No recorded deposit is left unpaid in silence: nobody will process it   *)
(* again (its document makes it a duplicate), so either a transfer is out, *)
(* an error is in the log, a receipt was never seen, or the process died   *)
(* under it (lines 2709-2767).                                             *)
(***************************************************************************)
UnpaidExplained ==
  \A d \in Backend :
    (docs[d] > 0 /\ ~InProgress(d)) =>
      \/ \E i \in DOMAIN sent[d] : sent[d][i] \in {"pending", "mined"}
      \/ logged[d] \cap {"saving", "transfer"} # {}
      \/ excuse[d] \cap {"died", "no receipt"} # {}

(***************************************************************************)
(* mint_tx_status = "confirmed" is true: the tokens have moved, unless the *)
(* receipt could not be had (lines 1557-1570, 1603-1614).                  *)
(***************************************************************************)
ConfirmedIsPaid ==
  \A d \in Deposit :
    position[d] = "confirmed" =>
      \/ \E i \in DOMAIN sent[d] : sent[d][i] = "mined"
      \/ "no receipt" \in excuse[d]

(***************************************************************************)
(* A recorded deposit gets its position even if its tokens could not be    *)
(* transferred (line 2763: "Continue processing even if token transfer     *)
(* fails"): it lacks one only with an error in the log or a death behind.  *)
(***************************************************************************)
PositionOfRecord ==
  \A d \in Deposit :
    (docs[d] > 0 /\ position[d] = "none" /\ ~InProgress(d)) =>
      \/ logged[d] \cap {"saving", "processing"} # {}
      \/ "died" \in excuse[d]

(***************************************************************************)
(* "Check if this event has already been processed (duplicate check)"      *)
(* (line 2461): the tokens of a deposit are transferred once.              *)
(***************************************************************************)
MintedOnce == \A d \in Deposit : Len(sent[d]) <= 1

-----------------------------------------------------------------------------
(* An inductive invariant.                                                 *)

Moved(d) == \E i \in DOMAIN sent[d] : sent[d][i] = "mined"

\* Each time a deposit is handed to a worker makes one document at most.
HandedOut ==
  \A d \in Deposit : docs[d] + Cardinality(Within(d, {"check", "create"})) <= runs[d]

\* A document, or one to come, beside another has its excuse.
DoublesExplained ==
  \A d \in Deposit :
    docs[d] + Cardinality(Within(d, {"create"})) > 1 => excuse[d] \cap {"blind", "raced"} # {}

\* A hash is one of a transfer that was sent, and after the wait of one that moved tokens.
HashKept ==
  \A w \in Worker :
    /\ at[w] \in {"idle", "check", "create", "balance", "transact"} => hash[w] = 0
    /\ at[w] \in {"mined", "update"} => hash[w] # 0
    /\ (at[w] \in {"position", "update"} /\ hash[w] # 0) =>
         Moved(job[w]) \/ "no receipt" \in excuse[job[w]]

Settled(d) ==
  \/ Moved(d)
  \/ logged[d] \cap {"saving", "transfer"} # {}
  \/ excuse[d] \cap {"died", "no receipt"} # {}

Placed(d) ==
  \/ position[d] # "none"
  \/ logged[d] \cap {"saving", "processing"} # {}
  \/ "died" \in excuse[d]

\* What a recorded deposit still lacks, a worker is about to supply.
InHand ==
  \A d \in Deposit :
    docs[d] > 0 =>
      /\ Placed(d) \/ Within(d, {"balance", "transact", "mined", "position"}) # {}
      /\ d \in Backend => Settled(d) \/ Within(d, {"balance", "transact", "mined"}) # {}

IInv ==
  /\ TypeOK
  /\ HandedOut
  /\ MintsBacked
  /\ DoublesExplained
  /\ HashKept
  /\ InHand
  /\ ConfirmedIsPaid

-----------------------------------------------------------------------------
(* Liveness.                                                               *)

Hangs(w) == at[w] = "mined" /\ Transfer(w) = "dropped"

(***************************************************************************)
(* A worker comes back from every deposit, unless it waits for a transfer  *)
(* that was dropped: WaitMined has no deadline (line 1558).                *)
(***************************************************************************)
WorkersReturn == \A w \in Worker : at[w] # "idle" ~> (at[w] = "idle" \/ Hangs(w))
=============================================================================

------------------------------ MODULE Service ------------------------------
(***************************************************************************)
(* main.go: the life of the process.  main reads the configuration, opens  *)
(* the store, migrates it, builds the processor, starts one goroutine per  *)
(* chain, waits for a signal, cancels the context, waits for the           *)
(* goroutines and closes the store on its way out.                         *)
(*                                                                         *)
(* What a listener does is modelled in Poller and WebSocket; here it only  *)
(* goes in and out of the store.                                           *)
(***************************************************************************)
EXTENDS Naturals, Sequences, FiniteSets

CONSTANTS
  Chains,    \* cfg.Chains in file order, a sequence of distinct chains
  Polled     \* those with an http(s) rpc_url; the others are subscribed to

ChainSet == {Chains[i] : i \in DOMAIN Chains}

ASSUME ChainsAssumption ==
  /\ Chains \in Seq(ChainSet)
  /\ Chains # << >>
  /\ \A i, j \in DOMAIN Chains : Chains[i] = Chains[j] => i = j
  /\ Polled \subseteq ChainSet

VARIABLES
  main,      \* where main is
  next,      \* the chain the start loop has come to
  listener,  \* each chain's goroutine: "none", "idle", "store", "returned"
  pool,      \* the connection pool: "none", "open", "closed"
  migrated,  \* the tables exist
  cancelled, \* ctx is done
  signalled, \* SIGINT or SIGTERM has been sent
  waiting    \* wg's counter

vars == <<main, next, listener, pool, migrated, cancelled, signalled, waiting>>

Points == {"load", "connect", "migrate", "processor", "start", "signal",
           "cancel", "wait", "close", "exited", "fatal", "killed"}

Gone == main \in {"exited", "fatal", "killed"}

TypeOK ==
  /\ main \in Points
  /\ next \in 1..(Len(Chains) + 1)
  /\ listener \in [ChainSet -> {"none", "idle", "store", "returned"}]
  /\ pool \in {"none", "open", "closed"}
  /\ migrated \in BOOLEAN
  /\ cancelled \in BOOLEAN
  /\ signalled \in BOOLEAN
  /\ waiting \in 0..Len(Chains)

Init ==
  /\ main = "load"
  /\ next = 1
  /\ listener = [c \in ChainSet |-> "none"]
  /\ pool = "none"
  /\ migrated \in BOOLEAN
  /\ cancelled = FALSE
  /\ signalled = FALSE
  /\ waiting = 0

-----------------------------------------------------------------------------
(* main.                                                                   *)

\* log.Fatal: os.Exit(1), whatever runs, without the deferred calls.
Fatal(from) ==
  /\ main = from
  /\ main' = "fatal"
  /\ UNCHANGED <<next, listener, pool, migrated, cancelled, signalled, waiting>>

LoadConfig ==
  /\ main = "load"
  /\ main' = "connect"
  /\ UNCHANGED <<next, listener, pool, migrated, cancelled, signalled, waiting>>

OpenStore ==
  /\ main = "connect"
  /\ main' = "migrate"
  /\ pool' = "open"
  /\ UNCHANGED <<next, listener, migrated, cancelled, signalled, waiting>>

\* Mutant of MigrateStore: an error of Migrate is not checked.
MigrateStoreBlindly ==
  /\ main = "migrate"
  /\ main' = "processor"
  /\ migrated' \in {migrated, TRUE}
  /\ UNCHANGED <<next, listener, pool, cancelled, signalled, waiting>>

MigrateStore ==
  /\ main = "migrate"
  /\ main' = "processor"
  /\ migrated' = TRUE
  /\ UNCHANGED <<next, listener, pool, cancelled, signalled, waiting>>

NewProcessor ==
  /\ main = "processor"
  /\ main' = "start"
  /\ UNCHANGED <<next, listener, pool, migrated, cancelled, signalled, waiting>>

SetupFails ==
  \/ Fatal("load")
  \/ Fatal("connect")
  \/ Fatal("migrate")
  \/ Fatal("processor")

\* listener.New accepts the chain: wg.Add(1) and its goroutine is started.
StartListener ==
  /\ main = "start"
  /\ next <= Len(Chains)
  /\ waiting' = waiting + 1
  /\ listener' = [listener EXCEPT ![Chains[next]] = "idle"]
  /\ next' = next + 1
  /\ UNCHANGED <<main, pool, migrated, cancelled, signalled>>

\* listener.New refuses it (no contracts, or an unknown scheme in rpc_url), and
\* the goroutines started so far die with main.
RefuseChain == next <= Len(Chains) /\ Fatal("start")

AllStarted ==
  /\ main = "start"
  /\ next > Len(Chains)
  /\ main' = "signal"
  /\ UNCHANGED <<next, listener, pool, migrated, cancelled, signalled, waiting>>

ReceiveSignal ==
  /\ main = "signal"
  /\ signalled
  /\ main' = "cancel"
  /\ UNCHANGED <<next, listener, pool, migrated, cancelled, signalled, waiting>>

\* Mutant of CancelContext: main waits without cancelling.
CancelContextForgotten ==
  /\ main = "cancel"
  /\ main' = "wait"
  /\ UNCHANGED <<next, listener, pool, migrated, cancelled, signalled, waiting>>

CancelContext ==
  /\ main = "cancel"
  /\ main' = "wait"
  /\ cancelled' = TRUE
  /\ UNCHANGED <<next, listener, pool, migrated, signalled, waiting>>

\* Mutant of WaitForListeners: main returns without wg.Wait.
WaitForNobody ==
  /\ main = "wait"
  /\ main' = "close"
  /\ UNCHANGED <<next, listener, pool, migrated, cancelled, signalled, waiting>>

WaitForListeners ==
  /\ main = "wait"
  /\ waiting = 0
  /\ main' = "close"
  /\ UNCHANGED <<next, listener, pool, migrated, cancelled, signalled, waiting>>

\* The deferred store.Close, and main returns.
CloseStore ==
  /\ main = "close"
  /\ main' = "exited"
  /\ pool' = "closed"
  /\ UNCHANGED <<next, listener, migrated, cancelled, signalled, waiting>>

Main ==
  \/ LoadConfig
  \/ OpenStore
  \/ MigrateStore
  \/ NewProcessor
  \/ SetupFails
  \/ StartListener
  \/ RefuseChain
  \/ AllStarted
  \/ ReceiveSignal
  \/ CancelContext
  \/ WaitForListeners
  \/ CloseStore

-----------------------------------------------------------------------------
(* The goroutines and the operator.                                        *)

Set(c, from, state) ==
  /\ ~Gone
  /\ listener[c] = from
  /\ listener' = [listener EXCEPT ![c] = state]
  /\ UNCHANGED <<main, next, pool, migrated, cancelled, signalled>>

\* A store call is entered and left; a done context cuts it short.
EnterStore(c) == Set(c, "idle", "store") /\ UNCHANGED waiting

LeaveStore(c) == Set(c, "store", "idle") /\ UNCHANGED waiting

\* Mutant of Return: wg.Done twice, once deferred and once at the end.
ReturnTwice(c) ==
  /\ cancelled \/ c \in Polled
  /\ Set(c, "idle", "returned")
  /\ waiting' = waiting - 2

\* Run returns and wg.Done is called: because the context is done, or, for a
\* poller only, because dialing or reading the checkpoint failed.
Return(c) ==
  /\ cancelled \/ c \in Polled
  /\ Set(c, "idle", "returned")
  /\ waiting' = waiting - 1

\* Before signal.Notify a signal kills the process; afterwards it waits in sigC.
Signal ==
  /\ ~Gone
  /\ ~signalled
  /\ signalled' = TRUE
  /\ main' = IF main \in {"load", "connect", "migrate", "processor", "start"}
             THEN "killed" ELSE main
  /\ UNCHANGED <<next, listener, pool, migrated, cancelled, waiting>>

Terminated == Gone /\ UNCHANGED vars

Next ==
  \/ Main
  \/ \E c \in ChainSet : EnterStore(c) \/ LeaveStore(c) \/ Return(c)
  \/ Signal
  \/ Terminated

Spec == Init /\ [][Next]_vars

(***************************************************************************)
(* Fairness.  main and every goroutine are scheduled, and a store call     *)
(* ends.  A listener whose context is done returns: its select picks       *)
(* ctx.Done sooner or later (strong fairness, for it may still go through  *)
(* store calls that fail).  Nobody owes the process a signal.              *)
(***************************************************************************)
Fairness ==
  /\ WF_vars(Main)
  /\ \A c \in ChainSet :
       /\ WF_vars(LeaveStore(c))
       /\ SF_vars(cancelled /\ Return(c))

FairSpec == Spec /\ Fairness

-----------------------------------------------------------------------------
(* Safety.                                                                 *)

(***************************************************************************)
(* No listener is in the store before its tables exist or after the pool   *)
(* is closed: Migrate precedes every goroutine, and Close follows wg.Wait  *)
(* (main.go:34-39, 66-68).                                                 *)
(***************************************************************************)
StoreUsable ==
  \A c \in ChainSet : listener[c] = "store" => pool = "open" /\ migrated

\* "bye" means every listener has returned and the store is closed: wg neither
\* misses a goroutine nor counts one twice (main.go:53-68).
CleanExit ==
  main = "exited" =>
    /\ pool = "closed"
    /\ \A c \in ChainSet : listener[c] = "returned"

-----------------------------------------------------------------------------
(* An inductive invariant.                                                 *)

Running == {c \in ChainSet : listener[c] \in {"idle", "store"}}

\* wg counts the goroutines that run, and those up to next were started.
Counted ==
  /\ waiting = Cardinality(Running)
  /\ \A i \in DOMAIN Chains : listener[Chains[i]] = "none" <=> i >= next

\* main starts goroutines on an open pool, all of them before it waits, and
\* passes wg.Wait when none is left.
InSequence ==
  /\ main \in {"load", "connect", "migrate", "processor"} => next = 1
  /\ main \in {"migrate", "processor", "start", "signal", "cancel", "wait", "close"} =>
       pool = "open"
  /\ main \in {"processor", "start"} => migrated
  /\ next > 1 => migrated /\ (pool = "open" \/ main = "exited")
  /\ main \in {"signal", "cancel", "wait", "close", "exited"} => next = Len(Chains) + 1
  /\ main \in {"close", "exited"} => waiting = 0
  /\ main = "exited" => pool = "closed"

IInv == TypeOK /\ Counted /\ InSequence

-----------------------------------------------------------------------------
(* Liveness.                                                               *)

\* One signal is enough: the process ends, however busy its listeners are.
SignalEnds == signalled ~> Gone
=============================================================================

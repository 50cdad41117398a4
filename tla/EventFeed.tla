----------------------------- MODULE EventFeed -----------------------------
(***************************************************************************)
(* What a listener promises the readers of the events table, without its   *)
(* ranges, cursors, statements and restarts: final logs are recorded at    *)
(* most once, with their final block, and the checkpoint only passes       *)
(* blocks whose accepted logs have all been recorded or refused.           *)
(***************************************************************************)
EXTENDS Integers, Sequences

CONSTANTS
  Log,       \* the logs of the contracts of one chain
  Accepted,  \* those of Log the configuration asks to keep
  MinStart   \* the first block of interest

VARIABLES
  horizon,     \* the newest final block
  settled,     \* the final block of each log, 0 while it has none
  events,      \* the table: sequence of [log, block] rows
  refused,     \* logs whose handling was reported as failed
  checkpoint   \* the block up to which every log is dealt with, -1 at first

vars == <<horizon, settled, events, refused, checkpoint>>

Init ==
  /\ horizon = 0
  /\ settled = [l \in Log |-> 0]
  /\ events = << >>
  /\ refused = {}
  /\ checkpoint = -1

RecordedLogs == {events[i].log : i \in DOMAIN events}

\* More blocks become final, and with them the logs they hold; what was final
\* already never changes.
Grow ==
  /\ horizon' > horizon
  /\ \A l \in Log :
       \/ settled'[l] = settled[l]
       \/ settled[l] = 0 /\ settled'[l] \in (horizon + 1)..horizon'
  /\ UNCHANGED <<events, refused, checkpoint>>

Record ==
  /\ \E l \in Accepted :
       /\ settled[l] # 0
       /\ l \notin RecordedLogs
       /\ events' = Append(events, [log |-> l, block |-> settled[l]])
  /\ UNCHANGED <<horizon, settled, refused, checkpoint>>

Refuse ==
  /\ \E l \in Accepted :
       /\ settled[l] # 0
       /\ refused' = refused \cup {l}
  /\ UNCHANGED <<horizon, settled, events, checkpoint>>

Advance ==
  /\ checkpoint' > checkpoint
  /\ checkpoint' <= horizon
  /\ \A l \in Accepted :
       settled[l] \in MinStart..checkpoint' =>
         settled[l] = 0 \/ l \in RecordedLogs \cup refused
  /\ UNCHANGED <<horizon, settled, events, refused>>

Next == Grow \/ Record \/ Refuse \/ Advance

Spec == Init /\ [][Next]_vars
=============================================================================

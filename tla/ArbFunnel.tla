------------------------------ MODULE ArbFunnel ------------------------------
(***************************************************************************)
(* The funnel of the arbitrage bot (crates/arbitrage), from a scanned pair *)
(* to a broadcast transaction: a collector, the queue of the strategy, its *)
(* quote workers and one task per opportunity, all counting into one       *)
(* ArbStats, and the monitor that alerts when opportunities keep coming    *)
(* and nothing is prepared.                                                *)
(*                                                                         *)
(* ArbOpportunity models what quotes and simulations decide and            *)
(* ArbExecutor the ledger of submissions; here an item may meet any of     *)
(* their outcomes.  ProfitBook has the counters of settled transactions.   *)
(***************************************************************************)
EXTENDS ArbStats, Sequences

CONSTANTS
  Bridges,      \* bridge_tokens
  Cycle,        \* their pairs in the collector's order, equal tokens left out
  Workers,      \* worker_count
  Capacity,     \* queue_capacity of the strategy's channel
  MinWindows,   \* ARB_QUIET_ALERT_WINDOWS
  MinOpps,      \* ARB_QUIET_ALERT_MIN_OPPS
  Modes,        \* bound: the configurations of the bot
  MaxScans      \* bound: pairs scanned in all

Scans == 1 .. MaxScans

ASSUME FunnelAssumption ==
  /\ Cycle \in Seq(Bases \X Bridges) /\ Cycle # <<>>
  /\ \A i \in DOMAIN Cycle : Cycle[i][1] # Cycle[i][2]
  /\ Workers \in Nat \ {0} /\ Capacity \in 1 .. 100
  /\ MinWindows \in Nat \ {0} /\ MinOpps \in Nat \ {0}
  /\ Modes \subseteq [build : BOOLEAN, submit : BOOLEAN, dry : BOOLEAN]
  /\ MaxScans \in Nat

VARIABLES
  mode,       \* build_enabled, submit_enabled and dry_run
  next,       \* position of the collector in its cycle
  at,         \* where a scanned pair is, or how it ended
  tokens,     \* its base and bridge
  resized,    \* opportunities whose optimized size lost money on chain
  simtext,    \* the diagnostic its simulation failed with
  counts,     \* the scalar counters of ArbStats
  bridge,     \* BridgeStats by bridge
  simreasons, \* sim_failure_reasons
  seen,       \* opportunities, already loaded by the monitor's snapshot; or -1
  tracker,    \* QuietWindowTracker
  cooling,    \* the alert was sent, or tried, within the cooldown
  streak,     \* history: tracker.last when the quiet streak began
  restarts    \* bound

item == <<next, at, tokens>>
stats == <<resized, simtext, counts, bridge, simreasons>>
monitor == <<seen, tracker, cooling, streak>>
fvars == <<mode, item, stats, monitor, restarts>>

Counters == {"evaluated", "quote_failed", "unprofitable", "opportunities", "dedup",
             "caller_busy", "size", "probe", "below", "fee", "profit_rejected",
             "sim_rejected", "prepared", "dry_run", "submitted"}
BridgeCounters == {"evaluated", "quote_failed", "unprofitable", "opportunities"}

Count(names) ==
  counts' = [c \in Counters |-> IF c \in names THEN counts[c] + 1 ELSE counts[c]]

\* The scalar counter and, with_bridge, the bridge's counter of the same name.
CountPair(p, name) ==
  /\ Count({name})
  /\ bridge' = [bridge EXCEPT ![p[2]][name] = @ + 1]

\* record_sim_failure.
CountReason(reason) == simreasons' = [simreasons EXCEPT ![reason] = @ + 1]

NoCounts == [c \in Counters |-> 0]
NoBridges == [b \in Bridges |-> [c \in BridgeCounters |-> 0]]
NoTracker == [primed |-> FALSE, quiet |-> 0, opportunities |-> 0, prepared |-> 0]
NoStreak == [opportunities |-> 0, prepared |-> 0]

FunnelInit ==
  /\ mode \in Modes /\ next = 1
  /\ at = [s \in Scans |-> "new"] /\ tokens = [s \in Scans |-> Cycle[1]]
  /\ resized = {} /\ simtext = [s \in Scans |-> NoText]
  /\ counts = NoCounts /\ bridge = NoBridges /\ simreasons = NoReasons
  /\ seen = -1 /\ tracker = NoTracker /\ cooling = FALSE /\ streak = NoStreak
  /\ restarts = 0

\* A restart loses every item in flight and all of the counters.
FunnelRestart ==
  /\ restarts < MaxRestarts /\ restarts' = restarts + 1
  /\ next' = 1
  /\ at' = [s \in Scans |-> IF at[s] = "new" THEN "new" ELSE "past"]
  /\ resized' = {} /\ simtext' = [s \in Scans |-> NoText]
  /\ counts' = NoCounts /\ bridge' = NoBridges /\ simreasons' = NoReasons
  /\ seen' = -1 /\ tracker' = NoTracker /\ cooling' = FALSE /\ streak' = NoStreak
  /\ UNCHANGED <<mode, tokens>>

-----------------------------------------------------------------------------
(***************************************************************************)
(* From the collector to an opportunity                                    *)
(***************************************************************************)
Goto(s, from, to) == at[s] = from /\ at' = [at EXCEPT ![s] = to]

\* What an item does that nobody counts.
Silently == UNCHANGED <<mode, next, tokens, stats, monitor, restarts>>

\* Counters that move with an item.
Counting(names) ==
  /\ Count(names)
  /\ UNCHANGED <<mode, next, tokens, resized, simtext, bridge, simreasons, monitor, restarts>>

\* The items are taken in the order they were scanned in.
Oldest(s, place) == \A r \in Scans : r < s => at[r] # place

\* BridgeCollector: the next pair of the cycle, counted before it is yielded.
Yield(s) ==
  /\ Oldest(s, "new") /\ Goto(s, "new", "yielded")
  /\ tokens' = [tokens EXCEPT ![s] = Cycle[next]]
  /\ next' = IF next = Len(Cycle) THEN 1 ELSE next + 1
  /\ CountPair(Cycle[next], "evaluated")
  /\ UNCHANGED <<mode, resized, simtext, simreasons, monitor, restarts>>

\* The engine hands events and actions over; when it lags it may lose them.
Lost(s) == (Goto(s, "yielded", "uncounted") \/ Goto(s, "found", "dropped")) /\ Silently

\* process_event waits while the channel is full.
Enqueue(s) ==
  /\ Oldest(s, "yielded")
  /\ Cardinality({r \in Scans : at[r] = "queued"}) < Capacity
  /\ Goto(s, "yielded", "queued") /\ Silently

\* A worker takes an item when it is done with the one before.
Take(s) ==
  /\ Oldest(s, "queued")
  /\ Cardinality({r \in Scans : at[r] = "scanning"}) < Workers
  /\ Goto(s, "queued", "scanning") /\ Silently

\* handle_item without a connection, evaluate_bridge_pair without a size.
Unscanned(s) == Goto(s, "scanning", "uncounted") /\ Silently

\* How evaluate_bridge_pair judges a pair; only with build_enabled is an
\* opportunity submitted to the executor.
EvaluatePair(s, verdict) ==
  /\ Goto(s, "scanning", IF verdict # "opportunities" THEN verdict
                         ELSE IF mode.build THEN "found" ELSE "dropped")
  /\ CountPair(tokens[s], verdict)
  /\ UNCHANGED <<mode, next, tokens, resized, simtext, simreasons, monitor, restarts>>

-----------------------------------------------------------------------------
(***************************************************************************)
(* From an opportunity to a transaction                                    *)
(***************************************************************************)

\* TxExecutor::execute; routes are reserved only when transactions are sent.
Deduplicated(s) == mode.submit /\ Goto(s, "found", "dedup") /\ Counting({"dedup"})
Start(s) == Goto(s, "found", "selecting") /\ Silently

\* No connection, nothing left of the quote, or an error on the way.
Pass(s) == (Goto(s, "selecting", "dropped") \/ Goto(s, "preparing", "dropped")) /\ Silently

\* try_acquire.
Busy(s) == Goto(s, "selecting", "caller_busy") /\ Counting({"caller_busy"})
Acquire(s) == Goto(s, "selecting", "preparing") /\ Silently

\* The simulated size loses money: the probe size is tried, once.
Resize(s) ==
  /\ at[s] = "preparing" /\ s \notin resized
  /\ resized' = resized \union {s}
  /\ Count({"size"})
  /\ UNCHANGED <<mode, item, simtext, bridge, simreasons, monitor, restarts>>

\* Mutant: the probe that is not worth it falls through to the next gate.
DiscardTwice(s, gate) ==
  /\ gate = "probe" => s \in resized
  /\ Goto(s, "preparing", gate)
  /\ Counting(IF gate = "probe" THEN {"probe", "below", "profit_rejected"}
                                ELSE {gate, "profit_rejected"})

\* The economic discards; the probe is only quoted after a resize.
Discard(s, gate) ==
  /\ gate = "probe" => s \in resized
  /\ Goto(s, "preparing", gate)
  /\ Counting({gate, "profit_rejected"})

Structural(s, t) ==
  /\ Goto(s, "preparing", "structural")
  /\ simtext' = [simtext EXCEPT ![s] = t]
  /\ CountReason(SimReason(t))
  /\ Count({"sim_rejected"})
  /\ UNCHANGED <<mode, next, tokens, resized, bridge, monitor, restarts>>

\* Prepared; a transaction that could not be simulated counts as prepared
\* first and as rejected afterwards.
PreparedUnsimulated(s) ==
  Goto(s, "preparing", "unsimulated") /\ Counting({"prepared", "sim_rejected"})
DryRun(s) ==
  mode.dry /\ Goto(s, "preparing", "dry_run") /\ Counting({"prepared", "dry_run"})
Submit(s) == ~mode.dry /\ Goto(s, "preparing", "broadcasting") /\ Counting({"prepared"})

\* The end of submit_prepared: accepted, or rejected, not recorded or of
\* unknown outcome, which does not count as submitted.
SubmitAccepted(s) == Goto(s, "broadcasting", "submitted") /\ Counting({"submitted"})
SubmitUnaccepted(s) == Goto(s, "broadcasting", "unaccepted") /\ Silently

-----------------------------------------------------------------------------
(***************************************************************************)
(* The quiet-window monitor                                                *)
(***************************************************************************)

\* snapshot: the counters are loaded one after the other, the opportunities
\* before the prepared transactions.
LoadOpportunities ==
  /\ seen = -1
  /\ seen' = counts["opportunities"]
  /\ UNCHANGED <<mode, item, stats, tracker, cooling, streak, restarts>>

\* QuietWindowTracker::observe, of the snapshot that ends here.
Quiet ==
  /\ tracker.primed
  /\ seen - tracker.opportunities >= MinOpps
  /\ counts["prepared"] = tracker.prepared

\* The rest of the snapshot, observe, and an alert in every quiet tick from
\* the threshold on; the cooldown starts before the message is sent.
Observe ==
  /\ seen # -1 /\ seen' = -1
  /\ tracker' = [primed |-> TRUE, quiet |-> IF Quiet THEN tracker.quiet + 1 ELSE 0,
                 opportunities |-> seen, prepared |-> counts["prepared"]]
  /\ streak' = IF Quiet THEN streak
               ELSE [opportunities |-> seen, prepared |-> counts["prepared"]]
  /\ cooling' = (cooling \/ tracker'.quiet >= MinWindows)
  /\ UNCHANGED <<mode, item, stats, restarts>>

Cooled ==
  /\ cooling /\ cooling' = FALSE
  /\ UNCHANGED <<mode, item, stats, seen, tracker, streak, restarts>>

-----------------------------------------------------------------------------
Scan(s) ==
  \/ Yield(s) \/ Lost(s) \/ Enqueue(s) \/ Take(s) \/ Unscanned(s)
  \/ \E verdict \in {"quote_failed", "unprofitable", "opportunities"} : EvaluatePair(s, verdict)

Execute(s) ==
  \/ Deduplicated(s) \/ Start(s) \/ Pass(s) \/ Busy(s) \/ Acquire(s) \/ Resize(s)
  \/ \E gate \in {"probe", "below", "fee"} : Discard(s, gate)
  \/ \E t \in Texts : Structural(s, t)
  \/ PreparedUnsimulated(s) \/ DryRun(s) \/ Submit(s) \/ SubmitAccepted(s) \/ SubmitUnaccepted(s)

FunnelNext ==
  \/ FunnelRestart \/ LoadOpportunities \/ Observe \/ Cooled
  \/ \E s \in Scans : Scan(s) \/ Execute(s)

FunnelSpec == FunnelInit /\ [][FunnelNext]_fvars

-----------------------------------------------------------------------------
(***************************************************************************)
(* Properties                                                              *)
(***************************************************************************)
Discarded == {"probe", "below", "fee"}
Prepared == {"unsimulated", "dry_run", "broadcasting", "submitted", "unaccepted"}
Opportunities == {"found", "selecting", "preparing", "dropped", "dedup", "caller_busy",
                  "structural"} \union Discarded \union Prepared
Yielded == {"yielded", "queued", "scanning", "uncounted", "quote_failed", "unprofitable"}
           \union Opportunities
Places == {"new", "past"} \union Yielded

\* Every variable keeps its type: the counters are naturals, the items are
\* at places of the funnel.
FunnelTypeOK ==
  /\ mode \in [build : BOOLEAN, submit : BOOLEAN, dry : BOOLEAN]
  /\ next \in 1 .. Len(Cycle)
  /\ at \in [Scans -> Places]
  /\ tokens \in [Scans -> Bases \X Bridges]
  /\ resized \subseteq Scans
  /\ simtext \in [Scans -> AllTexts \union {NoText}]
  /\ counts \in [Counters -> Nat]
  /\ bridge \in [Bridges -> [BridgeCounters -> Nat]]
  /\ simreasons \in [Reasons -> Nat]
  /\ seen \in Nat \union {-1}
  /\ tracker \in [primed : BOOLEAN, quiet : Nat, opportunities : Nat, prepared : Nat]
  /\ streak \in [opportunities : Nat, prepared : Nat]
  /\ cooling \in BOOLEAN
  /\ restarts \in Nat

\* The scans a counter is about.
Reached(c) ==
  CASE c = "evaluated"       -> Yielded
    [] c = "opportunities"   -> Opportunities
    [] c = "profit_rejected" -> Discarded
    [] c = "sim_rejected"    -> {"structural", "unsimulated"}
    [] c = "prepared"        -> Prepared
    [] OTHER                 -> {c}
Behind(c) == IF c = "size" THEN resized ELSE {s \in Scans : at[s] \in Reached(c)}

(***************************************************************************)
(* Every number of the funnel is the number of scans of this process that  *)
(* met that fate, in all, by bridge and by reason, whatever workers and    *)
(* tasks do at once: no scan counts twice or under two headings.           *)
(***************************************************************************)
FunnelAddsUp ==
  /\ \A c \in Counters : counts[c] = Cardinality(Behind(c))
  /\ \A b \in Bridges, c \in BridgeCounters :
       bridge[b][c] = Cardinality({s \in Behind(c) : tokens[s][2] = b})
  /\ \A r \in Reasons :
       simreasons[r] = Cardinality({s \in Scans : at[s] = "structural" /\ SimReason(simtext[s]) = r})

(***************************************************************************)
(* A quiet streak is one: since it began nothing was prepared, up to the   *)
(* tracker's last look, and each of its ticks saw enough opportunities.    *)
(***************************************************************************)
AlertsAreTrue ==
  /\ tracker.quiet > 0 =>
       /\ tracker.primed
       /\ tracker.prepared = streak.prepared
       /\ tracker.opportunities >= streak.opportunities + tracker.quiet * MinOpps
  /\ tracker.prepared <= counts["prepared"]
  /\ tracker.opportunities <= counts["opportunities"]

\* What the operator reads of the funnel, in reports and alerts, is so.
FunnelIsTold == FunnelAddsUp /\ AlertsAreTrue
=============================================================================

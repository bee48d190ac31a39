----------------------------- MODULE ProfitBook -----------------------------
(***************************************************************************)
(* What the arbitrage bot (crates/arbitrage) makes of its transactions:    *)
(* the profit book with a session and an hourly window per base token, the *)
(* counters and breakdowns of settled transactions, and the hourly report. *)
(*                                                                         *)
(* A submission is settled by the task that polls it or by the reconciler, *)
(* whoever finalizes its row in the database first; the reconciler also    *)
(* settles what earlier processes left, in the book of the running one.    *)
(* ArbExecutor models the rows and the chain in detail.  Amounts are left  *)
(* out: they are added under the lock that the counts are added under.     *)
(***************************************************************************)
EXTENDS ArbStats, Sequences

CONSTANTS
  VenueRoutes,  \* venue_route labels
  Polls,        \* poll_tx
  MaxRecent,    \* RECENT_TXS
  MaxRoutes,    \* the cap of failed_routes
  NoReport,     \* no hourly report is under way
  Txs,          \* bound: the transactions submitted in all
  BaseOf,       \* bound: their base_token
  RouteOf       \* bound: their venue_route

Fields == {"submitted", "succeeded", "failed", "unknown", "incomplete"}
Windows == [Bases -> [Fields -> Nat]]

ASSUME ProfitAssumption ==
  /\ IsFiniteSet(Txs) /\ IsFiniteSet(VenueRoutes)
  /\ BaseOf \in [Txs -> Bases] /\ RouteOf \in [Txs -> VenueRoutes]
  /\ Polls \in BOOLEAN
  /\ MaxRecent \in Nat /\ MaxRoutes \in Nat
  /\ NoReport \notin Windows

VARIABLES
  broadcast,    \* what this process knows of its broadcast: none, submitted or
                \* uncertain; old if an earlier process made it
  row,          \* its row in the submission ledger: none, pending or final
  poll,         \* submissions a task of this process polls
  expired,      \* history: those whose poll ran out
  booked,       \* history: succeeded or failed, once the book has it
  partial,      \* history: those booked without the amount or the fee
  chaintext,    \* history: the diagnostic of a failed one
  txs,          \* txs_submitted, txs_succeeded and txs_failed
  chainreasons, \* chain_failure_reasons
  failed,       \* failed_routes; 0 is no entry
  session,      \* since the bot started
  hour,         \* since the last report was built
  recent,       \* the latest complete successes, newest first
  report,       \* the hour of the report under way
  told,         \* history: the hours of the reports before, added up
  crashes       \* bound

tallies == <<txs, chainreasons, failed>>
book == <<session, hour, recent>>
pvars == <<broadcast, row, poll, expired, booked, partial, chaintext, tallies, book,
          report, told, crashes>>

Zero == [b \in Bases |-> [f \in Fields |-> 0]]
Plus(v, w) == [b \in Bases |-> [f \in Fields |-> v[b][f] + w[b][f]]]

\* A base's window with one more of each field named.
Recorded(w, b, fields) ==
  [w EXCEPT ![b] = [f \in Fields |-> IF f \in fields THEN w[b][f] + 1 ELSE w[b][f]]]

\* The session and the hour count together, under one lock.
Record(b, fields) ==
  /\ session' = Recorded(session, b, fields)
  /\ hour' = Recorded(hour, b, fields)

\* The settled transaction goes to the front, the oldest one too many goes.
Newest(x) ==
  IF MaxRecent = 0 THEN <<>>
  ELSE <<x>> \o SubSeq(recent, 1, IF Len(recent) < MaxRecent THEN Len(recent)
                                                            ELSE MaxRecent - 1)

\* record_failed_route: a new route finds no room in a full map.
FailedRoute(r) ==
  failed' = IF failed[r] > 0 \/ Cardinality({q \in VenueRoutes : failed[q] > 0}) < MaxRoutes
              THEN [failed EXCEPT ![r] = @ + 1] ELSE failed

NoTxs == [c \in {"submitted", "succeeded", "failed"} |-> 0]
NoFailed == [r \in VenueRoutes |-> 0]

ProfitInit ==
  /\ broadcast = [x \in Txs |-> "none"] /\ row = [x \in Txs |-> "none"]
  /\ poll = {} /\ expired = {} /\ partial = {}
  /\ booked = [x \in Txs |-> "none"] /\ chaintext = [x \in Txs |-> NoText]
  /\ txs = NoTxs /\ chainreasons = NoReasons /\ failed = NoFailed
  /\ session = Zero /\ hour = Zero /\ recent = <<>>
  /\ report = NoReport /\ told = Zero
  /\ crashes = 0

\* A restart clears the memory; the rows of the database stay.
ProfitRestart ==
  /\ crashes < MaxRestarts /\ crashes' = crashes + 1
  /\ broadcast' = [x \in Txs |-> IF row[x] = "none" THEN "none" ELSE "old"]
  /\ poll' = {} /\ expired' = {} /\ partial' = {}
  /\ booked' = [x \in Txs |-> "none"] /\ chaintext' = [x \in Txs |-> NoText]
  /\ txs' = NoTxs /\ chainreasons' = NoReasons /\ failed' = NoFailed
  /\ session' = Zero /\ hour' = Zero /\ recent' = <<>>
  /\ report' = NoReport /\ told' = Zero
  /\ UNCHANGED row

-----------------------------------------------------------------------------
(***************************************************************************)
(* Submissions and their outcomes                                          *)
(***************************************************************************)

\* submit_prepared writes the row before it broadcasts.
Sign(x) ==
  /\ row[x] = "none"
  /\ row' = [row EXCEPT ![x] = "pending"]
  /\ UNCHANGED <<broadcast, poll, expired, booked, partial, chaintext, tallies, book,
                 report, told, crashes>>

\* The broadcast was accepted, or its outcome is not known: that is polled
\* but does not count as submitted.
Sent(x, answer) ==
  /\ row[x] # "none" /\ broadcast[x] = "none"
  /\ broadcast' = [broadcast EXCEPT ![x] = answer]
  /\ poll' = IF Polls THEN poll \union {x} ELSE poll
  /\ UNCHANGED <<row, expired, booked, partial, chaintext, chainreasons, failed, recent,
                 report, told, crashes>>
Accepted(x) ==
  /\ Sent(x, "submitted")
  /\ txs' = [txs EXCEPT !["submitted"] = @ + 1]
  /\ Record(BaseOf[x], {"submitted"})
Uncertain(x) == Sent(x, "uncertain") /\ UNCHANGED <<txs, session, hour>>

\* It was rejected at once; a row that is final stays as it is.
Rejected(x) ==
  /\ row[x] # "none" /\ broadcast[x] = "none"
  /\ broadcast' = [broadcast EXCEPT ![x] = "rejected"]
  /\ row' = [row EXCEPT ![x] = "final"]
  /\ UNCHANGED <<poll, expired, booked, partial, chaintext, tallies, book, report,
                 told, crashes>>

\* apply_settlement and record_settlement: whoever finalizes the row books
\* it; complete says that amount and fee are known.
Booked(x, result, complete) ==
  /\ row[x] = "pending"
  /\ row' = [row EXCEPT ![x] = "final"]
  /\ booked' = [booked EXCEPT ![x] = result]
  /\ partial' = IF complete THEN partial ELSE partial \union {x}
  /\ Record(BaseOf[x], {result} \union (IF complete THEN {} ELSE {"incomplete"}))
  /\ txs' = [txs EXCEPT ![result] = @ + 1]
  /\ UNCHANGED <<broadcast, expired, report, told, crashes>>

SucceedsOnChain(x, complete) ==
  /\ Booked(x, "succeeded", complete)
  /\ recent' = IF complete THEN Newest(x) ELSE recent
  /\ UNCHANGED <<chaintext, chainreasons, failed>>

FailsOnChain(x, complete, t) ==
  /\ Booked(x, "failed", complete)
  /\ chaintext' = [chaintext EXCEPT ![x] = t]
  /\ FailedRoute(RouteOf[x])
  /\ chainreasons' = [chainreasons EXCEPT ![ChainReason(t)] = @ + 1]
  /\ UNCHANGED recent

Settles(x) ==
  \E complete \in BOOLEAN :
    SucceedsOnChain(x, complete) \/ \E t \in Texts : FailsOnChain(x, complete, t)

Reconcile(x) == Settles(x) /\ UNCHANGED poll
PollSettles(x) == x \in poll /\ Settles(x) /\ poll' = poll \ {x}

\* The poll finds the transaction settled by the reconciler.
PollLate(x) ==
  /\ x \in poll /\ row[x] = "final" /\ poll' = poll \ {x}
  /\ UNCHANGED <<broadcast, row, expired, booked, partial, chaintext, tallies, book, report,
                 told, crashes>>

PollTimesOut(x) ==
  /\ x \in poll /\ poll' = poll \ {x}
  /\ expired' = expired \union {x}
  /\ Record(BaseOf[x], {"unknown"})
  /\ UNCHANGED <<broadcast, row, booked, partial, chaintext, tallies, recent, report, told,
                 crashes>>

-----------------------------------------------------------------------------
(***************************************************************************)
(* The hourly report                                                       *)
(***************************************************************************)

\* snapshot_for_hourly_report takes the hour and leaves the session.
SnapshotForHourlyReport ==
  /\ report' = hour /\ hour' = Zero
  /\ UNCHANGED <<session, recent>>

\* build_profit_report: the hour is taken before the report is built.
TakeHour ==
  /\ report = NoReport /\ SnapshotForHourlyReport
  /\ UNCHANGED <<broadcast, row, poll, expired, booked, partial, chaintext, tallies, told, crashes>>

\* Mutant: the hour is cleared once the report is out, too.
ReportClearing ==
  /\ report # NoReport /\ report' = NoReport
  /\ told' = Plus(told, report)
  /\ hour' = Zero
  /\ UNCHANGED <<broadcast, row, poll, expired, booked, partial, chaintext, tallies, session,
                 recent, crashes>>

\* send_report: the parts go out, or one fails and the hour is not told again.
Report ==
  /\ report # NoReport /\ report' = NoReport
  /\ told' = Plus(told, report)
  /\ UNCHANGED <<broadcast, row, poll, expired, booked, partial, chaintext, tallies, book,
                 crashes>>

ProfitNext ==
  \/ ProfitRestart \/ TakeHour \/ Report
  \/ \E x \in Txs :
       \/ Sign(x) \/ Accepted(x) \/ Uncertain(x) \/ Rejected(x)
       \/ Reconcile(x) \/ PollSettles(x) \/ PollLate(x) \/ PollTimesOut(x)

ProfitSpec == ProfitInit /\ [][ProfitNext]_pvars

-----------------------------------------------------------------------------
(***************************************************************************)
(* Properties                                                              *)
(***************************************************************************)

\* Every variable keeps its type: the windows count in naturals, each entry
\* of the latest transactions is one that was submitted.
ProfitTypeOK ==
  /\ broadcast \in [Txs -> {"none", "submitted", "uncertain", "rejected", "old"}]
  /\ row \in [Txs -> {"none", "pending", "final"}]
  /\ poll \subseteq Txs /\ expired \subseteq Txs /\ partial \subseteq Txs
  /\ booked \in [Txs -> {"none", "succeeded", "failed"}]
  /\ chaintext \in [Txs -> AllTexts \union {NoText}]
  /\ txs \in [{"submitted", "succeeded", "failed"} -> Nat]
  /\ chainreasons \in [Reasons -> Nat]
  /\ failed \in [VenueRoutes -> Nat]
  /\ session \in Windows /\ hour \in Windows /\ told \in Windows
  /\ report \in Windows \union {NoReport}
  /\ recent \in Seq(Txs)
  /\ crashes \in Nat

\* The submissions that a field of the windows txs.
Counted(f) ==
  CASE f = "submitted"  -> {x \in Txs : broadcast[x] = "submitted"}
    [] f = "unknown"    -> expired
    [] f = "incomplete" -> partial
    [] OTHER            -> {x \in Txs : booked[x] = f}

(***************************************************************************)
(* The session of a base counts each of its submissions once, whoever     *)
(* settles it, and the reports divide it up: the hours reported, the one   *)
(* under way and the one being collected together are the session.         *)
(***************************************************************************)
WindowsAddUp ==
  \A b \in Bases, f \in Fields :
    /\ session[b][f] = Cardinality({x \in Counted(f) : BaseOf[x] = b})
    /\ session[b][f] = hour[b][f] + told[b][f] + (IF report = NoReport THEN 0 ELSE report[b][f])

(***************************************************************************)
(* The counters of the funnel tell the same, the chainreasons add up to the     *)
(* failures, and a route with an entry has all of its failures in it.     *)
(***************************************************************************)
FailuresExplained ==
  /\ \A c \in DOMAIN txs : txs[c] = Cardinality(Counted(c))
  /\ \A r \in Reasons :
       chainreasons[r] = Cardinality({x \in Counted("failed") : ChainReason(chaintext[x]) = r})
  /\ \A r \in VenueRoutes :
       failed[r] \in {0, Cardinality({x \in Counted("failed") : RouteOf[x] = r})}

\* The latest transactions are complete successes of this process, each once.
RecentAreSuccesses ==
  /\ Len(recent) <= MaxRecent
  /\ \A i \in DOMAIN recent : booked[recent[i]] = "succeeded" /\ recent[i] \notin partial
  /\ \A i, j \in DOMAIN recent : recent[i] = recent[j] => i = j

\* What the operator reads of the transactions in the hourly reports is so.
ProfitIsTold == WindowsAddUp /\ FailuresExplained /\ RecentAreSuccesses
=============================================================================

---------------------------- MODULE ArbExecutor ----------------------------
(***************************************************************************)
(* The executor of the arbitrage bot (crates/arbitrage): tasks that turn   *)
(* an opportunity into a transaction, the in-memory route reservations and *)
(* caller accounts they share, the SQLite ledger of submissions, the fast  *)
(* poll of each transaction and the recovery worker that reconciles what   *)
(* the poll, or a process that died, left open.                            *)
(*                                                                         *)
(* Time is left out: a reservation, a cooldown or a poll window ends at    *)
(* any moment after it began.  The one duration that matters to a          *)
(* property, an attempt that outlasts its reservation, is the bound        *)
(* Outlast.  Quotes and amounts are left out; an attempt may find its      *)
(* opportunity gone at every step before it broadcasts.                    *)
(***************************************************************************)
EXTENDS Integers, FiniteSets

CONSTANTS
  Attempts,    \* bound: the execution attempts of a run
  Routes,      \* dedup keys of round trips
  Callers,     \* accounts of the caller pool
  NoTx,        \* what an attempt or the recovery worker without one holds
  Polls,       \* poll_tx
  MaxSeq,      \* bound: transactions of one caller that can land
  Outlast,     \* bound: whether an attempt may outlast RESERVATION_TTL
  SameBytes,   \* bound: whether two attempts on a route may build the same envelope
  MaxCrashes   \* bound: restarts of the bot

\* What the hash of a transaction covers: fields, fees and the quoted amounts,
\* of which bytes stands for the last two; there are no time bounds.
Tx == [caller : Callers, seq : 1 .. MaxSeq, route : Routes, bytes : Attempts]

ASSUME ExecutorAssumption ==
  /\ NoTx \notin Tx
  /\ Routes # {} /\ Callers # {}
  /\ Polls \in BOOLEAN /\ Outlast \in BOOLEAN /\ SameBytes \in BOOLEAN
  /\ MaxSeq \in Nat /\ MaxCrashes \in Nat

VARIABLES
  pc,        \* where try_execute_opportunity stands in each attempt
  route,     \* the attempt's dedup key
  caller,    \* the account whose guard the attempt holds
  tx,        \* the transaction it built
  reply,     \* what broadcast returned
  paths,     \* SubmittedPathCache: free, reserved or submitted
  cooling,   \* callers whose busy_until_ms is in the future
  poll,      \* the poll task of each attempt: off, waiting or found
  looking,   \* the row the recovery worker asks the RPC about
  answer,    \* the RPC's answer to it
  accounted, \* settlements the profit book of this process has of each hash
  rows,      \* submissions.status, or "none"
  sequence,  \* the callers' sequence numbers on chain
  mempool,   \* transactions the network may still include
  landed,    \* their results: "none", SUCCESS or FAILED
  age,       \* of a submission: fresh; old once the RPC's oldest ledger is
             \* newer; gone once the RPC has dropped the result too
  crashes    \* bound

tasks == <<pc, route, caller, tx, reply, poll>>
memory == <<tasks, paths, cooling, looking, answer, accounted>>
network == <<sequence, mempool, landed, age>>
vars == <<memory, rows, network, crashes>>

Pending == {"SUBMITTED", "UNKNOWN", "HISTORY_REQUIRED"}
Final == {"SUCCESS", "FAILED", "REJECTED"}

Init ==
  /\ pc = [a \in Attempts |-> "new"]
  /\ route = [a \in Attempts |-> CHOOSE r \in Routes : TRUE]
  /\ caller = [a \in Attempts |-> CHOOSE c \in Callers : TRUE]
  /\ tx = [a \in Attempts |-> NoTx]
  /\ reply = [a \in Attempts |-> "none"]
  /\ paths = [r \in Routes |-> "free"] /\ cooling = {}
  /\ poll = [a \in Attempts |-> "off"]
  /\ looking = NoTx /\ answer = "none"
  /\ accounted = [h \in Tx |-> 0]
  /\ rows = [h \in Tx |-> "none"]
  /\ sequence = [c \in Callers |-> 0] /\ mempool = {}
  /\ landed = [h \in Tx |-> "none"] /\ age = [h \in Tx |-> "fresh"]
  /\ crashes = 0

-----------------------------------------------------------------------------
(***************************************************************************)
(* An attempt: TxExecutor::execute and try_execute_opportunity             *)
(***************************************************************************)

\* Mutant: only broadcast routes count as taken.
ReservableOften(r) == paths[r] # "submitted"

Reservable(r) == paths[r] = "free"

\* try_reserve; an attempt that finds the route taken is dropped.
Reserve(a, r) ==
  /\ pc[a] = "new" /\ Reservable(r)
  /\ paths' = [paths EXCEPT ![r] = "reserved"]
  /\ pc' = [pc EXCEPT ![a] = "reserved"]
  /\ route' = [route EXCEPT ![a] = r]
  /\ UNCHANGED <<caller, tx, reply, poll, cooling, looking, answer, accounted,
                 rows, network, crashes>>

\* The guard of a caller is held until try_execute_opportunity returns.
Held(c) ==
  \E a \in Attempts : caller[a] = c /\ pc[a] \in {"preparing", "prepared", "recorded", "answered"}

\* try_acquire: any caller neither cooling nor held, after the last quotes.
Acquire(a, c) ==
  /\ pc[a] = "reserved"
  /\ c \notin cooling /\ ~Held(c)
  /\ pc' = [pc EXCEPT ![a] = "preparing"]
  /\ caller' = [caller EXCEPT ![a] = c]
  /\ UNCHANGED <<route, tx, reply, poll, paths, cooling, looking, answer, accounted,
                 rows, network, crashes>>

\* prepare_opportunity_tx: the account's sequence is read first, the envelope
\* is built from it and simulated.
Prepare(a) ==
  /\ pc[a] = "preparing" /\ sequence[caller[a]] < MaxSeq
  /\ \E b \in Attempts :
       /\ b = a \/ SameBytes
       /\ tx' = [tx EXCEPT ![a] = [caller |-> caller[a], seq |-> sequence[caller[a]] + 1,
                                   route |-> route[a], bytes |-> b]]
  /\ pc' = [pc EXCEPT ![a] = "prepared"]
  /\ UNCHANGED <<route, caller, reply, poll, paths, cooling, looking, answer, accounted,
                 rows, network, crashes>>

\* release: the entry goes, whoever made it.
Release(a) ==
  /\ paths' = [paths EXCEPT ![route[a]] = "free"]
  /\ pc' = [pc EXCEPT ![a] = "done"]

\* No connection, no profit left, no free caller, no valid simulation, or the
\* submission could not be recorded.
Drop(a) ==
  /\ pc[a] \in {"reserved", "preparing", "prepared"}
  /\ Release(a)
  /\ UNCHANGED <<route, caller, tx, reply, poll, cooling, looking, answer, accounted,
                 rows, network, crashes>>

\* Mutant: the submission is recorded when the broadcast is known to be accepted.
RecordLater(a) ==
  /\ pc[a] = "prepared"
  /\ pc' = [pc EXCEPT ![a] = "recorded"]
  /\ UNCHANGED <<route, caller, tx, reply, poll, paths, cooling, looking, answer,
                 accounted, rows, network, crashes>>

\* record_submitted: a hash that is there already keeps its status.
Record(a) ==
  /\ pc[a] = "prepared"
  /\ rows' = [rows EXCEPT ![tx[a]] = IF rows[tx[a]] = "none" THEN "SUBMITTED" ELSE rows[tx[a]]]
  /\ pc' = [pc EXCEPT ![a] = "recorded"]
  /\ UNCHANGED <<route, caller, tx, reply, poll, paths, cooling, looking, answer,
                 accounted, network, crashes>>

\* What the network may do with a transaction it is sent and what broadcast
\* then returns: ok (PENDING or DUPLICATE), refused (ERROR), overloaded
\* (TRY_AGAIN_LATER) or, when the answer is lost, uncertain.
Taken(h) == landed[h] = "none" /\ h.seq = sequence[h.caller] + 1

Broadcast(a) ==
  /\ pc[a] = "recorded"
  /\ \/ /\ tx[a] \in mempool \/ Taken(tx[a])
        /\ mempool' = mempool \union {tx[a]}
        /\ \E r \in {"ok", "uncertain"} : reply' = [reply EXCEPT ![a] = r]
     \/ /\ tx[a] \notin mempool
        /\ \E r \in {"refused", "overloaded", "uncertain"} : reply' = [reply EXCEPT ![a] = r]
        /\ UNCHANGED mempool
  /\ pc' = [pc EXCEPT ![a] = "answered"]
  /\ UNCHANGED <<route, caller, tx, poll, paths, cooling, looking, answer, accounted,
                 rows, sequence, landed, age, crashes>>

\* An explicit rejection: finalize, release the route.
Rejected(a) ==
  /\ pc[a] = "answered" /\ reply[a] \in {"refused", "overloaded"}
  /\ rows' = [rows EXCEPT ![tx[a]] = IF rows[tx[a]] \in Pending THEN "REJECTED" ELSE rows[tx[a]]]
  /\ cooling' = IF reply[a] = "overloaded" THEN cooling \union {caller[a]} ELSE cooling
  /\ Release(a)
  /\ UNCHANGED <<route, caller, tx, reply, poll, looking, answer, accounted, network, crashes>>

\* Accepted, or nobody knows: start the poll, cool the caller down, keep the
\* route in mark_submitted.
Submitted(a) ==
  /\ pc[a] = "answered" /\ reply[a] \in {"ok", "uncertain"}
  /\ poll' = [poll EXCEPT ![a] = IF Polls THEN "waiting" ELSE "off"]
  /\ cooling' = cooling \union {caller[a]}
  /\ paths' = [paths EXCEPT ![route[a]] = "submitted"]
  /\ pc' = [pc EXCEPT ![a] = "done"]
  /\ UNCHANGED <<route, caller, tx, reply, looking, answer, accounted, rows, network, crashes>>

\* prune_expired: a submitted route is taken for one ledger, a reservation for
\* RESERVATION_TTL.
Prune(r) ==
  /\ paths[r] = "submitted" \/ (Outlast /\ paths[r] = "reserved")
  /\ paths' = [paths EXCEPT ![r] = "free"]
  /\ UNCHANGED <<tasks, cooling, looking, answer, accounted, rows, network, crashes>>

\* busy_until_ms passes.
Cooled(c) ==
  /\ c \in cooling
  /\ cooling' = cooling \ {c}
  /\ UNCHANGED <<tasks, paths, looking, answer, accounted, rows, network, crashes>>

-----------------------------------------------------------------------------
(***************************************************************************)
(* Settlement: poll_transaction and the recovery worker                    *)
(***************************************************************************)

\* Mutant: the settlement is not conditional on the row being pending.
SettleAlways(h) ==
  /\ rows' = [rows EXCEPT ![h] = landed[h]]
  /\ accounted' = [accounted EXCEPT ![h] = accounted[h] + 1]

\* apply_settlement: finalize is a compare-and-set, the profit book follows it.
Settle(h) ==
  \/ /\ rows[h] \in Pending
     /\ rows' = [rows EXCEPT ![h] = landed[h]]
     /\ accounted' = [accounted EXCEPT ![h] = accounted[h] + 1]
  \/ /\ rows[h] \notin Pending
     /\ UNCHANGED <<rows, accounted>>

PollFinds(a) ==
  /\ poll[a] = "waiting"
  /\ landed[tx[a]] # "none" /\ age[tx[a]] # "gone"
  /\ poll' = [poll EXCEPT ![a] = "found"]
  /\ UNCHANGED <<pc, route, caller, tx, reply, paths, cooling, looking, answer, accounted,
                 rows, network, crashes>>

PollSettles(a) ==
  /\ poll[a] = "found"
  /\ Settle(tx[a])
  /\ poll' = [poll EXCEPT ![a] = "off"]
  /\ UNCHANGED <<pc, route, caller, tx, reply, paths, cooling, looking, answer, network, crashes>>

\* The poll window ends: mark_status, which leaves final rows alone.
PollTimesOut(a) ==
  /\ poll[a] = "waiting"
  /\ rows' = [rows EXCEPT ![tx[a]] = IF rows[tx[a]] \in Pending THEN "UNKNOWN" ELSE rows[tx[a]]]
  /\ poll' = [poll EXCEPT ![a] = "off"]
  /\ UNCHANGED <<pc, route, caller, tx, reply, paths, cooling, looking, answer,
                 accounted, network, crashes>>

\* Mutant: rows that were deferred are not looked at again.
DueOnce == {"SUBMITTED"}

\* The statuses pending() returns; rows are due one after the other.
Due == Pending

\* What getTransaction says of h, if it answers at all.
Known(h) ==
  CASE landed[h] # "none" /\ age[h] # "gone" -> "found"
    [] (landed[h] = "none" \/ age[h] = "gone") /\ age[h] = "fresh" -> "missing"
    [] OTHER -> "history"

Look(h, found) ==
  /\ looking = NoTx /\ rows[h] \in Due
  /\ looking' = h /\ answer' = found
  /\ UNCHANGED <<tasks, paths, cooling, accounted, rows, network, crashes>>

\* Mutant: a transaction the RPC does not find is taken for a failed one.
DeferredAsFailed == IF answer = "missing" THEN "FAILED" ELSE "UNKNOWN"

\* The status defer gives.
Deferred == IF answer = "history" THEN "HISTORY_REQUIRED" ELSE "UNKNOWN"

\* The rest of a round of reconcile_pending, after the RPC's answer.
Reconcile ==
  /\ looking # NoTx
  /\ \/ answer = "found" /\ Settle(looking)
     \/ /\ answer # "found"
        /\ rows' = [rows EXCEPT ![looking] =
                      IF rows[looking] \in Pending THEN Deferred ELSE rows[looking]]
        /\ UNCHANGED accounted
  /\ looking' = NoTx /\ answer' = "none"
  /\ UNCHANGED <<tasks, paths, cooling, network, crashes>>

-----------------------------------------------------------------------------
(***************************************************************************)
(* The network and the process                                             *)
(***************************************************************************)

\* A ledger includes h; the caller's other transactions of that sequence
\* number can never be included.
Land(h) ==
  /\ h \in mempool /\ Taken(h)
  /\ \E result \in {"SUCCESS", "FAILED"} : landed' = [landed EXCEPT ![h] = result]
  /\ sequence' = [sequence EXCEPT ![h.caller] = h.seq]
  /\ mempool' = mempool \ {h}
  /\ UNCHANGED <<memory, rows, age, crashes>>

Evict(h) ==
  /\ h \in mempool
  /\ mempool' = mempool \ {h}
  /\ UNCHANGED <<memory, rows, sequence, landed, age, crashes>>

\* The RPC's retention moves past h's submission, then past its result.
Forget(h) ==
  /\ rows[h] # "none"
  /\ \/ age[h] = "fresh" /\ age' = [age EXCEPT ![h] = "old"]
     \/ age[h] = "old" /\ landed[h] # "none" /\ age' = [age EXCEPT ![h] = "gone"]
  /\ UNCHANGED <<memory, rows, sequence, mempool, landed, crashes>>

\* The bot dies and starts again: what is not in SQLite is lost.
Crash ==
  /\ crashes < MaxCrashes /\ crashes' = crashes + 1
  /\ pc' = [a \in Attempts |-> IF pc[a] = "new" THEN "new" ELSE "done"]
  /\ poll' = [a \in Attempts |-> "off"]
  /\ paths' = [r \in Routes |-> "free"] /\ cooling' = {}
  /\ looking' = NoTx /\ answer' = "none"
  /\ accounted' = [h \in Tx |-> 0]
  /\ UNCHANGED <<route, caller, tx, reply, rows, network>>

Attempt(a) ==
  \/ \E r \in Routes : Reserve(a, r)
  \/ \E c \in Callers : Acquire(a, c)
  \/ Prepare(a) \/ Drop(a) \/ Record(a) \/ Broadcast(a) \/ Rejected(a) \/ Submitted(a)
  \/ PollFinds(a) \/ PollSettles(a) \/ PollTimesOut(a)

Next ==
  \/ \E a \in Attempts : Attempt(a)
  \/ \E r \in Routes : Prune(r)
  \/ \E c \in Callers : Cooled(c)
  \/ \E h \in Tx : \/ \E found \in {Known(h), "failed request"} : Look(h, found)
                   \/ Land(h) \/ Evict(h) \/ Forget(h)
  \/ Reconcile
  \/ Crash

Spec == Init /\ [][Next]_vars

(***************************************************************************)
(* The recovery worker looks at every pending row again and again, rows    *)
(* being ordered by when they are due, and gets an answer now and then.    *)
(***************************************************************************)
LiveSpec ==
  /\ Spec
  /\ WF_vars(Reconcile)
  /\ \A h \in Tx : SF_vars(Look(h, Known(h)))

-----------------------------------------------------------------------------
(***************************************************************************)
(* Properties                                                              *)
(***************************************************************************)

TypeOK ==
  /\ pc \in [Attempts -> {"new", "reserved", "preparing", "prepared", "recorded",
                          "answered", "done"}]
  /\ route \in [Attempts -> Routes] /\ caller \in [Attempts -> Callers]
  /\ tx \in [Attempts -> Tx \union {NoTx}]
  /\ \A a \in Attempts :
       pc[a] \in {"prepared", "recorded", "answered"} \/ poll[a] # "off" => tx[a] \in Tx
  /\ reply \in [Attempts -> {"none", "ok", "refused", "overloaded", "uncertain"}]
  /\ paths \in [Routes -> {"free", "reserved", "submitted"}]
  /\ cooling \subseteq Callers
  /\ poll \in [Attempts -> {"off", "waiting", "found"}]
  /\ looking \in Tx \union {NoTx}
  /\ answer \in {"none", "found", "missing", "history", "failed request"}
  /\ accounted \in [Tx -> Nat]
  /\ rows \in [Tx -> Pending \union Final \union {"none"}]
  /\ sequence \in [Callers -> 0 .. MaxSeq]
  /\ mempool \subseteq Tx
  /\ landed \in [Tx -> {"none", "SUCCESS", "FAILED"}]
  /\ age \in [Tx -> {"fresh", "old", "gone"}]

(***************************************************************************)
(* Whatever the network accepted is in the ledger, across any crash and    *)
(* any lost answer: no transaction of the bot can land unknown to it.      *)
(***************************************************************************)
NothingUnrecorded ==
  \A h \in Tx : (h \in mempool \/ landed[h] # "none") => rows[h] # "none"

(***************************************************************************)
(* A final row tells what the chain did: SUCCESS and FAILED are the        *)
(* result the transaction landed with, REJECTED one that has not landed    *)
(* and no longer can; polls, lookups, lost answers and crashes never make  *)
(* up a result.                                                            *)
(***************************************************************************)
FinalTellsChain ==
  \A h \in Tx :
    /\ rows[h] \in {"SUCCESS", "FAILED"} => landed[h] = rows[h]
    /\ rows[h] = "REJECTED" => landed[h] = "none" /\ h \notin mempool

(***************************************************************************)
(* The fast poll and the recovery worker never account for one hash twice, *)
(* and what is accounted for is settled in the ledger.                     *)
(***************************************************************************)
AccountedOnce ==
  \A h \in Tx : accounted[h] > 0 => accounted[h] = 1 /\ rows[h] \in {"SUCCESS", "FAILED"}

(***************************************************************************)
(* A row that reached a final status keeps it, whichever of the poll, its  *)
(* timeout, the recovery worker or a second attempt comes late.            *)
(***************************************************************************)
FinalStays ==
  [][\A h \in Tx : rows[h] \in Final => rows'[h] = rows[h]]_vars

Running(a) == pc[a] \in {"reserved", "preparing", "prepared", "recorded", "answered"}

(***************************************************************************)
(* Two attempts never work on the same route at the same time, so one      *)
(* opportunity is not bought twice.                                        *)
(***************************************************************************)
OneAttemptPerRoute ==
  \A a, b \in Attempts : Running(a) /\ Running(b) /\ route[a] = route[b] => a = b

(***************************************************************************)
(* What landed is settled in the ledger sooner or later, also when the     *)
(* poll missed it or the process died, unless the RPC drops its result.    *)
(***************************************************************************)
LandedSettles ==
  \A h \in Tx : landed[h] # "none" ~> (rows[h] = landed[h] \/ age[h] = "gone")
=============================================================================

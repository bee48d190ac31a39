---------------------------- MODULE LimitKeeper ----------------------------
(***************************************************************************)
(* The limit keeper (crates/limit-keeper): it rebuilds the book of open    *)
(* orders from the escrow's events, checkpoints it together with the       *)
(* ledger it has read up to, and submits fills and reclaims, against a     *)
(* chain that goes on meanwhile, an RPC that may fail and transactions     *)
(* that may land after the keeper gave up on them.                         *)
(*                                                                         *)
(* The loop of main.rs is cut at its awaits.  A book entry is a copy of    *)
(* the order: its terms never change, so only the two fields that events   *)
(* update are kept.  During a pass nothing but the visited order's own     *)
(* entry changes, so that the snapshot main.rs iterates over is the set of *)
(* keys still to visit, with the entries of the book.  Locals are cleared  *)
(* where they go out of use.                                               *)
(***************************************************************************)
EXTENDS OrderLog

CONSTANTS
  Span,         \* MAX_LEDGER_SCAN_PER_REQUEST
  MaxEvents,    \* MAX_PAGES times the page limit of get_contract_events
  MaxFill,      \* max_fill; 0 when it is not configured
  ReclaimOn,    \* reclaim
  BuilderStep,  \* what TransactionBuilder::build adds to the account's sequence
  I128Max,      \* largest i128
  NoOrder,      \* the book's entry of a key it does not hold
  NoFile,       \* the checkpoint path before the first save
  NoTx,         \* no transaction is polled
  MaxCrashes    \* bound: crashes of the keeper

ASSUME KeeperAssumption ==
  /\ Span \in Nat \ {0} /\ MaxEvents \in Nat \ {0}
  /\ MaxFill \in Nat /\ I128Max \in Nat /\ MaxCrashes \in Nat
  /\ ReclaimOn \in BOOLEAN /\ BuilderStep \in {0, 1}
  /\ NoOrder \notin [remaining : Nat, due : Nat]
  /\ NoFile \notin [cursor : Nat, book : [Keys -> [remaining : Nat, due : Nat] \union {NoOrder}]]
  /\ NoTx \notin [op : {"fill", "reclaim"}, key : Keys, amount : Nat]

VARIABLES
  pc,        \* down, idle, scan, apply, pass or poll: where the loop is
  latest,    \* the ledger the iteration works with
  cursor,    \* first ledger whose events have not been read
  book,      \* OpenOrderBook
  file,      \* the checkpoint file
  end,       \* end of the range being read
  pos,      \* the event of the log the answer has been applied up to
  fetched,   \* last event of the log in the answer
  todo,      \* keys of the pass's snapshot not visited yet
  tx,        \* the transaction poll_transaction waits for
  outcome,   \* what the network answers for it
  inflight,  \* submitted transactions that may still land
  origin,    \* history: events before the first cursor, never read
  crashes    \* bound

memory == <<pc, latest, cursor, book, end, pos, fetched, todo, tx, outcome>>
keeper == <<memory, file, inflight, origin, crashes>>
vars == <<chain, keeper>>

Entry == [remaining : Nat, due : Nat]
NoBook == [k \in Keys |-> NoOrder]
Held == {k \in Keys : book[k] # NoOrder}
Min2(a, b) == IF a < b THEN a ELSE b
Max2(a, b) == IF a < b THEN b ELSE a

\* The log's first n events are the ones published before ledger c.
Split(n, c) == n \in 0 .. Len(log) /\ \A i \in DOMAIN log : i <= n <=> log[i].ledger < c

Init ==
  /\ ChainInit
  /\ pc = "down" /\ latest = 0 /\ cursor = 0 /\ book = NoBook
  /\ end = 0 /\ pos = 0 /\ fetched = 0 /\ todo = {}
  /\ tx = NoTx /\ outcome = "pending"
  /\ file = NoFile /\ inflight = {} /\ origin = 0 /\ crashes = 0

\* The process ends: its memory is gone, submitted transactions are not.
Exit ==
  /\ pc' = "down" /\ latest' = 0 /\ cursor' = 0 /\ book' = NoBook
  /\ end' = 0 /\ pos' = 0 /\ fetched' = 0 /\ todo' = {}
  /\ tx' = NoTx /\ outcome' = "pending"
  /\ UNCHANGED <<file, inflight, origin>>

\* A kill, or an error main.rs returns with `?`, such as a failed save.
Crash ==
  /\ pc # "down" /\ crashes < MaxCrashes
  /\ Exit
  /\ crashes' = crashes + 1
  /\ UNCHANGED chain

(***************************************************************************)
(* Startup: load the checkpoint, or begin MAX_LEDGER_SCAN_PER_REQUEST      *)
(* ledgers ago with an empty book when there is none.                      *)
(***************************************************************************)
Start ==
  /\ pc = "down"
  /\ pc' = "idle"
  /\ IF file = NoFile
       THEN /\ cursor' = Max2(ledger - Span, 1)
            /\ book' = NoBook
            /\ \E n \in 0 .. Len(log) : Split(n, cursor') /\ origin' = n
       ELSE /\ cursor' = file.cursor
            /\ book' = file.book
            /\ UNCHANGED origin
  /\ UNCHANGED <<chain, latest, file, end, pos, fetched, todo, tx, outcome,
                 inflight, crashes>>

PollLatest ==
  /\ pc = "idle"
  /\ latest' = ledger
  /\ pc' = "scan"
  /\ UNCHANGED <<chain, cursor, book, file, end, pos, fetched, todo, tx,
                 outcome, inflight, origin, crashes>>

\* Mutant: the range is not cut at the latest ledger.
FetchUncapped ==
  /\ pc = "scan" /\ cursor < latest
  /\ end' = cursor + Span
  /\ \E first, range \in 0 .. Len(log) :
       /\ Split(first, cursor) /\ Split(range, end')
       /\ pos' = first
       /\ \E last \in range .. Len(log) :
            /\ last > range => range > first
            /\ fetched' = Min2(last, first + MaxEvents)
  /\ pc' = "apply"
  /\ UNCHANGED <<chain, latest, cursor, book, file, todo, tx, outcome,
                 inflight, origin, crashes>>

(***************************************************************************)
(* One get_contract_events call.  The first page is limited to the range;  *)
(* the following ones carry the cursor only, so that they may reach past   *)
(* end; after MAX_PAGES pages the rest is dropped without an error.        *)
(***************************************************************************)
Fetch ==
  /\ pc = "scan" /\ cursor < latest
  /\ end' = Min2(cursor + Span, latest)
  /\ \E first, range \in 0 .. Len(log) :
       /\ Split(first, cursor) /\ Split(range, end')
       /\ pos' = first
       /\ \E last \in range .. Len(log) :
            /\ last > range => range > first
            /\ fetched' = Min2(last, first + MaxEvents)
  /\ pc' = "apply"
  /\ UNCHANGED <<chain, latest, cursor, book, file, todo, tx, outcome,
                 inflight, origin, crashes>>

\* Mutant: a fill does not move the due ledger of a DCA order.
AppliedKeepsDue(e) ==
  CASE e.topic = "created" -> [remaining |-> e.remaining, due |-> e.due]
    [] e.topic = "filled" /\ e.remaining # 0 /\ book[e.key] # NoOrder
         -> [remaining |-> e.remaining, due |-> book[e.key].due]
    [] OTHER -> NoOrder

\* apply_created, apply_filled, apply_cancelled and apply_expired.
Applied(e) ==
  CASE e.topic = "created" -> [remaining |-> e.remaining, due |-> e.due]
    [] e.topic = "filled" /\ e.remaining # 0 /\ book[e.key] # NoOrder
         -> [remaining |-> e.remaining, due |-> e.due]
    [] OTHER -> NoOrder

Apply ==
  /\ pc = "apply" /\ pos < fetched
  /\ pos' = pos + 1
  /\ book' = [book EXCEPT ![log[pos'].key] = Applied(log[pos'])]
  /\ UNCHANGED <<chain, pc, latest, cursor, file, end, fetched, todo, tx,
                 outcome, inflight, origin, crashes>>

Save ==
  /\ pc = "apply" /\ pos = fetched
  /\ cursor' = end
  /\ file' = [cursor |-> end, book |-> book]
  /\ end' = 0 /\ pos' = 0 /\ fetched' = 0
  /\ pc' = "scan"
  /\ UNCHANGED <<chain, latest, book, todo, tx, outcome, inflight, origin, crashes>>

\* Caught up, or the poll of a range failed: visit the orders of the book.
BeginPass ==
  /\ pc = "scan"
  /\ todo' = Held
  /\ pc' = "pass"
  /\ UNCHANGED <<chain, latest, cursor, book, file, end, pos, fetched, tx,
                 outcome, inflight, origin, crashes>>

\* The order of the BTreeMap's keys.
Precedes(j, k) == (j[1] = "limit" /\ k[1] = "dca") \/ (j[1] = k[1] /\ j[2] < k[2])
Visiting(k) == pc = "pass" /\ k \in todo /\ \A j \in todo \ {k} : Precedes(k, j)

\* The order is left alone, or the quote, the simulation or the call failed.
Skip(k) ==
  /\ Visiting(k)
  /\ todo' = todo \ {k}
  /\ UNCHANGED <<chain, pc, latest, cursor, book, file, end, pos, fetched, tx,
                 outcome, inflight, origin, crashes>>

\* What execute_fill and execute_reclaim sign: one more than the account's
\* sequence, to which the builder may add; only the next number is accepted.
AcceptedSequence == 1 + BuilderStep = 1

Submit(k, t) ==
  /\ AcceptedSequence
  /\ inflight' = inflight \union {t}
  /\ tx' = t /\ outcome' = "pending"
  /\ pc' = "poll"
  /\ UNCHANGED <<chain, latest, cursor, book, file, end, pos, fetched, todo,
                 origin, crashes>>

SubmitReclaim(k) ==
  /\ Visiting(k)
  /\ latest > terms[k].expires
  /\ ReclaimOn
  /\ Reclaimable(k)
  /\ Submit(k, [op |-> "reclaim", key |-> k, amount |-> 0])

\* Mutant: a DCA order is filled like a limit order.
FillAmountWhole(k) ==
  IF MaxFill > 0 THEN Min2(book[k].remaining, MaxFill) ELSE book[k].remaining

\* fill_amount: the chunk or the rest, at most max_fill.
FillAmount(k) ==
  LET requested == IF k[1] = "dca" THEN terms[k].chunk ELSE book[k].remaining
      capped == IF MaxFill > 0 THEN Min2(requested, MaxFill) ELSE requested
  IN Min2(capped, book[k].remaining)

Executable(k) ==
  /\ Visiting(k)
  /\ latest < terms[k].expires
  /\ k[1] = "dca" => latest >= book[k].due
  /\ FillAmount(k) > 0

MinOutOverflows(k) == FillAmount(k) * terms[k].rate > I128Max

SubmitFill(k) ==
  /\ Executable(k)
  /\ ~MinOutOverflows(k)
  /\ Takes(k, FillAmount(k))
  /\ Submit(k, [op |-> "fill", key |-> k, amount |-> FillAmount(k)])

\* required_min_out panics instead of saturating as the contract does.
Panic(k) ==
  /\ Executable(k)
  /\ MinOutOverflows(k)
  /\ Exit
  /\ UNCHANGED <<chain, crashes>>

Resume ==
  /\ pc' = "pass"
  /\ todo' = todo \ {tx.key}
  /\ tx' = NoTx /\ outcome' = "pending"
  /\ UNCHANGED <<chain, latest, cursor, end, pos, fetched, inflight, origin, crashes>>

\* Mutant: the book forgets the order whatever became of the reclaim.
ConfirmedUnchecked ==
  /\ pc = "poll"
  /\ IF tx.op = "reclaim"
       THEN /\ book' = [book EXCEPT ![tx.key] = NoOrder]
            /\ file' = [cursor |-> cursor, book |-> book']
       ELSE UNCHANGED <<book, file>>
  /\ Resume

\* poll_transaction saw success: a reclaimed order leaves the book at once.
Confirmed ==
  /\ pc = "poll" /\ outcome = "success"
  /\ IF tx.op = "reclaim"
       THEN /\ book' = [book EXCEPT ![tx.key] = NoOrder]
            /\ file' = [cursor |-> cursor, book |-> book']
       ELSE UNCHANGED <<book, file>>
  /\ Resume

\* Mutant: the order leaves the book though its transaction failed.
GiveUpForgets ==
  /\ pc = "poll"
  /\ book' = [book EXCEPT ![tx.key] = NoOrder]
  /\ UNCHANGED file
  /\ Resume

\* It failed on chain, or the polls timed out or failed: the next pass retries.
GiveUp ==
  /\ pc = "poll"
  /\ UNCHANGED <<book, file>>
  /\ Resume

EndPass ==
  /\ pc = "pass" /\ todo = {}
  /\ pc' = "idle" /\ latest' = 0
  /\ UNCHANGED <<chain, cursor, book, file, end, pos, fetched, todo, tx,
                 outcome, inflight, origin, crashes>>

(***************************************************************************)
(* The network.  All transactions in flight carry the account's next       *)
(* sequence number, so that one of them lands and kills the others; it     *)
(* takes effect when the contract still allows it.                         *)
(***************************************************************************)
Lands(t) ==
  /\ t \in inflight
  /\ inflight' = {}
  /\ \/ /\ t.op = "reclaim" /\ Reclaim(t.key)
        /\ outcome' = IF tx = t THEN "success" ELSE outcome
     \/ /\ t.op = "fill" /\ Take(t.key, t.amount, Reschedule(t.key))
        /\ outcome' = IF tx = t THEN "success" ELSE outcome
     \/ /\ ~(t.op = "reclaim" /\ Reclaimable(t.key))
        /\ ~(t.op = "fill" /\ Takes(t.key, t.amount))
        /\ outcome' = IF tx = t THEN "failed" ELSE outcome
        /\ UNCHANGED chain
  /\ UNCHANGED <<pc, latest, cursor, book, file, end, pos, fetched, todo, tx,
                 origin, crashes>>

Dropped(t) ==
  /\ t \in inflight
  /\ inflight' = inflight \ {t}
  /\ UNCHANGED <<chain, memory, file, origin, crashes>>

Loop == Start \/ PollLatest \/ Apply \/ Save \/ BeginPass \/ Confirmed \/ GiveUp \/ EndPass

Next ==
  \/ ChainNext /\ UNCHANGED keeper
  \/ Crash
  \/ Loop
  \/ Fetch
  \/ \E k \in Keys : Skip(k) \/ SubmitReclaim(k) \/ SubmitFill(k) \/ Panic(k)
  \/ \E t \in inflight : Lands(t) \/ Dropped(t)

Spec == Init /\ [][Next]_vars

(***************************************************************************)
(* The loop takes its steps and the process is restarted when it ended;    *)
(* ledgers are closed; an RPC that is asked again and again answers now    *)
(* and then.  Nobody else has to do anything.                              *)
(***************************************************************************)
LoopFairness ==
  /\ WF_vars(Loop)
  /\ WF_vars(\E k \in Keys : Skip(k))
  /\ WF_vars(CloseLedger /\ UNCHANGED keeper)
  /\ SF_vars(Fetch)

\* A transaction that is sent again and again lands now and then.
LandsFor(k, op) == \E t \in inflight : t.key = k /\ t.op = op /\ Lands(t)

ReclaimFairness ==
  \A k \in Keys : SF_vars(SubmitReclaim(k)) /\ SF_vars(LandsFor(k, "reclaim"))

\* Quotes that are fetched again and again are good now and then.
FillFairness ==
  \A k \in Keys : SF_vars(SubmitFill(k)) /\ SF_vars(LandsFor(k, "fill"))

LiveSpec == Spec /\ LoopFairness /\ ReclaimFairness /\ FillFairness

-----------------------------------------------------------------------------
(***************************************************************************)
(* Properties                                                              *)
(***************************************************************************)

TypeOK ==
  /\ pc \in {"down", "idle", "scan", "apply", "pass", "poll"}
  /\ latest \in 0 .. ledger /\ cursor \in Nat /\ end \in 0 .. ledger
  /\ book \in [Keys -> Entry \union {NoOrder}]
  /\ file \in [cursor : Nat, book : [Keys -> Entry \union {NoOrder}]] \union {NoFile}
  /\ pos \in 0 .. Len(log)
  /\ pc = "apply" => pos <= fetched
  /\ todo \subseteq Held
  /\ (pc = "poll") = (tx # NoTx)
  /\ pc = "poll" => tx.key \in todo

\* The event that created k has been read, or will be.
Tracked(k) == \E i \in DOMAIN log : i > origin /\ log[i].topic = "created" /\ log[i].key = k

CreatedBefore(k, c) ==
  \E i \in DOMAIN log : /\ i > origin /\ log[i].ledger < c
                        /\ log[i].topic = "created" /\ log[i].key = k

(***************************************************************************)
(* No open order is forgotten: once the cursor has passed its creation, an *)
(* order that is open on chain is in the book, and in the checkpoint a     *)
(* restart resumes from, whatever crashed, failed or timed out since.      *)
(***************************************************************************)
NoOpenOrderForgotten ==
  \A k \in Keys : Open(k) =>
    /\ pc # "down" /\ CreatedBefore(k, cursor) => book[k] # NoOrder
    /\ file # NoFile => (CreatedBefore(k, file.cursor) => file.book[k] # NoOrder)

(***************************************************************************)
(* The book converges: when every published event has been read, it holds  *)
(* exactly the open orders, with the remaining amount and due ledger the   *)
(* contract stores, even though ranges may have been applied twice and     *)
(* reclaimed orders were removed ahead of their event.                     *)
(***************************************************************************)
CaughtUpBookExact ==
  (pc \notin {"down", "apply"} /\ \A i \in DOMAIN log : log[i].ledger < cursor) =>
    \A k \in Keys : book[k] = IF Open(k) /\ Tracked(k)
                                THEN [remaining |-> remaining[k], due |-> due[k]]
                                ELSE NoOrder

(***************************************************************************)
(* get_contract_events says that it fetches the events in                  *)
(* [start_ledger, end_ledger): none of the answer lies past the end.       *)
(***************************************************************************)
FetchStaysInRange ==
  pc = "apply" => \A i \in pos + 1 .. fetched : log[i].ledger < end

(***************************************************************************)
(* limit.rs says that the keeper's minimum matches the contract's: there   *)
(* is no order the contract accepts whose minimum the keeper cannot        *)
(* compute, which would end the process.                                   *)
(***************************************************************************)
MinimumMatchesContract == [][\A k \in Keys : ~Panic(k)]_vars

(***************************************************************************)
(* With reclaim on, the deposit of every order the keeper has heard of     *)
(* goes home after the order expired, however often the keeper crashes     *)
(* and its calls fail before.                                              *)
(***************************************************************************)
ExpiredReclaimed ==
  \A k \in Keys :
    (file # NoFile /\ Tracked(k) /\ Reclaimable(k)) ~> ~Open(k)

\* left of the DCA order k remains, and its next chunk is due and computable.
ChunkWaits(k, left) ==
  /\ file # NoFile /\ Tracked(k) /\ k[1] = "dca"
  /\ Open(k) /\ remaining[k] = left /\ ledger >= due[k]
  /\ \A i \in DOMAIN log : log[i].key = k => log[i].ledger < ledger
  /\ terms[k].chunk * terms[k].rate <= I128Max

(***************************************************************************)
(* A DCA chunk that is due, and whose minimum the keeper can compute, is   *)
(* swapped when quotes keep being good, unless the order ends or expires   *)
(* first.  The keeper reads closed ledgers only, so the order's last event *)
(* has to lie in one.                                                      *)
(***************************************************************************)
DueChunkExecuted ==
  \A k \in Keys : \A left \in Deposits :
    ChunkWaits(k, left) ~> (~Open(k) \/ remaining[k] < left \/ ledger >= terms[k].expires)
=============================================================================

---------------------------- MODULE OrderIndexer ----------------------------
(***************************************************************************)
(* The order tables of the analytics indexer (crates/analytics-indexer):   *)
(* the live indexer polls the escrow's events range by range and applies   *)
(* each of them to SQLite with a statement of its own, then saves the      *)
(* cursor; `backfill` is a second process that reads a fixed range into    *)
(* the same database, which ops/deploy_indexer.sh starts next to the live  *)
(* one.  The RPC keeps events for a limited time only.                     *)
(*                                                                         *)
(* limit_orders and dca_orders have the same statements and are one table  *)
(* here.  The invocation tables filled in the same loop are not read by    *)
(* the order statements and are left out; a failure of that part is        *)
(* IngestFails.                                                            *)
(***************************************************************************)
EXTENDS OrderLog

CONSTANTS
  Span,         \* MAX_LEDGER_SCAN_PER_REQUEST
  MaxEvents,    \* MAX_PAGES times the page limit of get_contract_events
  Lookback,     \* DEFAULT_LOOKBACK_LEDGERS
  StartLedger,  \* indexer.start_ledger; 0 when it is not configured
  NoRow,        \* the row of an order the table does not hold
  Backfills,    \* bound: runs of the backfill command
  MaxOldest,    \* bound: oldest ledger the RPC drops events up to
  MaxCrashes    \* bound: ends and failed rounds of the live process

ASSUME IndexerAssumption ==
  /\ Span \in Nat \ {0} /\ MaxEvents \in Nat \ {0} /\ Lookback \in Nat /\ StartLedger \in Nat
  /\ Backfills \in Nat /\ MaxOldest \in Nat \ {0} /\ MaxCrashes \in Nat
  /\ NoRow \notin [status : {"open", "filled", "cancelled", "expired"},
                   remaining : Nat, due : Nat]

Readers == {"live", "backfill"}

VARIABLES
  pc,       \* down, idle or apply, of each reader
  cursor,   \* first ledger a reader has not read
  end,      \* end of the range a reader reads
  pos,      \* the event of the log a reader has applied its answer up to
  fetched,  \* last event of the log in a reader's answer
  stop,     \* the latest ledger backfill found when it began
  saved,    \* indexer_cursor; 0 when there is none
  rows,     \* limit_orders and dca_orders
  oldest,   \* oldest ledger the RPC has events of
  unread,   \* history: events the cursor jumped over
  torn,     \* history: a backfill ran next to the live indexer, or ended early
  left,     \* bound: backfills to come
  crashes   \* bound

reader == <<pc, cursor, end, pos, fetched, stop>>
indexer == <<reader, saved, rows, oldest, unread, torn, left, crashes>>
vars == <<chain, indexer>>

Row == [status : {"open", "filled", "cancelled", "expired"}, remaining : Nat, due : Nat]
Min2(a, b) == IF a < b THEN a ELSE b
Max2(a, b) == IF a < b THEN b ELSE a

\* The log's first n events are the ones published before ledger c.
Split(n, c) == n \in 0 .. Len(log) /\ \A i \in DOMAIN log : i <= n <=> log[i].ledger < c

Skipped(from, to) == {i \in DOMAIN log : from <= log[i].ledger /\ log[i].ledger < to}

Init ==
  /\ ChainInit
  /\ pc = [r \in Readers |-> "down"]
  /\ cursor = [r \in Readers |-> 0] /\ end = [r \in Readers |-> 0]
  /\ pos = [r \in Readers |-> 0] /\ fetched = [r \in Readers |-> 0]
  /\ stop = 0
  /\ saved = 0 /\ rows = [k \in Keys |-> NoRow]
  /\ oldest = 1 /\ unread = {} /\ torn = FALSE /\ left = Backfills /\ crashes = 0

\* What a reader remembers while it does not apply an answer.
Rest(r, place, at) ==
  /\ pc' = [pc EXCEPT ![r] = place]
  /\ cursor' = [cursor EXCEPT ![r] = at]
  /\ end' = [end EXCEPT ![r] = 0]
  /\ pos' = [pos EXCEPT ![r] = 0] /\ fetched' = [fetched EXCEPT ![r] = 0]

(***************************************************************************)
(* resolve_start_ledger: the saved cursor, the configured ledger or the    *)
(* look-back, but nothing older than what the RPC still has.               *)
(***************************************************************************)
StartLive ==
  /\ pc["live"] = "down"
  /\ torn' = (torn \/ pc["backfill"] # "down")
  /\ LET start == CASE saved # 0 -> saved
                    [] saved = 0 /\ StartLedger # 0 -> StartLedger
                    [] OTHER -> Max2(ledger - Lookback, 0)
         clamped == Max2(start, oldest)
     IN /\ Rest("live", "idle", clamped)
        /\ saved' = clamped
        /\ unread' = unread \union Skipped(saved, clamped)
  /\ UNCHANGED <<chain, stop, rows, oldest, left, crashes>>

\* The command line names the ledger a backfill begins at; it is given one the
\* cursor has passed, if there is a cursor.
StartBackfill ==
  /\ pc["backfill"] = "down" /\ left > 0
  /\ torn' = (torn \/ pc["live"] # "down")
  /\ \E start \in 1 .. ledger :
       /\ saved # 0 => start <= saved
       /\ Rest("backfill", "idle", start)
       /\ unread' = IF saved = 0 THEN unread \union Skipped(0, start) ELSE unread
  /\ stop' = ledger
  /\ left' = left - 1
  /\ UNCHANGED <<chain, saved, rows, oldest, crashes>>

\* The ledger a reader reads up to: getLatestLedger of each round, or of the start.
Latest(r) == IF r = "live" THEN ledger ELSE stop

\* Mutant: the range is not cut at the latest ledger.
RangeEndUncut(r) == cursor[r] + Span

RangeEnd(r) == Min2(cursor[r] + Span, Latest(r))

(***************************************************************************)
(* getEvents of the escrow for one range.  The RPC refuses a range it has  *)
(* no longer; the pages after the first may reach past the range.          *)
(***************************************************************************)
Fetch(r) ==
  /\ pc[r] = "idle" /\ cursor[r] < Latest(r)
  /\ cursor[r] >= oldest
  /\ end' = [end EXCEPT ![r] = RangeEnd(r)]
  /\ \E first, range \in 0 .. Len(log) :
       /\ Split(first, cursor[r]) /\ Split(range, RangeEnd(r))
       /\ pos' = [pos EXCEPT ![r] = first]
       /\ \E last \in range .. Len(log) :
            /\ last > range => range > first
            /\ fetched' = [fetched EXCEPT ![r] = Min2(last, first + MaxEvents)]
  /\ pc' = [pc EXCEPT ![r] = "apply"]
  /\ UNCHANGED <<chain, cursor, stop, saved, rows, oldest, unread, torn, left, crashes>>

\* Mutant: INSERT OR REPLACE instead of INSERT OR IGNORE.
AppliedReplacing(e) ==
  LET row == rows[e.key]
  IN CASE e.topic = "created" -> [status |-> "open", remaining |-> e.remaining, due |-> e.due]
       [] e.topic # "created" /\ (row = NoRow \/ row.status # "open") -> row
       [] e.topic = "filled" /\ row # NoRow /\ row.status = "open" ->
            [status |-> IF e.remaining = 0 THEN "filled" ELSE "open",
             remaining |-> e.remaining, due |-> e.due]
       [] OTHER -> [status |-> e.topic, remaining |-> 0, due |-> row.due]

\* Mutant: order_expired takes the branch of order_cancelled.
AppliedMergesEnds(e) ==
  LET row == rows[e.key]
  IN CASE e.topic = "created" /\ row = NoRow ->
            [status |-> "open", remaining |-> e.remaining, due |-> e.due]
       [] row # NoRow /\ row.status = "open" /\ e.topic = "filled" ->
            [status |-> IF e.remaining = 0 THEN "filled" ELSE "open",
             remaining |-> e.remaining, due |-> e.due]
       [] row # NoRow /\ row.status = "open" /\ e.topic \in {"cancelled", "expired"} ->
            [status |-> "cancelled", remaining |-> 0, due |-> row.due]
       [] OTHER -> row

(***************************************************************************)
(* apply_parsed_order_event: creation inserts unless there is a row, the   *)
(* other statements update the row if it is still open.                    *)
(***************************************************************************)
Applied(e) ==
  LET row == rows[e.key]
  IN CASE e.topic = "created" /\ row = NoRow ->
            [status |-> "open", remaining |-> e.remaining, due |-> e.due]
       [] row # NoRow /\ row.status = "open" /\ e.topic = "filled" ->
            [status |-> IF e.remaining = 0 THEN "filled" ELSE "open",
             remaining |-> e.remaining, due |-> e.due]
       [] row # NoRow /\ row.status = "open" /\ e.topic \in {"cancelled", "expired"} ->
            [status |-> e.topic, remaining |-> 0, due |-> row.due]
       [] OTHER -> row

Apply(r) ==
  /\ pc[r] = "apply" /\ pos[r] < fetched[r]
  /\ pos' = [pos EXCEPT ![r] = pos[r] + 1]
  /\ rows' = [rows EXCEPT ![log[pos'[r]].key] = Applied(log[pos'[r]])]
  /\ UNCHANGED <<chain, pc, cursor, end, fetched, stop, saved, oldest, unread, torn, left, crashes>>

\* Mutant: the cursor is saved although only a part of the answer was applied.
SaveEarly(r) ==
  /\ pc[r] = "apply"
  /\ saved' = end[r]
  /\ Rest(r, "idle", end[r])
  /\ UNCHANGED <<chain, stop, rows, oldest, unread, torn, left, crashes>>

\* The cursor moves past the range, even if MAX_PAGES cut the answer short.
Save(r) ==
  /\ pc[r] = "apply" /\ pos[r] = fetched[r]
  /\ saved' = end[r]
  /\ unread' = unread \union {i \in DOMAIN log : i > fetched[r] /\ log[i].ledger < end[r]}
  /\ Rest(r, "idle", end[r])
  /\ UNCHANGED <<chain, stop, rows, oldest, torn, left, crashes>>

\* Mutant: a failed round never moves the cursor.
ReclampStuck ==
  /\ Rest("live", "idle", cursor["live"])
  /\ UNCHANGED <<saved, unread>>

\* After a failed round the same range is read again, unless the RPC is known
\* to have dropped its start.
Reclamp ==
  \/ /\ Rest("live", "idle", cursor["live"])
     /\ UNCHANGED <<saved, unread>>
  \/ /\ cursor["live"] < oldest
     /\ Rest("live", "idle", oldest)
     /\ saved' = oldest
     /\ unread' = unread \union Skipped(cursor["live"], oldest)

\* The RPC refuses the range.
Refused ==
  /\ pc["live"] = "idle" /\ cursor["live"] < ledger /\ cursor["live"] < oldest
  /\ Reclamp
  /\ UNCHANGED <<chain, stop, rows, oldest, torn, left, crashes>>

\* A statement failed amid the events of an answer.
IngestFails ==
  /\ pc["live"] = "apply" /\ crashes < MaxCrashes
  /\ Reclamp
  /\ crashes' = crashes + 1
  /\ UNCHANGED <<chain, stop, rows, oldest, torn, left>>

\* The live process is killed, or ends because getLatestLedger or SQLite failed.
Crash ==
  /\ pc["live"] # "down" /\ crashes < MaxCrashes
  /\ Rest("live", "down", 0)
  /\ crashes' = crashes + 1
  /\ UNCHANGED <<chain, stop, saved, rows, oldest, unread, torn, left>>

\* backfill is done, failed or was killed.
EndBackfill ==
  /\ pc["backfill"] # "down"
  /\ torn' = (torn \/ pc["backfill"] # "idle" \/ cursor["backfill"] < stop)
  /\ Rest("backfill", "down", 0)
  /\ stop' = 0
  /\ UNCHANGED <<chain, saved, rows, oldest, unread, left, crashes>>

\* The RPC drops the events of old ledgers.
Prune ==
  /\ oldest < ledger /\ oldest < MaxOldest
  /\ oldest' = oldest + 1
  /\ UNCHANGED <<chain, reader, saved, rows, unread, torn, left, crashes>>

\* The chain takes a step; a cursor that was set to a ledger to come is past what
\* is published before that ledger.
Publication ==
  /\ ChainNext
  /\ unread' = unread \union {i \in DOMAIN log' \ DOMAIN log : log'[i].ledger < saved}
  /\ UNCHANGED <<reader, saved, rows, oldest, torn, left, crashes>>

Next ==
  \/ Publication
  \/ StartLive \/ StartBackfill
  \/ \E r \in Readers : Fetch(r) \/ Apply(r) \/ Save(r)
  \/ Refused \/ IngestFails \/ Crash \/ EndBackfill \/ Prune

Spec == Init /\ [][Next]_vars

(***************************************************************************)
(* The live process is restarted when it ended (Restart=on-failure) and    *)
(* its loop takes its steps; a range that is asked for again and again is  *)
(* answered now and then; after a refusal the bounds are known in the end. *)
(***************************************************************************)
LiveSpec ==
  /\ Spec
  /\ WF_vars(StartLive) /\ SF_vars(Fetch("live"))
  /\ WF_vars(Apply("live")) /\ WF_vars(Save("live")) /\ WF_vars(Refused)

-----------------------------------------------------------------------------
(***************************************************************************)
(* Properties                                                              *)
(***************************************************************************)

TypeOK ==
  /\ \A r \in Readers :
       /\ pc[r] \in {"down", "idle", "apply"}
       /\ cursor[r] \in 0 .. ledger \union {StartLedger} /\ end[r] \in 0 .. ledger
       /\ pos[r] <= fetched[r] /\ fetched[r] \in 0 .. Len(log)
       /\ pc[r] = "apply" => cursor[r] < end[r]
  /\ rows \in [Keys -> Row \union {NoRow}]
  /\ unread \subseteq DOMAIN log
  /\ oldest \in 1 .. ledger

\* The row an order should have.
RowStatus ==
  [Absent |-> "none", Open |-> "open", Filled |-> "filled", Cancelled |-> "cancelled",
   Expired |-> "expired"]
Current(k) == [status |-> RowStatus[status[k]], remaining |-> remaining[k], due |-> due[k]]

(***************************************************************************)
(* A row that is not open tells the truth for good, whatever was read      *)
(* twice, skipped or read by two processes: the order ended on chain the   *)
(* way the row says, with what was left of it then.  The next execution of *)
(* a DCA row is not promised: a fill that arrives after the end is void.   *)
(***************************************************************************)
ClosedRowsAreFinal ==
  \A k \in Keys :
    rows[k] # NoRow /\ rows[k].status # "open" =>
      rows[k].status = RowStatus[status[k]] /\ rows[k].remaining = remaining[k]

Unmissed(k) == \A i \in unread : log[i].key # k

(***************************************************************************)
(* Once the live indexer has read every published event, each order none   *)
(* of whose events were skipped has exactly the row its state on chain     *)
(* calls for, even though ranges were applied twice, or by a backfill that *)
(* ran to its end while the live indexer was down.                         *)
(***************************************************************************)
CaughtUpRowsExact ==
  (/\ ~torn /\ pc["live"] = "idle" /\ pc["backfill"] = "down"
   /\ \A i \in DOMAIN log : log[i].ledger < cursor["live"]) =>
    \A k \in Keys : Unmissed(k) =>
      rows[k] = IF status[k] = "Absent" THEN NoRow ELSE Current(k)

(***************************************************************************)
(* An order that ended in a closed ledger is shown with that end sooner or  *)
(* later and for good, unless one of its events was skipped: a fill that   *)
(* the backfill read before and writes after it does not reopen the row.   *)
(***************************************************************************)
EndsAreShown ==
  \A k \in Keys :
    (/\ saved # 0 /\ Unmissed(k) /\ status[k] \in Terminal
     /\ \A i \in DOMAIN log : log[i].key = k => log[i].ledger < ledger)
    ~> []((rows[k] # NoRow /\ rows[k].status = RowStatus[status[k]]) \/ ~Unmissed(k))
=============================================================================

---------------------------- MODULE TradeIndexer ----------------------------
(***************************************************************************)
(* The trade tables of the analytics indexer (crates/analytics-indexer):   *)
(* swap_invocations has a row and swap_legs the executed steps of every    *)
(* transaction that called the aggregator.  The live indexer and backfill  *)
(* apply a range first from the contract's events, then from the envelopes *)
(* of its transactions; two repair commands read single transactions       *)
(* again.  Every SQL statement is a transaction of its own, so a process   *)
(* can end, and another one run, between any two of them.                  *)
(*                                                                         *)
(* The transactions are those of one range; how the loop moves from range  *)
(* to range is the subject of OrderIndexer.                                *)
(***************************************************************************)
EXTENDS Integers, FiniteSets, Sequences, Functions

CONSTANTS
  Trades,      \* sequence of transactions: whether it succeeded, its hops
  NoRow,       \* the row of a transaction the table does not hold
  Cut,         \* bound: whether getEvents may drop events of the range
  Overlap,     \* bound: whether processes run next to each other
  MaxRuns,     \* bound: runs of backfill and of the repair commands
  MaxCrashes   \* bound: ends of a process that is at work

TradeTxs == DOMAIN Trades
Hops(t) == Trades[t].hops
Ok(t) == Trades[t].ok
Procs == {"live", "backfill", "repair"}
Row == [status : {"SUCCESS", "FAILED"}, out : BOOLEAN, fee : BOOLEAN,
        reason : {"none", "trapped", "code"}]

ASSUME TradeAssumption ==
  /\ Trades \in Seq([ok : BOOLEAN, hops : Seq([at : Nat, amount : Nat \ {0}])])
  /\ NoRow \notin Row
  /\ Cut \in BOOLEAN /\ Overlap \in BOOLEAN /\ MaxRuns \in Nat /\ MaxCrashes \in Nat

VARIABLES
  rows, legs,  \* swap_invocations, swap_legs
  saved,       \* the cursor has passed the range
  pc,          \* down, or the next statement of each process
  todo,        \* records a process has still to apply
  mem,         \* legs a process has read and not matched yet
  runs,        \* bound
  crashes,     \* bound
  spoilt       \* history: transactions dropped by getEvents, rewritten by two
               \* processes at once, by one that ended amid it for good, or from
               \* the envelope when an end had left only some of the legs

tradevars == <<rows, legs, saved, pc, todo, mem, runs, crashes, spoilt>>

TradesInit ==
  /\ rows = [t \in TradeTxs |-> NoRow] /\ legs = [t \in TradeTxs |-> <<>>]
  /\ saved = FALSE
  /\ pc = [p \in Procs |-> "down"]
  /\ todo = [p \in Procs |-> <<>>] /\ mem = [p \in Procs |-> <<>>]
  /\ runs = 0 /\ crashes = 0 /\ spoilt = {}

(***************************************************************************)
(* What a record says of a transaction: build_invocations_from_events for  *)
(* its events, parse_envelope for its envelope, which knows the token a    *)
(* step leads to and none of the amounts that moved (0; the amount a route *)
(* should begin with is stored as not actual and left out).                *)
(***************************************************************************)
Parsed(t, src) ==
  [i \in DOMAIN Hops(t) |->
     [at |-> Hops(t)[i].at,
      amount |-> IF src = "events" THEN Hops(t)[i].amount ELSE 0,
      actual |-> src = "events", out |-> src # "events"]]

\* classify_failure_with_diagnostics, for all or only some of the diagnostics.
Reasons(t) == IF Ok(t) THEN {"none"} ELSE {"none", "trapped", "code"}

Chain(t) == IF Ok(t) THEN "SUCCESS" ELSE "FAILED"

\* The transactions of a set one after the other.
Nth(set, i) == CHOOSE t \in set : Cardinality({u \in set : u <= t}) = i

Records(src, set) == [i \in 1 .. Cardinality(set) |-> [tx |-> Nth(set, i), src |-> src]]

Current(p) == Head(todo[p])

-----------------------------------------------------------------------------
(***************************************************************************)
(* Processes                                                               *)
(***************************************************************************)
MayRun(p) == pc[p] = "down" /\ (Overlap \/ \A q \in Procs : pc[q] = "down")

\* ingest_range: the events of every successful transaction, then, unless
\* getTransactions failed, every envelope.
Ingest(p) ==
  /\ MayRun(p) /\ p \in {"live", "backfill"}
  /\ IF p = "live" THEN ~saved /\ runs' = runs ELSE runs < MaxRuns /\ runs' = runs + 1
  /\ \E seen \in SUBSET {t \in TradeTxs : Ok(t)}, envelopes \in {{}, TradeTxs} :
       /\ ~Cut => seen = {t \in TradeTxs : Ok(t)}
       /\ todo' = [todo EXCEPT ![p] = Records("events", seen) \o Records("envelope", envelopes)]
       /\ spoilt' = spoilt \union {t \in TradeTxs \ seen : Ok(t)}
  /\ pc' = [pc EXCEPT ![p] = "row"]
  /\ UNCHANGED <<rows, legs, saved, mem, crashes>>

\* list_tx_hashes_since and list_unclassified_failed_transactions.
Repair ==
  /\ MayRun("repair") /\ runs < MaxRuns
  /\ runs' = runs + 1
  /\ \E src \in {"legs", "reasons"} :
       todo' = [todo EXCEPT !["repair"] =
         Records(src, {t \in TradeTxs : /\ rows[t] # NoRow
                                        /\ src = "reasons" => /\ rows[t].status = "FAILED"
                                                              /\ rows[t].reason # "code"})]
  /\ pc' = [pc EXCEPT !["repair"] = "row"]
  /\ UNCHANGED <<rows, legs, saved, mem, crashes, spoilt>>

\* The range is done: the cursor is saved.  A repair just ends.
Done(p) ==
  /\ pc[p] = "row" /\ todo[p] = <<>>
  /\ saved' = (saved \/ p # "repair")
  /\ pc' = [pc EXCEPT ![p] = "down"]
  /\ UNCHANGED <<rows, legs, todo, mem, runs, crashes, spoilt>>

\* A process ends, or a statement fails.  The live indexer is restarted and
\* reads the range again; what the other two left is not made up for.
Crash(p) ==
  /\ pc[p] # "down" /\ crashes < MaxCrashes
  /\ crashes' = crashes + 1
  /\ pc' = [pc EXCEPT ![p] = "down"]
  /\ todo' = [todo EXCEPT ![p] = <<>>] /\ mem' = [mem EXCEPT ![p] = <<>>]
  /\ spoilt' = IF pc[p] \in {"summary", "legs"} /\ (p # "live" \/ saved \/ pc["backfill"] # "down")
                 THEN spoilt \union {Current(p).tx} ELSE spoilt
  /\ UNCHANGED <<rows, legs, saved, runs>>

-----------------------------------------------------------------------------
(***************************************************************************)
(* Statements                                                              *)
(***************************************************************************)
Moves(p, place) == pc' = [pc EXCEPT ![p] = place]
NextRecord(p) == todo' = [todo EXCEPT ![p] = Tail(todo[p])]

\* The second of two processes that rewrite the legs of t, or one that has only
\* the envelope to make up for legs that are not all there.
Spoils(p, t) ==
  \/ \E q \in Procs \ {p} : pc[q] \notin {"down", "row"} /\ Current(q).tx = t
  \/ Current(p).src # "events" /\ Len(legs[t]) # Len(Hops(t))

Merged(old, new) == IF old = "none" THEN new ELSE old

\* insert_invocation, INSERT OR IGNORE; if there was a row, the envelope's
\* reason and fee are merged into it and its legs will be replaced.
InsertRow(p) ==
  /\ pc[p] = "row" /\ todo[p] # <<>>
  /\ Current(p).src \in {"events", "envelope"}
  /\ LET t == Current(p).tx
         row == rows[t]
         envelope == Current(p).src = "envelope"
     IN /\ \E reason \in IF envelope THEN Reasons(t) ELSE {"none"} :
             rows' = [rows EXCEPT ![t] =
               IF row = NoRow THEN [status |-> Chain(t), out |-> ~envelope, fee |-> envelope,
                                    reason |-> reason]
               ELSE [row EXCEPT !.reason = Merged(row.reason, reason), !.fee = row.fee \/ envelope]]
        /\ Moves(p, IF row = NoRow THEN "legs" ELSE "read")
        /\ mem' = [mem EXCEPT ![p] = IF row = NoRow THEN Parsed(t, Current(p).src) ELSE <<>>]
  /\ UNCHANGED <<legs, saved, todo, runs, crashes, spoilt>>

\* Mutant: what a pruned RPC answers is taken for the status.
AnsweredTrusting(t) == {Chain(t), "NOT_FOUND"}

\* update_invocation_status ignores NOT_FOUND, the answer of a pruned RPC.
Answered(t) == {Chain(t)}

\* Mutant: a later, less specific reason replaces an earlier one.
RefinedAlways(old, new) == IF new = "none" THEN old ELSE new

\* refine_invocation_failure_reason.
Refined(old, new) == IF new # "none" /\ old # "code" THEN new ELSE old

\* The repair commands: the status and the reason, as far as the RPC knows
\* the transaction; then, for the legs, its envelope.
Reread(p) ==
  /\ pc[p] = "row" /\ todo[p] # <<>>
  /\ Current(p).src \in {"legs", "reasons"}
  /\ LET t == Current(p).tx
         row == rows[t]
         known == Current(p).src = "legs"
     IN /\ \E status \in Answered(t) \union {row.status}, reason \in Reasons(t) :
             rows' = [rows EXCEPT ![t] =
               IF known THEN [row EXCEPT !.status = status, !.reason = Merged(row.reason, reason)]
                        ELSE [row EXCEPT !.reason = Refined(row.reason, reason)]]
        /\ \/ known /\ Moves(p, "read") /\ UNCHANGED todo
           \/ Moves(p, "row") /\ NextRecord(p)
  /\ UNCHANGED <<legs, saved, mem, runs, crashes, spoilt>>

\* replace_invocation_legs: SELECT, DELETE, UPDATE, then an INSERT per leg.
ReadLegs(p) ==
  /\ pc[p] = "read"
  /\ mem' = [mem EXCEPT ![p] = legs[Current(p).tx]]
  /\ Moves(p, "delete")
  /\ spoilt' = IF Spoils(p, Current(p).tx) THEN spoilt \union {Current(p).tx} ELSE spoilt
  /\ UNCHANGED <<rows, legs, saved, todo, runs, crashes>>

\* Mutant: the stored legs are not looked at.
EnrichedNot(new, old) == new

\* How many steps with the same hop, venue and pool come before a step.
Rank(steps, i) == Cardinality({j \in 1 .. i - 1 : steps[j].at = steps[i].at})

\* The legs that replace the stored ones.  Those of the record take over the
\* amounts of the stored leg, each of them once, with the same hop, venue and pool.
Enriched(new, old) ==
  [i \in DOMAIN new |->
     LET same == {j \in DOMAIN old : old[j].at = new[i].at /\ Rank(old, j) = Rank(new, i)}
         stored == old[CHOOSE j \in same : TRUE]
     IN IF same = {} THEN new[i]
        ELSE [new[i] EXCEPT !.amount = IF stored.amount # 0 THEN stored.amount ELSE @,
                            !.actual = stored.actual]]

Delete(p) ==
  /\ pc[p] = "delete"
  /\ legs' = [legs EXCEPT ![Current(p).tx] = <<>>]
  /\ mem' = [mem EXCEPT ![p] = Enriched(Parsed(Current(p).tx, Current(p).src), mem[p])]
  /\ Moves(p, "summary")
  /\ UNCHANGED <<rows, saved, todo, runs, crashes, spoilt>>

\* COALESCE(amount_out, ..): the events know the output, an envelope only
\* together with the result.
Summary(p) ==
  /\ pc[p] = "summary"
  /\ LET t == Current(p).tx
         row == rows[t]
     IN \E out \in CASE Current(p).src = "events" -> {TRUE}
                     [] Current(p).src = "envelope" -> {FALSE}
                     [] OTHER -> {FALSE, Ok(t)} :
          rows' = [rows EXCEPT ![t] = [row EXCEPT !.out = row.out \/ out,
                                                  !.fee = row.fee \/ Current(p).src = "legs"]]
  /\ Moves(p, "legs")
  /\ UNCHANGED <<legs, saved, todo, mem, runs, crashes, spoilt>>

InsertLeg(p) ==
  /\ pc[p] = "legs"
  /\ IF mem[p] # <<>>
       THEN /\ legs' = [legs EXCEPT ![Current(p).tx] = Append(@, Head(mem[p]))]
            /\ mem' = [mem EXCEPT ![p] = Tail(mem[p])]
            /\ UNCHANGED <<pc, todo>>
       ELSE Moves(p, "row") /\ NextRecord(p) /\ UNCHANGED <<legs, mem>>
  /\ UNCHANGED <<rows, saved, runs, crashes, spoilt>>

Work(p) == InsertRow(p) \/ Reread(p) \/ ReadLegs(p) \/ Delete(p) \/ Summary(p)
             \/ InsertLeg(p) \/ Done(p)

TradesNext ==
  \/ \E p \in Procs : Ingest(p) \/ Work(p) \/ Crash(p)
  \/ Repair

TradesSpec == TradesInit /\ [][TradesNext]_tradevars

-----------------------------------------------------------------------------
(***************************************************************************)
(* Properties                                                              *)
(***************************************************************************)

\* The steps of a transaction as the chain carried them out.
Told(t) == [i \in DOMAIN Hops(t) |-> [at |-> Hops(t)[i].at, amount |-> Hops(t)[i].amount]]
Stored(t) == [i \in DOMAIN legs[t] |-> [at |-> legs[t][i].at, amount |-> legs[t][i].amount]]

\* Some steps of some transactions, and what a sum of amounts over them is.
Places(set, Of(_)) == UNION {{<<t, i>> : i \in Of(t)} : t \in set}
Volume(amounts) == FoldFunction(+, 0, amounts)

\* export_range: successful transactions, and the legs of theirs that count
\* towards the routed volume, with the volume.
Exported ==
  LET done == {t \in TradeTxs : rows[t] # NoRow /\ rows[t].status = "SUCCESS"}
      real == Places(done, LAMBDA t : {i \in DOMAIN legs[t] : legs[t][i].actual /\ legs[t][i].amount # 0})
  IN [swaps |-> Cardinality(done), legs |-> Cardinality(real),
      volume |-> Volume([c \in real |-> legs[c[1]][c[2]].amount])]

Working == \E p \in Procs : pc[p] # "down"

\* The same of the chain.
Routed ==
  LET done == {t \in TradeTxs : Ok(t)}
      steps == Places(done, LAMBDA t : DOMAIN Hops(t))
  IN [swaps |-> Cardinality(done), legs |-> Cardinality(steps),
      volume |-> Volume([c \in steps |-> Hops(c[1])[c[2]].amount])]

(***************************************************************************)
(* Once the range is done the tables show every successful transaction     *)
(* with its output and exactly the steps it took, and the day's export     *)
(* counts each of them once - although records are applied by statements   *)
(* of their own, twice, in parts and by several processes; except for what *)
(* the RPC dropped and for legs that two processes rewrote at once, or an  *)
(* end left incomplete before another process turned to them               *)
(* (ingest_range, store.rs).                                               *)
(***************************************************************************)
TradesExact ==
  saved /\ ~Working =>
    /\ \A t \in TradeTxs \ spoilt : Ok(t) => rows[t] # NoRow /\ rows[t].out /\ Stored(t) = Told(t)
    /\ spoilt = {} => Exported = Routed

(***************************************************************************)
(* Whatever is read again, by whichever process and from whichever record: *)
(* a row keeps its status, its output and its fee, and the reason of a     *)
(* failure only gets more exact (COALESCE and the conditions of the        *)
(* statements in store.rs).                                                *)
(***************************************************************************)
Exactness == [none |-> 0, trapped |-> 1, code |-> 2]
NothingKnownIsForgotten ==
  [][\A t \in TradeTxs : rows[t] # NoRow =>
       /\ rows'[t] # NoRow
       /\ rows'[t].status = rows[t].status
       /\ (rows[t].out => rows'[t].out) /\ (rows[t].fee => rows'[t].fee)
       /\ Exactness[rows'[t].reason] >= Exactness[rows[t].reason]]_tradevars
=============================================================================

--------------------------- MODULE ArbOpportunity ---------------------------
(***************************************************************************)
(* How the arbitrage bot (crates/arbitrage) turns a base and a bridge      *)
(* token into an operation worth submitting: the scan with its probe and   *)
(* its search for a size, the quotes of the selected opportunity, and the  *)
(* simulation with its fallback.  The market, the mark of XLM, the vault   *)
(* and what the API answers change meanwhile.                              *)
(*                                                                         *)
(* One opportunity is followed at a time; what several of them share when  *)
(* they are executed is in ArbExecutor.  A leg's pools are constant        *)
(* products without a fee; a route of a leg is one pool.  The age of a     *)
(* pool state is how often the market moved since.                         *)
(***************************************************************************)
EXTENDS Integers, Sequences, SequencesExt

CONSTANTS
  Pools,
  Markets,     \* bound: the reserves <<base, bridge>> of the pools, over time
  Routings,    \* bound: the pools a quote may be split over
  Samples,     \* bound: the sizes between the smallest and the largest
  MinAmount, MaxAmount, ProbeAmount, MinProfit, MaxAge,    \* ArbConfig
  Fees,        \* bound: resource fees a simulation may ask for
  Unit, MinPrice, MaxPrice,
  Fallback,    \* the mark of XLM before one is read
  Marks,       \* bound: marks of XLM a refresh may bring
  Balances,    \* bound: what the vault may hold
  Configs,     \* bound: base token, optimize_amount, on_chain_validate, vault
  None,
  MaxMoves, MaxFailures    \* bounds

Amounts == {MinAmount, MaxAmount, ProbeAmount} \union Samples

ASSUME OpportunityAssumption ==
  /\ Amounts \union Fees \union Balances \subseteq Nat /\ 0 \notin Amounts
  /\ MinAmount <= MaxAmount
  /\ Markets \in Seq([Pools -> (Nat \ {0}) \X (Nat \ {0})]) \ {<<>>}
  /\ Routings \subseteq Seq(Pools) \ {<<>>}
  /\ Marks \subseteq Nat /\ {Fallback, Unit, MinPrice, MaxPrice} \subseteq Nat \ {0}
  /\ {MinProfit, MaxAge, MaxMoves, MaxFailures} \subseteq Nat
  /\ None \notin Nat

VARIABLES
  setup,    \* of the process
  market,    \* the present entry of Markets
  price,     \* XlmUsdcPrice
  balance,   \* what the vault holds
  cached,      \* VaultBalanceCache
  held,      \* history: what the vault held since it was last asked
  stage,
  trip,      \* the round trip being quoted
  ceiling,   \* resolve_max_amount_in, when it was last asked
  probe, best, todo,    \* evaluate_bridge_pair and optimize_round_trip
  quote,     \* the opportunity
  tried,     \* tried_probe_fallback
  sent,      \* the operation handed to submit
  moves, failures

outside == <<market, price, balance, moves>>
scan == <<ceiling, probe, best, todo>>
svars == <<setup, outside, cached, held, stage, trip, scan, quote, tried, sent, failures>>

Less(a, b) == IF a > b THEN a - b ELSE 0
Least(a, b) == IF a < b THEN a ELSE b
Profit(q) == Less(q.back.out, q.amount)

-----------------------------------------------------------------------------
(***************************************************************************)
(* What pools pay, what the quote API answers and what the client takes    *)
(***************************************************************************)

Paid(res, p, dir, a) ==
  IF dir = "there" THEN (a * res[p][2]) \div (res[p][1] + a)
  ELSE (a * res[p][1]) \div (res[p][2] + a)

After(res, p, dir, a) ==
  LET out == Paid(res, p, dir, a)
  IN [res EXCEPT ![p] = IF dir = "there" THEN <<res[p][1] + a, res[p][2] - out>>
                        ELSE <<res[p][1] - out, res[p][2] + a>>]

Sum(subs, f) == SumFunction([k \in DOMAIN subs |-> subs[k][f]])

\* A split gives every pool the same, the last one the rest; i is the state of
\* the pools it pays by, age that of the states the route was found in.
LegQuote(dir, a, pools, i, age) ==
  LET n == Len(pools)
      part(k) == IF k < n THEN a \div n ELSE a - (n - 1) * (a \div n)
      subs == [k \in 1 .. n |-> [pool |-> pools[k], in |-> part(k),
                                 out |-> Paid(Markets[i], pools[k], dir, part(k))]]
  IN [subs |-> subs, in |-> a, out |-> Sum(subs, "out"), state |-> i,
      age |-> age]

\* leg_quote_from_api and quote_leg_with_validation: the parts must add up to
\* what was asked for and to what is promised.
Sound(leg, a) ==
  /\ leg.subs # <<>>
  /\ leg.in = a
  /\ Sum(leg.subs, "in") = leg.in /\ Sum(leg.subs, "out") = leg.out

\* Answers of the API, whose pools may be one move behind; validated on chain,
\* a route found in old states pays by the present one.  It answers no part
\* that pays nothing, and may fail or fold away a part without telling the
\* totals.
Answers(dir, onChain, a) ==
  LET legs == {LegQuote(dir, a, pools, IF onChain THEN market ELSE market - behind, behind) :
                 pools \in Routings, behind \in 0 .. Least(1, market - 1)}
      told == {leg \in legs : \A k \in DOMAIN leg.subs : leg.subs[k].out > 0}
  IN told \union IF told # {} /\ failures = MaxFailures THEN {}
                 ELSE {None} \union {[leg EXCEPT !.subs = Front(@)] : leg \in told}

NoTrip == [for |-> "probe", amount |-> 0, onChain |-> FALSE, there |-> None, backs |-> <<>>]

\* Begin to quote a round trip.
Asks(for, a, onChain) ==
  /\ trip' = [NoTrip EXCEPT !.for = for, !.amount = a, !.onChain = onChain]
  /\ stage' = "quoting"

\* Mutant: the bridge output is quoted back in equal parts.
BackInputsEqual(leg) ==
  [k \in DOMAIN leg.subs |-> leg.out \div Len(leg.subs)]

\* The inputs leg_back is quoted with: one for every part of leg_out.
BackInputs(leg) ==
  IF Len(leg.subs) <= 1 THEN <<leg.out>> ELSE [k \in DOMAIN leg.subs |-> leg.subs[k].out]

\* RoundTripQuote: several partial quotes become one leg_back, which has the
\* ages of leg_out.
QuotedTrip(t, backs) ==
  LET back == IF Len(backs) = 1 THEN backs[1]
              ELSE [subs |-> FlattenSeq([k \in DOMAIN backs |-> backs[k].subs]),
                    in |-> t.there.out, out |-> Sum(backs, "out"),
                    state |-> t.there.state, age |-> t.there.age]
  IN [amount |-> t.amount, there |-> t.there, back |-> back,
      told |-> {[state |-> leg.state, age |-> leg.age] : leg \in {t.there} \union Range(backs)}]

\* quote_snapshot_age_ms, pool_state_age_ms: the older of the two legs.
Age(q) == IF q.there.age > q.back.age THEN q.there.age ELSE q.back.age

-----------------------------------------------------------------------------
(***************************************************************************)
(* The operation and what the contract makes of it                         *)
(***************************************************************************)

\* normalize_sub_order_amounts: parts in proportion, none empty, the rest to
\* the last.
Normalized(ins, target) ==
  LET current == SumFunction(ins)
      n == Len(ins)
      scaled(k) == LET x == (ins[k] * target) \div current IN IF x = 0 THEN 1 ELSE x
      firsts == SumFunction([k \in 1 .. n - 1 |-> scaled(k)])
  IN IF current \in {0, target} THEN IF n = 1 THEN <<target>> ELSE ins
     ELSE [k \in 1 .. n |-> IF k < n THEN scaled(k) ELSE Less(target, firsts)]

Parts(subs) == [k \in DOMAIN subs |-> subs[k].in]
Zipped(subs, ins) == [k \in DOMAIN subs |-> [pool |-> subs[k].pool, in |-> ins[k]]]

\* prepare_round_trip_routes: the inputs of leg_back are weights.
Weighted(q) ==
  LET aligned == Len(q.there.subs) = Len(q.back.subs) /\ Len(q.there.subs) > 1
      weight(k) == LET w == IF aligned /\ q.there.subs[k].out > 0 THEN q.there.subs[k].out
                            ELSE q.back.subs[k].in
                   IN IF w = 0 THEN 1 ELSE w
  IN Zipped(q.back.subs, [k \in DOMAIN q.back.subs |-> weight(k)])

\* round_trip_swap or execute_round_trip, with the break-even minimum.
Operation(q) ==
  [amount |-> q.amount, min |-> q.amount + 1,
   there |-> Zipped(q.there.subs, Normalized(Parts(q.there.subs), q.amount)),
   back |-> Weighted(q)]

\* One route of a leg; it fails if it is given or pays nothing.
Through(s, dir, sub) ==
  LET out == Paid(s.res, sub.pool, dir, sub.in)
  IN IF s.ok /\ sub.in > 0 /\ out > 0
     THEN [res |-> After(s.res, sub.pool, dir, sub.in), got |-> s.got + out, ok |-> TRUE]
     ELSE [s EXCEPT !.ok = FALSE]

\* The routes of a leg, one after the other; those behind one that fails are not
\* reached.
Swapped(start, dir, subs) ==
  LET after[k \in 0 .. Len(subs)] ==
        IF k = 0 THEN [start EXCEPT !.got = 0] ELSE Through(after[k - 1], dir, subs[k])
  IN after[Len(subs)]

\* scale_sub_routes_to_total, of the aggregator.
Rescaled(subs, total) ==
  LET sum == Sum(subs, "in")
      n == Len(subs)
      part(k) == (subs[k].in * total) \div sum
      firsts == SumFunction([k \in 1 .. n - 1 |-> part(k)])
  IN [k \in 1 .. n |-> [subs[k] EXCEPT !.in = IF k < n THEN part(k) ELSE total - firsts]]

\* round_trip_swap of the present market.
Executed(op) ==
  LET there == Swapped([res |-> Markets[market], got |-> 0, ok |-> Sum(op.there, "in") = op.amount],
                       "there", op.there)
  IN IF there.ok THEN Swapped(there, "back", Rescaled(op.back, there.got)) ELSE [there EXCEPT !.got = 0]

Returned(op) == IF Executed(op).ok THEN Executed(op).got ELSE 0

\* parse_base_received_from_sim_error: the transfers of the base token into the
\* aggregator, those before a route that fails included.
Recovered(op) == Executed(op).got

\* fee_in_base_units: rounded up for a USDC base, as it is for the others.
FeeInBase(fee) ==
  IF setup.base = "usdc" /\ price > 0 THEN (fee * price + Unit - 1) \div Unit ELSE fee

-----------------------------------------------------------------------------
ScanInit ==
  /\ setup \in Configs
  /\ market = 1 /\ price = Fallback /\ balance \in Balances
  /\ cached = None /\ held = {}
  /\ stage = "idle" /\ trip = NoTrip
  /\ ceiling = 0 /\ probe = None /\ best = None /\ todo = {}
  /\ quote = None /\ tried = FALSE /\ sent = None
  /\ moves = 0 /\ failures = 0

Fails == failures < MaxFailures /\ failures' = failures + 1

\* resolve_max_amount_in: the configured maximum, or what the vault holds if
\* that is less; a failed reading skips the base.
Ceiling ==
  \/ /\ ~setup.vault
     /\ ceiling' = MaxAmount /\ UNCHANGED <<cached, held, failures>>
  \/ /\ setup.vault /\ cached # None
     /\ ceiling' = Least(MaxAmount, cached) /\ UNCHANGED <<cached, held, failures>>
  \/ /\ setup.vault /\ cached = None
     /\ cached' = balance /\ held' = {balance}
     /\ ceiling' = Least(MaxAmount, balance) /\ UNCHANGED failures
  \/ /\ setup.vault /\ cached = None
     /\ Fails /\ ceiling' = 0 /\ UNCHANGED <<cached, held>>

\* The candidate is given up.
GiveUp == stage' = "idle" /\ trip' = NoTrip

\* evaluate_bridge_pair begins with a probe.
Evaluate ==
  /\ stage = "idle" /\ sent = None
  /\ Ceiling
  /\ IF ceiling' < MinAmount THEN GiveUp ELSE Asks("probe", ProbeAmount, setup.validate)
  /\ probe' = None /\ best' = None /\ todo' = {} /\ quote' = None /\ tried' = FALSE
  /\ UNCHANGED <<setup, outside, sent>>

\* One leg of the round trip is quoted, the parts of leg_back one by one.
QuoteLeg ==
  /\ stage = "quoting"
  /\ LET dir == IF trip.there = None THEN "there" ELSE "back"
         a == IF dir = "there" THEN trip.amount
              ELSE BackInputs(trip.there)[Len(trip.backs) + 1]
     IN \E leg \in Answers(dir, trip.onChain, a) :
          LET ok == leg # None /\ Sound(leg, a)
              backs == IF ok /\ dir = "back" THEN Append(trip.backs, leg) ELSE trip.backs
          IN /\ failures' = IF failures < MaxFailures /\ (leg = None \/ Sum(leg.subs, "out") # leg.out)
                            THEN failures + 1 ELSE failures
             /\ trip' = [trip EXCEPT !.there = IF dir = "there" /\ ok THEN leg ELSE @, !.backs = backs]
             /\ stage' = IF ~ok THEN "unquoted"
                      ELSE IF dir = "back" /\ Len(backs) = Len(BackInputs(trip.there)) THEN "quoted"
                      ELSE "quoting"
  /\ UNCHANGED <<setup, outside, cached, held, scan, quote, tried, sent>>

Answer == IF stage = "quoted" THEN QuotedTrip(trip, trip.backs) ELSE None
Concludes(for) == stage \in {"quoted", "unquoted"} /\ trip.for = for

\* The sizes to try, from the smallest to the ceiling.
Sizes == {MinAmount, ceiling} \union {a \in Samples : a > MinAmount /\ a < ceiling}
LeastSize(sizes) == CHOOSE a \in sizes : \A b \in sizes : a <= b

TryLeast(sizes) ==
  todo' = sizes \ {LeastSize(sizes)} /\ Asks("size", LeastSize(sizes), setup.validate)

\* The end of evaluate_bridge_pair.
Judge(q) ==
  IF Profit(q) < MinProfit THEN GiveUp /\ UNCHANGED quote
  ELSE stage' = "selected" /\ trip' = NoTrip /\ quote' = q

\* A pair whose probe cannot be quoted is passed over.
Probed ==
  /\ Concludes("probe")
  /\ IF Answer = None THEN GiveUp /\ UNCHANGED <<probe, todo, quote>>
     ELSE IF setup.optimize
     THEN probe' = Answer /\ TryLeast(Sizes) /\ UNCHANGED quote
     ELSE Judge(Answer) /\ UNCHANGED <<probe, todo>>
  /\ UNCHANGED <<setup, outside, cached, held, ceiling, best, tried, sent, failures>>

\* optimize_round_trip: sizes that cannot be quoted are passed over; when none
\* can, the probe is what is left.
Sized ==
  /\ Concludes("size")
  /\ LET better == IF Answer = None THEN best
                   ELSE IF best = None THEN Answer
                   ELSE IF Profit(Answer) > Profit(best) THEN Answer ELSE best
     IN /\ IF todo = {}
           THEN best' = None /\ Judge(IF better = None THEN probe ELSE better) /\ UNCHANGED todo
           ELSE best' = better /\ TryLeast(todo) /\ UNCHANGED quote
        /\ probe' = IF todo = {} \/ better # None THEN None ELSE probe
  /\ UNCHANGED <<setup, outside, cached, held, ceiling, tried, sent, failures>>

\* quote_for_execute and the quotes of select_execution_quote.
Select ==
  /\ stage = "selected"
  /\ Ceiling
  /\ IF quote.amount < MinAmount \/ quote.amount > ceiling' THEN GiveUp
     ELSE IF setup.optimize THEN Asks("again", quote.amount, setup.validate)
     ELSE IF ~setup.validate THEN Asks("validate", quote.amount, TRUE)
     ELSE stage' = "fresh" /\ UNCHANGED trip
  /\ UNCHANGED <<setup, outside, probe, best, todo, quote, tried, sent>>

Requoted ==
  /\ Concludes("again") \/ Concludes("validate")
  /\ IF Answer = None THEN GiveUp /\ UNCHANGED quote
     ELSE IF Profit(Answer) < MinProfit THEN GiveUp /\ UNCHANGED quote
     ELSE /\ quote' = Answer
          /\ IF trip.for = "again" /\ ~setup.validate THEN Asks("validate", quote.amount, TRUE)
             ELSE stage' = "fresh" /\ trip' = NoTrip
  /\ UNCHANGED <<setup, outside, cached, held, scan, tried, sent, failures>>

CheckAge ==
  /\ stage = "fresh"
  /\ IF Age(quote) <= MaxAge THEN stage' = "kept" ELSE stage' = "idle"
  /\ UNCHANGED <<setup, outside, cached, held, trip, scan, quote, tried, sent, failures>>

\* A free caller's sequence number and, for the vault's allowance, the latest
\* ledger; there may be none.
ReadNetwork ==
  /\ stage = "kept"
  /\ \/ stage' = "simulate" /\ UNCHANGED failures
     \/ Fails /\ stage' = "idle"
  /\ UNCHANGED <<setup, outside, cached, held, trip, scan, quote, tried, sent>>

\* The gate behind the simulation: what is left after fees.
Worth(fee, out) == Less(Less(out, quote.amount), FeeInBase(fee)) >= MinProfit

\* A simulation that returns: gate the operation and hand it to submit.
Simulated ==
  /\ stage = "simulate"
  /\ Returned(Operation(quote)) >= Operation(quote).min
  /\ \E fee \in Fees :
       LET out == Returned(Operation(quote))
       IN IF Worth(fee, out)
          THEN /\ sent' = [op |-> Operation(quote), returned |-> out,
                           cost |-> FeeInBase(fee), known |-> held]
               /\ stage' = "idle"
          ELSE stage' = "idle" /\ UNCHANGED sent
  /\ UNCHANGED <<setup, outside, cached, held, trip, scan, quote, tried, failures>>

\* A simulation that fails although base tokens came back: once, the smallest
\* size is quoted instead.
TooSmall ==
  /\ stage = "simulate"
  /\ Returned(Operation(quote)) < Operation(quote).min /\ Recovered(Operation(quote)) > 0
  /\ IF ~tried /\ quote.amount > MinAmount
     THEN tried' = TRUE /\ Asks("fallback", MinAmount, setup.validate)
     ELSE stage' = "idle" /\ UNCHANGED <<tried, trip>>
  /\ UNCHANGED <<setup, outside, cached, held, scan, quote, sent, failures>>

FellBack ==
  /\ Concludes("fallback")
  /\ IF Answer = None THEN GiveUp /\ UNCHANGED quote
     ELSE IF Profit(Answer) < MinProfit THEN GiveUp /\ UNCHANGED quote
     ELSE quote' = Answer /\ stage' = "simulate" /\ trip' = NoTrip
  /\ UNCHANGED <<setup, outside, cached, held, scan, tried, sent, failures>>

\* The path itself fails, or there is no simulation: nothing is submitted.
Unsimulated ==
  /\ stage = "simulate"
  /\ \/ Recovered(Operation(quote)) = 0 /\ UNCHANGED failures
     \/ Fails
  /\ stage' = "idle"
  /\ UNCHANGED <<setup, outside, cached, held, trip, scan, quote, tried, sent>>

-----------------------------------------------------------------------------
(* Around it *)

Moves == moves < MaxMoves /\ moves' = moves + 1

MarketMoves ==
  /\ market < Len(Markets) /\ market' = market + 1
  /\ UNCHANGED <<setup, price, balance, moves, cached, held, stage, trip, scan, quote, tried, sent, failures>>

\* XlmUsdcPrice::refresh: marks outside of the band are refused.
Refresh ==
  /\ Moves
  /\ \E mark \in Marks : price' = IF mark \in MinPrice .. MaxPrice THEN mark ELSE price
  /\ UNCHANGED <<setup, market, balance, cached, held, stage, trip, scan, quote, tried, sent, failures>>

VaultMoves ==
  /\ Moves
  /\ balance' \in Balances
  /\ held' = held \union {balance'}
  /\ UNCHANGED <<setup, market, price, cached, stage, trip, scan, quote, tried, sent, failures>>

\* VAULT_BALANCE_CACHE_TTL.
Expire ==
  /\ cached # None /\ cached' = None
  /\ UNCHANGED <<setup, outside, held, stage, trip, scan, quote, tried, sent, failures>>

ScanNext ==
  \/ Evaluate \/ QuoteLeg \/ Probed \/ Sized \/ Select \/ Requoted \/ CheckAge \/ ReadNetwork
  \/ Simulated \/ TooSmall \/ FellBack \/ Unsimulated
  \/ MarketMoves \/ Refresh \/ VaultMoves \/ Expire

ScanSpec == ScanInit /\ [][ScanNext]_svars

-----------------------------------------------------------------------------
(* What an operation is worth *)

(***************************************************************************)
(* Type invariant of a pass of the bot over a base and a bridge.           *)
(***************************************************************************)
ScanTypeOK ==
  /\ stage \in {"idle", "quoting", "quoted", "unquoted", "selected", "fresh", "kept", "simulate"}
  /\ trip.for \in {"probe", "size", "again", "validate", "fallback"}
  /\ cached \in Balances \union {None}
  /\ ceiling \in 0 .. MaxAmount
  /\ stage \in {"selected", "fresh", "kept", "simulate"} => quote # None

(***************************************************************************)
(* What is handed to submit returned, in the very state of the pools it    *)
(* was simulated against, its input, its fees at the mark of XLM and the   *)
(* configured profit, whatever moved, failed or was quoted again since the *)
(* probe; and its input is one that the configuration and some balance the *)
(* vault had since it was last asked for allow (execute.rs, vault.rs).     *)
(***************************************************************************)
SubmissionsPay ==
  sent # None =>
    /\ sent.returned >= sent.op.amount + sent.cost + MinProfit
    /\ sent.op.amount \in MinAmount .. MaxAmount
    /\ setup.vault => \E b \in sent.known : sent.op.amount <= b

\* Every pool takes part once.
Apart(q) ==
  LET subs == q.there.subs \o q.back.subs
  IN \A i, j \in DOMAIN subs : i # j => subs[i].pool # subs[j].pool

(***************************************************************************)
(* A round trip all of whose partial quotes tell the present state of      *)
(* pools that take part once returns what was quoted to the unit: the      *)
(* parts of the bridge output, quoted back one by one, the weights the     *)
(* operation carries and the rescaling of the contract lose nothing        *)
(* (bridge.rs, invoke.rs).                                                 *)
(***************************************************************************)
QuoteIsWhatSettles ==
  stage = "simulate" /\ (\A leg \in quote.told : leg.state = market) /\ Apart(quote) =>
    Returned(Operation(quote)) = quote.back.out

\* The numbers a round trip is judged by are the ones it is settled by.
TripsAreJudgedTrue == SubmissionsPay /\ QuoteIsWhatSettles

(***************************************************************************)
(* "Maximum pool-state age accepted before execution"                      *)
(* (docs/arbitrage-configuration.md:84): no partial quote of what is       *)
(* simulated was older.  Refuted: the parts of leg_back hide behind the    *)
(* age of leg_out.                                                         *)
(***************************************************************************)
FreshBeforeExecution ==
  stage = "simulate" => \A leg \in quote.told : leg.age <= MaxAge
=============================================================================

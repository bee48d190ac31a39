------------------------------ MODULE ArbStats ------------------------------
(***************************************************************************)
(* What the counters of the arbitrage bot (crates/arbitrage, stats.rs)     *)
(* have in common, in ArbFunnel and in ProfitBook: its base tokens, and    *)
(* how the diagnostics of failed simulations and failed transactions are   *)
(* sorted into reasons.  A text is the words it contains and, when it      *)
(* names the aggregator, the error number of that contract (else 0).       *)
(***************************************************************************)
EXTENDS Integers, FiniteSetsExt

CONSTANTS
  Bases,        \* base_tokens
  NoText,       \* nothing failed
  Texts,        \* bound: the diagnostics of failures
  MaxRestarts   \* bound: restarts of the bot

VenueWords == {"aquarius", "phoenix", "soroswap", "sushi", "comet"}
Words == VenueWords \union {"trustline", "contract_13", "contract_337", "unreachable",
                        "invalid_action", "footprint", "minimum_out"}
AllTexts == [words : SUBSET Words, aggregator : 0 .. 11]

ASSUME StatsAssumption ==
  /\ Texts \subseteq AllTexts /\ NoText \notin AllTexts
  /\ MaxRestarts \in Nat

AggregatorErrors ==
  <<"invalid_amount", "invalid_minimum_out", "empty_routes", "invalid_route",
    "disconnected_route", "invalid_step", "zero_step_output", "output_below_minimum",
    "venue_not_registered", "arithmetic_overflow", "not_initialized">>

\* unreachable_reason: the venue, when the text names exactly one.
UnreachableReason(t) ==
  LET named == t.words \intersect VenueWords IN
  IF named = {} THEN "unreachable_code"
  ELSE IF Cardinality(named) = 1 THEN CHOOSE v \in named : TRUE
  ELSE "unreachable_code_mixed_venues"

\* The reason of the first line of a table whose words all occur; an error
\* number of the aggregator itself comes before them (aggregator_error_reason).
Classified(t, table) ==
  LET hit == table[Min({i \in DOMAIN table : table[i][1] \subseteq t.words})][2] IN
  IF t.aggregator # 0 THEN AggregatorErrors[t.aggregator]
  ELSE IF hit = "unreachable" THEN UnreachableReason(t)
  ELSE hit

SimReason(t) ==
  Classified(t, <<<<{"trustline"}, "trustline_missing">>,
                  <<{"contract_13"}, "contract_13">>,
                  <<{"contract_337", "phoenix"}, "phoenix_contract_337">>,
                  <<{"contract_337"}, "contract_337">>,
                  <<{"unreachable"}, "unreachable">>,
                  <<{"footprint"}, "footprint">>,
                  <<{}, "other">>>>)

ChainReason(t) ==
  Classified(t, <<<<{"unreachable"}, "unreachable">>,
                  <<{"contract_337", "phoenix"}, "phoenix_contract_337">>,
                  <<{"trustline"}, "trustline_missing">>,
                  <<{"invalid_action"}, "invalid_action">>,
                  <<{"footprint"}, "footprint">>,
                  <<{"minimum_out"}, "minimum_out">>,
                  <<{}, "other">>>>)

Reasons == {AggregatorErrors[i] : i \in 1 .. 11} \union VenueWords
           \union {"unreachable_code", "unreachable_code_mixed_venues",
                   "trustline_missing", "contract_13", "phoenix_contract_337",
                   "contract_337", "invalid_action", "footprint", "minimum_out", "other"}

NoReasons == [r \in Reasons |-> 0]
=============================================================================

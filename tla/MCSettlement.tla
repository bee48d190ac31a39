--------------------------- MODULE MCSettlement ---------------------------
(***************************************************************************)
(* Settlement with three tokens and a pool of every way to be paid: a pair *)
(* whose output the aggregator computes, one whose word it takes and one   *)
(* whose output it measures; the arbitrage bot with two states of three    *)
(* pools; its diagnostics with three dimensions of two days; its funnel    *)
(* with two scans; its profit book with two submissions.  The five share   *)
(* no state: a behaviour is one of any of them.                            *)
(***************************************************************************)
EXTENDS Settlement, ArbOpportunity, SimulationBook, ArbFunnel, ProfitBook, TLC

CONSTANTS XLM, USD, EUR, pair, comet, sushi, ann, bot, pa, pb, pc, pd

FourPools == {pa, pb, pc, pd}

VARIABLE part

KindOf == pair :> "soroswap" @@ comet :> "comet" @@ sushi :> "sushi"

Step(v, t, u) == [venue |-> v, in |-> t, out |-> u]
Route(upto, steps) == [upto |-> upto, steps |-> steps]

Direct == <<Route(2, <<Step(comet, XLM, USD)>>)>>
TwoHops == <<Route(2, <<Step(sushi, XLM, EUR), Step(comet, EUR, USD)>>)>>
SplitThere == <<Route(1, <<Step(sushi, XLM, EUR), Step(sushi, EUR, USD)>>),
                Route(3, <<Step(comet, XLM, USD)>>)>>
PairBack == <<Route(1, <<Step(pair, USD, XLM)>>)>>
SplitBack == <<Route(2, <<Step(sushi, USD, XLM)>>), Route(5, <<Step(comet, USD, XLM)>>)>>
ThreeBack == <<Route(1, <<Step(sushi, USD, XLM)>>), Route(2, <<Step(comet, USD, XLM)>>),
               Route(3, <<Step(pair, USD, XLM)>>)>>
Broken == <<Route(1, <<Step(sushi, XLM, EUR), Step(comet, XLM, USD)>>)>>

SomeLegs == {Direct, TwoHops, SplitThere, PairBack, SplitBack, ThreeBack, Broken}

Endowed == [h \in Holdings |->
  CASE h = <<Vault, XLM>> -> 3 [] h = <<ann, XLM>> -> 3 [] h = <<bot, XLM>> -> 1
    [] h[1] \in Venues -> 4 [] h[1] = Agg -> 1 [] OTHER -> 0]

Reserves(ra, rb, rc, rd) == pa :> ra @@ pb :> rb @@ pc :> rc @@ pd :> rd
TwoMarkets == <<Reserves(<<20, 80>>, <<40, 40>>, <<30, 60>>, <<60, 40>>),
                Reserves(<<20, 80>>, <<90, 10>>, <<60, 40>>, <<40, 40>>)>>
SomeRoutings == {<<pa, pb>>, <<pc>>, <<pd>>}
SomeConfigs ==
  {[base |-> "usdc", optimize |-> TRUE, validate |-> FALSE, vault |-> TRUE],
   [base |-> "xlm", optimize |-> FALSE, validate |-> TRUE, vault |-> FALSE],
   [base |-> "xlm", optimize |-> FALSE, validate |-> FALSE, vault |-> FALSE]}

DayOfDimension == [n \in Dimensions |-> IF n = 1 THEN 1 ELSE 2]

\* Two bases that are also the bridges; live, dry and scanning only.
BothWays == <<<<"XLM", "USDC">>, <<"USDC", "XLM">>>>
ThreeModes == {[build |-> TRUE, submit |-> TRUE, dry |-> FALSE],
               [build |-> TRUE, submit |-> FALSE, dry |-> TRUE],
               [build |-> FALSE, submit |-> FALSE, dry |-> TRUE]}
TwoTexts == {[words |-> {"unreachable", "soroswap"}, aggregator |-> 0],
             [words |-> {"contract_337", "phoenix", "minimum_out"}, aggregator |-> 8]}

\* One submission of each base and each route.
TwoBases == [x \in {1, 2} |-> IF x = 1 THEN "XLM" ELSE "USDC"]
TwoRoutes == [x \in {1, 2} |-> IF x = 1 THEN "soroswap" ELSE "comet"]

MCInit ==
  /\ Init /\ ScanInit /\ BookInit /\ FunnelInit /\ ProfitInit
  /\ part \in {"settlement", "scan", "book", "funnel", "profit"}
  /\ part # "scan" => setup.base = "usdc" /\ balance = 8
  /\ part # "funnel" => mode.build /\ mode.submit

MCNext ==
  /\ UNCHANGED part
  /\ \/ part = "settlement" /\ Next /\ UNCHANGED <<svars, bookvars, fvars, pvars>>
     \/ part = "scan" /\ ScanNext /\ UNCHANGED <<vars, bookvars, fvars, pvars>>
     \/ part = "book" /\ BookNext /\ UNCHANGED <<vars, svars, fvars, pvars>>
     \/ part = "funnel" /\ FunnelNext /\ UNCHANGED <<vars, svars, bookvars, pvars>>
     \/ part = "profit" /\ ProfitNext /\ UNCHANGED <<vars, svars, bookvars, fvars>>

MCSpec == MCInit /\ [][MCNext]_<<vars, svars, bookvars, fvars, pvars, part>>
=============================================================================

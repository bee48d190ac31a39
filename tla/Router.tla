------------------------------- MODULE Router -------------------------------
(***************************************************************************)
(* The router engine (crates/router-engine): the paths of the token graph, *)
(* the quote of a path, and the route that is chosen from the quotes, in   *)
(* one leg or split over several.                                          *)
(*                                                                         *)
(* The search for the best split (Brent's method on fractions) is          *)
(* abstracted to its outcome: any division at the points of Fractions, so  *)
(* operators that depend on it return the set of the routes they may give. *)
(***************************************************************************)
EXTENDS Integers, FiniteSets, FiniteSetsExt, Sequences, SequencesExt

CONSTANTS MaxHops, MaxMultiHop, MaxDirect, MaxSplits, Excluded,
          MinReserve,                       \* MIN_XYK_RESERVE_STROOPS
          SplitThreshold, CompetitiveDelta, MinOutShare, MinInShare,
          RateTolerance, MinImprovement, SplitExtra,  \* basis points
          Fractions                         \* points of division, in basis points

Bps == 10000
Shares(part, whole) == (part * Bps) \div whole

-----------------------------------------------------------------------------
(***************************************************************************)
(* The token graph.  Pairs is the sequence of trading pairs of an engine,  *)
(* [source, pool, a, b]; a path alternates tokens and pools.               *)
(***************************************************************************)
Allowed(pairs) == SelectSeq(pairs, LAMBDA p : {p.a, p.b} \intersect Excluded = {})

Edges(pairs, token) ==
    FlattenSeq([i \in 1 .. Len(pairs) |->
        LET to == (IF pairs[i].a = token THEN <<pairs[i].b>> ELSE <<>>)
                  \o (IF pairs[i].b = token THEN <<pairs[i].a>> ELSE <<>>)
        IN  [k \in 1 .. Len(to) |->
                [to |-> to[k], source |-> pairs[i].source, pool |-> pairs[i].pool]]])

Extended(path, edge) == [tokens |-> Append(path.tokens, edge.to),
                         sources |-> Append(path.sources, edge.source),
                         pools |-> Append(path.pools, edge.pool)]

Hops(path) == Len(path.pools)
Target(path) == Last(path.tokens)

\* Every way on from a path, along an unused pool to a token not yet visited.
Extensions(pairs, path) ==
    LET edges == SelectSeq(Edges(pairs, Target(path)),
                           LAMBDA e : e.pool \notin ToSet(path.pools) /\ e.to \notin ToSet(path.tokens))
    IN  [i \in 1 .. Len(edges) |-> Extended(path, edges[i])]

\* The paths of n hops that have not reached end, in the order of the queue.
OpenPaths(pairs, start, end) ==
    LET open[n \in Nat] ==
            IF n = 0 THEN <<[tokens |-> <<start>>, sources |-> <<>>, pools |-> <<>>]>>
            ELSE SelectSeq(FlattenSeq([i \in 1 .. Len(open[n - 1]) |-> Extensions(pairs, open[n - 1][i])]),
                           LAMBDA p : Target(p) # end)
    IN  open

ClosedPaths(pairs, start, end, n) ==
    LET open == OpenPaths(pairs, start, end)[n - 1]
    IN  SelectSeq(FlattenSeq([i \in 1 .. Len(open) |-> Extensions(pairs, open[i])]),
                  LAMBDA p : Target(p) = end)

Take(s, n) == SubSeq(s, 1, Min({n, Len(s)}))

\* Direct pools first (no cap when MaxDirect is zero), then the multi-hop paths
\* by length.
FindPaths(pairs, start, end, hops) ==
    LET graph == Allowed(pairs)
        direct == ClosedPaths(graph, start, end, 1)
        multi == FlattenSeq([n \in 1 .. hops - 1 |-> ClosedPaths(graph, start, end, n + 1)])
    IN  IF start = end THEN <<>>
        ELSE (IF MaxDirect = 0 THEN direct ELSE Take(direct, MaxDirect)) \o Take(multi, MaxMultiHop)

IsClassic(path) == ToSet(path.sources) = {"classic_dex"}
TouchesClassic(path) == "classic_dex" \in ToSet(path.sources)
Executable(path) == IsClassic(path) \/ ~TouchesClassic(path)

-----------------------------------------------------------------------------
(***************************************************************************)
(* Quotes.  States maps a pool to [tokens, reserves, fee]; a pool without  *)
(* state gives no quote.  The classic order book is asked, not computed.   *)
(***************************************************************************)
NoQuote == [out |-> 0, impact |-> 0]

ConstantProduct(in, from, to) == (in * to) \div (from + in)

LessFee(in, fee) == (in * (Bps - fee)) \div Bps

AmountOut(source, fee, in, from, to) ==
    CASE source = "soroswap" -> ConstantProduct(in - (in * 3 + 999) \div 1000, from, to)
      [] source = "phoenix" -> LET gross == ConstantProduct(in, from, to)
                               IN  gross - (gross * fee) \div Bps
      [] OTHER -> ConstantProduct(LessFee(in, fee), from, to)

IndexIn(tokens, t) == CHOOSE i \in 1 .. Len(tokens) : tokens[i] = t

Impact(source, in, out, from, to) ==
    IF source = "aquarius" THEN Min({Bps, (in * Bps) \div (2 * from)})
    ELSE LET ideal == (in * to) \div from
         IN  IF out < ideal THEN Shares(ideal - out, ideal) ELSE 0

HopQuote(source, state, a, b, in) ==
    LET from == state.reserves[IndexIn(state.tokens, a)]
        to == state.reserves[IndexIn(state.tokens, b)]
        floor == IF source = "aquarius" THEN 1 ELSE MinReserve
        out == AmountOut(source, state.fee, in, from, to)
    IN  IF {a, b} \subseteq ToSet(state.tokens) /\ from >= floor /\ to >= floor /\ in > 0 /\ out > 0
        THEN [out |-> out, impact |-> Impact(source, in, out, from, to)] ELSE NoQuote

\* The hops one after the other: the output of the last, the largest impact.
QuotePath(states, asked, path, amount) ==
    LET after[n \in Nat] ==
            IF n = 0 THEN [out |-> amount, impact |-> 0]
            ELSE LET before == after[n - 1]
                     hop == CASE path.sources[n] = "classic_dex" -> [out |-> asked, impact |-> 0]
                              [] path.sources[n] # "classic_dex" /\ path.pools[n] \in DOMAIN states ->
                                     HopQuote(path.sources[n], states[path.pools[n]],
                                              path.tokens[n], path.tokens[n + 1], before.out)
                              [] OTHER -> NoQuote
                 IN  IF before.out = 0 \/ hop.out = 0 THEN NoQuote
                     ELSE [out |-> hop.out, impact |-> Max({before.impact, hop.impact})]
    IN  after[Hops(path)]

-----------------------------------------------------------------------------
(***************************************************************************)
(* Splits.  A quoted path is [path, out, impact] at the full amount; a leg *)
(* is [path, in, out].  out[path, amount] is the quote of a part.          *)
(***************************************************************************)
Total(legs) == FoldLeft(LAMBDA sum, l : sum + l.out, 0, legs)
Spent(legs) == FoldLeft(LAMBDA sum, l : sum + l.in, 0, legs)

BestFirst(quoted) ==
    LET before(j, i) == \/ quoted[j].out > quoted[i].out
                        \/ quoted[j].out = quoted[i].out /\ j < i
        rank(i) == Cardinality({j \in DOMAIN quoted : before(j, i)}) + 1
    IN  [k \in DOMAIN quoted |-> quoted[CHOOSE i \in DOMAIN quoted : rank(i) = k]]

Leg(out, path, amount) == [path |-> path, in |-> amount, out |-> out[path, amount]]

\* The first path against all the rest, then the rest among themselves.
RECURSIVE Divisions(_, _, _)
Divisions(out, paths, amount) ==
    IF Len(paths) = 1 THEN {<<Leg(out, paths[1], amount)>>}
    ELSE UNION { LET first == (amount * f) \div Bps
                 IN  {<<Leg(out, paths[1], first)>> \o rest :
                        rest \in Divisions(out, Tail(paths), amount - first)} : f \in Fractions}

\* The rate of a leg is within the tolerance of the rate of its path at the full amount.
RateMatches(leg, full, amount) ==
    /\ leg.out > 0
    /\ leg.out * amount * Bps <= full * leg.in * (Bps + RateTolerance)
    /\ leg.out * amount * (Bps + RateTolerance) >= full * leg.in * Bps

Kept(out, legs, amount) ==
    SelectSeq(legs, LAMBDA l : /\ l.in > 0
                               /\ Shares(l.in, amount) >= MinInShare
                               /\ Shares(l.out, Total(legs)) >= MinOutShare
                               /\ RateMatches(l, out[l.path, amount], amount))

\* Dust legs are dropped and the amount divided anew over the others, until
\* every leg that is left, or none, would be kept.
RECURSIVE WithoutDust(_, _, _)
WithoutDust(out, legs, amount) ==
    LET kept == IF Total(legs) = 0 \/ Len(legs) < 2 THEN <<>> ELSE Kept(out, legs, amount)
    IN  IF kept = <<>> \/ Len(kept) = Len(legs) THEN {legs}
        ELSE UNION {WithoutDust(out, again, amount) :
                      again \in Divisions(out, [i \in DOMAIN kept |-> kept[i].path], amount)}

ApplySlippage(amount, slippage) == (amount * (Bps - slippage)) \div Bps

Route(legs, slippage, split) ==
    [legs |-> legs, expected |-> Total(legs), split |-> split,
     minimum |-> ApplySlippage(Total(legs), slippage)]

NoRoute == [legs |-> <<>>, expected |-> 0, split |-> FALSE, minimum |-> 0]

\* The subtraction of more than Bps overflows: the request ends without an answer.
Overflow == [NoRoute EXCEPT !.minimum = -1]

SplitRoute(legs, slippage) ==
    IF slippage + SplitExtra > Bps THEN Overflow ELSE Route(legs, slippage + SplitExtra, TRUE)

WorthSplitting(best, splits) ==
    /\ splits > 1
    /\ Len(best) > 1
    /\ \/ best[1].impact >= SplitThreshold
       \/ best[1].impact > 0 /\ Shares(best[1].out - best[2].out, best[1].out) <= CompetitiveDelta

\* Mutant: a split is only compared in how much it gains, whatever the sign.
ImprovesEitherWay(legs, single) ==
    Shares(Max({Total(legs), single}) - Min({Total(legs), single}), single) >= MinImprovement

Improves(legs, single) ==
    /\ Total(legs) > single
    /\ Shares(Total(legs) - single, single) >= MinImprovement

Optimize(out, quoted, amount, slippage, splits) ==
    LET best == BestFirst(quoted)
        paths == [i \in 1 .. Min({splits, Len(best)}) |-> best[i].path]
        single == Route(<<[path |-> best[1].path, in |-> amount, out |-> best[1].out]>>, slippage, FALSE)
    IN  IF ~WorthSplitting(best, splits) THEN {single}
        ELSE {IF Improves(legs, best[1].out) THEN SplitRoute(legs, slippage) ELSE single :
                 legs \in UNION {WithoutDust(out, d, amount) : d \in Divisions(out, paths, amount)}}

(***************************************************************************)
(* The route of a request: the best classic path against the best Soroban  *)
(* route, never a mixture.                                                 *)
(***************************************************************************)
Routes(states, asked, paths, query) ==
    LET usable == SelectSeq(paths, LAMBDA p : IF query.preferSoroban THEN ~TouchesClassic(p) ELSE Executable(p))
        quoted == SelectSeq([i \in DOMAIN usable |->
                                LET q == QuotePath(states, asked, usable[i], query.amount)
                                IN  [path |-> usable[i], out |-> q.out, impact |-> q.impact]],
                            LAMBDA q : q.out > 0)
        classics == {q \in ToSet(quoted) : IsClassic(q.path)}
        most == {q \in classics : \A other \in classics : other.out <= q.out}
        sorobans == SelectSeq(quoted, LAMBDA q : ~IsClassic(q.path))
        out == [path \in ToSet(usable), amount \in Nat |-> QuotePath(states, asked, path, amount).out]
        classic == {Route(<<[path |-> q.path, in |-> query.amount, out |-> q.out]>>, query.slippage, FALSE) :
                       q \in most}
        soroban == IF sorobans = <<>> THEN {}
                   ELSE Optimize(out, sorobans, query.amount, query.slippage, query.splits)
    IN  CASE classic = {} /\ soroban = {} -> {NoRoute}
          [] classic = {} /\ soroban # {} -> soroban
          [] classic # {} /\ soroban = {} -> classic
          [] OTHER -> UNION {{IF c.expected > s.expected THEN c ELSE s : c \in classic} : s \in soroban}
=============================================================================

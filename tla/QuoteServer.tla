----------------------------- MODULE QuoteServer -----------------------------
(***************************************************************************)
(* The API server answering quotes and building transactions from them     *)
(* (crates/api-server: handlers.rs, state.rs, pool_hydrate.rs), while new  *)
(* snapshots replace its engine and the worker replaces pool state.        *)
(*                                                                         *)
(* A request passes through awaits and takes the current engine twice: once*)
(* for the paths and the quote, once, earlier, for the indices of the      *)
(* tokens in their pools.  An engine is shared by the requests that hold   *)
(* it, and the state of the aquarius pools it keeps is that of the request *)
(* which routed last.                                                      *)
(***************************************************************************)
EXTENDS Router

CONSTANTS Requests,
          Queries,       \* what may be asked: [in, out, amount, slippage, hops, splits, preferSoroban]
          Snapshots,     \* the pairs of each snapshot, in the order they are published
          ClassicPairs,  \* the pairs of the classic adapter
          Chain,         \* pool -> [tokens, reserves, fee]: the pools themselves
          Asked,         \* what the order book may answer
          RpcPools,      \* pools a request may read from the RPC (0: disabled)
          BuildDust,     \* BUILD_MIN_LEG_INPUT_BPS
          MaxMisses      \* bound: pool states that expire in the store

VARIABLES engines,   \* the engines built so far: [pairs, aquarius]
          store,     \* pool state store: pool -> state
          misses,
          request    \* what became of each request

vars == <<engines, store, misses, request>>

Current == Len(engines)

\* Pools of several tokens are edges that share an address: those of aquarius
\* are left out.
Sanitize(pairs) ==
    SelectSeq(pairs, LAMBDA p :
        p.source = "aquarius" => Len(SelectSeq(pairs, LAMBDA q : q.source = "aquarius" /\ q.pool = p.pool)) = 1)

NoStates == [p \in {} |-> <<>>]

BuildEngine(snapshot) == [pairs |-> Sanitize(snapshot) \o ClassicPairs, aquarius |-> NoStates]

Reload ==
    /\ Current < Len(Snapshots)
    /\ engines' = Append(engines, BuildEngine(Snapshots[Current + 1]))
    /\ UNCHANGED <<store, misses, request>>

\* A key of the store expires, and the worker writes it again.
Expire(pool) ==
    /\ misses < MaxMisses
    /\ misses' = misses + 1
    /\ store' = [p \in DOMAIN store \ {pool} |-> store[p]]
    /\ UNCHANGED <<engines, request>>

Publish ==
    /\ DOMAIN store # DOMAIN Chain
    /\ store' = Chain
    /\ UNCHANGED <<engines, misses, request>>

-----------------------------------------------------------------------------
(***************************************************************************)
(* GET /quote.                                                             *)
(***************************************************************************)
Idle == [pc |-> "idle"]

Becomes(r, record) == request' = [request EXCEPT ![r] = record]
At(r, pc) == request[r].pc = pc
Engine(n) == engines[n]

\* The limits of the client may only lower those of the server.
Clamped(query) == [query EXCEPT !.hops = Min({@, MaxHops}), !.splits = Min({@, MaxSplits})]

Arrive(r, query) ==
    /\ At(r, "idle")
    /\ Becomes(r, [pc |-> "arrived", query |-> Clamped(query), engine |-> Current])
    /\ UNCHANGED <<engines, store, misses>>

Find(r) ==
    /\ At(r, "arrived")
    /\ LET q == request[r].query
       IN  Becomes(r, [pc |-> "found", query |-> q, engine |-> request[r].engine, router |-> Current,
                       paths |-> FindPaths(Engine(Current).pairs, q.in, q.out, q.hops)])
    /\ UNCHANGED <<engines, store, misses>>

PoolsOf(paths) == {[source |-> path.sources[i], pool |-> path.pools[i]] :
                      <<path, i>> \in {<<p, n>> \in ToSet(paths) \X (1 .. MaxHops) : n <= Hops(p)}}

\* Pool state of every pool on a path: from the store, the soroswap pools it
\* misses from the RPC when that is enabled, answers and is not asked for more
\* than RpcPools of them; what was read is written back.
Hydrate(r) ==
    /\ At(r, "found")
    /\ LET wanted == {p.pool : p \in {x \in PoolsOf(request[r].paths) : x.source # "classic_dex"}}
           missed == {p.pool : p \in {x \in PoolsOf(request[r].paths) : x.source = "soroswap"}} \ DOMAIN store
           hydrated(read) == [p \in (DOMAIN store \intersect wanted) \union read |->
                                 IF p \in read THEN Chain[p] ELSE store[p]]
       IN  \E read \in {S \in SUBSET missed : S = {} \/ Cardinality(S) = Min({RpcPools, Cardinality(missed)})} :
              /\ store' = [p \in DOMAIN store \union read |-> IF p \in read THEN Chain[p] ELSE store[p]]
              /\ Becomes(r, [pc |-> "hydrated", query |-> request[r].query, engine |-> request[r].engine,
                             router |-> request[r].router, paths |-> request[r].paths,
                             states |-> hydrated(read)])
    /\ UNCHANGED <<engines, misses>>

\* The engine that routes keeps the aquarius pools of this request.
ChooseRoute(r) ==
    /\ At(r, "hydrated")
    /\ LET me == request[r]
           aquarius == {p.pool : p \in {x \in PoolsOf(me.paths) : x.source = "aquarius"}} \intersect DOMAIN me.states
       IN  /\ engines' = IF \A i \in DOMAIN me.paths : ~Executable(me.paths[i]) THEN engines
                         ELSE [engines EXCEPT ![me.router].aquarius = [p \in aquarius |-> me.states[p]]]
           /\ \E asked \in Asked : \E route \in Routes(me.states, asked, me.paths, me.query) :
                 Becomes(r, CASE route = Overflow -> [pc |-> "crashed"]
                              [] route = NoRoute -> [pc |-> "refused"]
                              [] OTHER -> [pc |-> "routed", query |-> me.query, engine |-> me.engine,
                                           states |-> me.states, paths |-> me.paths, asked |-> asked,
                                           route |-> route, indices |-> <<>>])
    /\ UNCHANGED <<store, misses>>

-----------------------------------------------------------------------------
\* The position of the tokens of a hop: in the aquarius state the engine holds
\* at this moment, else in the pair of the engine; none when it knows neither.
PairOf(pairs, hop) ==
    SelectSeq(pairs, LAMBDA p : p.pool = hop.pool /\ {p.a, p.b} = {hop.a, hop.b})

PoolIndices(engine, hop) ==
    IF hop.pool \in DOMAIN engine.aquarius
    THEN LET tokens == engine.aquarius[hop.pool].tokens
         IN  IF {hop.a, hop.b} \subseteq ToSet(tokens)
             THEN <<IndexIn(tokens, hop.a) - 1, IndexIn(tokens, hop.b) - 1>> ELSE <<>>
    ELSE LET pair == PairOf(engine.pairs, hop)
         IN  IF pair = <<>> THEN <<>> ELSE IF Head(pair).a = hop.a THEN <<0, 1>> ELSE <<1, 0>>

HopsOf(path) == [i \in 1 .. Hops(path) |-> [pool |-> path.pools[i], a |-> path.tokens[i], b |-> path.tokens[i + 1]]]

AllHops(route) == FlattenSeq([i \in DOMAIN route.legs |-> HopsOf(route.legs[i].path)])

\* Quotes of the chain replace those of the legs it answers for; the promise is
\* recomputed when one of them differs.
Validated(route, slippage, answers) ==
    LET legs == [i \in DOMAIN route.legs |->
                    IF answers[i] > 0 THEN [route.legs[i] EXCEPT !.out = answers[i]] ELSE route.legs[i]]
        extra == IF route.split THEN Min({SplitExtra, Bps - slippage}) ELSE 0
    IN  IF legs = route.legs THEN route
        ELSE [route EXCEPT !.legs = legs, !.expected = Total(legs),
                           !.minimum = ApplySlippage(Total(legs), slippage + extra)]

\* What the chain may answer for a leg: nothing, or a little less than its quote.
Answers(r, leg) ==
    {0} \union (IF \E i \in 1 .. Hops(leg.path) :
                      PoolIndices(Engine(request[r].engine), HopsOf(leg.path)[i]) = <<>>
                THEN {} ELSE {leg.out - 1} \ {0})

Validate(r) ==
    /\ At(r, "routed") /\ request[r].indices = <<>> /\ request[r].query.validate
    /\ LET legs == request[r].route.legs
       IN  \E answers \in [DOMAIN legs -> UNION {Answers(r, legs[i]) : i \in DOMAIN legs}] :
              /\ \A i \in DOMAIN legs : answers[i] \in Answers(r, legs[i])
              /\ request' = [request EXCEPT ![r].query.validate = FALSE,
                                            ![r].route = Validated(@, request[r].query.slippage, answers)]
    /\ UNCHANGED <<engines, store, misses>>

\* One hop after the other; the answer goes out when all are resolved.
Resolve(r) ==
    /\ At(r, "routed") /\ ~request[r].query.validate
    /\ LET me == request[r]
           hops == AllHops(me.route)
           found == PoolIndices(Engine(me.engine), hops[Len(me.indices) + 1])
       IN  IF Len(me.indices) = Len(hops)
           THEN Becomes(r, [pc |-> "answered", query |-> me.query, route |-> me.route, indices |-> me.indices])
           ELSE Becomes(r, IF found = <<>> THEN [pc |-> "refused"]
                           ELSE [me EXCEPT !.indices = Append(@, found)])
    /\ UNCHANGED <<engines, store, misses>>

-----------------------------------------------------------------------------
(***************************************************************************)
(* POST /build-tx with the route of an answer.                             *)
(***************************************************************************)
\* Mutant: the dust is dropped instead of folded.
DustDropped(legs, amount) == SelectSeq(legs, LAMBDA l : l.in >= (amount * BuildDust) \div Bps)

\* Legs below the dust limit are folded into the last of the largest others.
FoldDust(legs, amount) ==
    LET kept == SelectSeq(legs, LAMBDA l : l.in >= (amount * BuildDust) \div Bps)
        largest == Max({i \in DOMAIN kept : \A j \in DOMAIN kept : kept[j].in <= kept[i].in})
    IN  IF Len(legs) < 2 \/ Len(kept) = Len(legs) \/ kept = <<>> THEN legs
        ELSE [kept EXCEPT ![largest].in = @ + amount - Spent(kept)]

\* The checks of validate_build_tx_request and of the kinds of legs.
Buildable(legs, query, minimum) ==
    /\ minimum > 0
    /\ legs # <<>>
    /\ \A i \in DOMAIN legs : /\ legs[i].in > 0
                              /\ Head(legs[i].path.tokens) = query.in
                              /\ Target(legs[i].path) = query.out
                              /\ Executable(legs[i].path)
    /\ Spent(legs) = query.amount
    /\ \A i, j \in DOMAIN legs : IsClassic(legs[i].path) = IsClassic(legs[j].path)

\* One path payment per classic leg, or one call of the aggregator.
Operations(legs, query, minimum) ==
    IF IsClassic(legs[1].path)
    THEN [i \in DOMAIN legs |-> [in |-> legs[i].in, min |-> Max({1, (minimum * legs[i].in) \div query.amount})]]
    ELSE <<[in |-> Spent(legs), min |-> minimum]>>

Build(r) ==
    /\ At(r, "answered")
    /\ LET me == request[r]
           legs == FoldDust(me.route.legs, me.query.amount)
       IN  IF Buildable(legs, me.query, me.route.minimum)
           THEN \/ Becomes(r, [me EXCEPT !.pc = "built", !.indices = Operations(legs, me.query, me.route.minimum)])
                \/ Becomes(r, [pc |-> "unavailable"])   \* the sequence or the simulation failed
           ELSE Becomes(r, [me EXCEPT !.pc = "rejected"])
    /\ UNCHANGED <<engines, store, misses>>

-----------------------------------------------------------------------------
Init ==
    /\ engines = <<BuildEngine(Snapshots[1])>>
    /\ store = Chain
    /\ misses = 0
    /\ request = [r \in Requests |-> Idle]

Next ==
    \/ Reload
    \/ \E pool \in DOMAIN store : Expire(pool)
    \/ Publish
    \/ \E r \in Requests :
          \/ At(r, "idle") /\ \E query \in Queries : Arrive(r, query)
          \/ Find(r) \/ Hydrate(r) \/ ChooseRoute(r) \/ Validate(r) \/ Resolve(r) \/ Build(r)

Spec == Init /\ [][Next]_vars

-----------------------------------------------------------------------------
(***************************************************************************)
(* Properties.                                                             *)
(***************************************************************************)
Simple(path) ==
    /\ IsInjective(path.tokens) /\ IsInjective(path.pools)
    /\ ToSet(path.tokens) \intersect Excluded = {}

\* A route spends exactly the amount asked for, each leg along a path that visits
\* no token and no pool twice, promises the sum of its legs' quotes, and beats or
\* equals every single path it could have taken (find_paths, optimize,
\* get_route_with_paths, apply_on_chain_hop_validation).  The indices found for
\* it are the positions the pools themselves give the tokens, although another
\* request may have replaced the engine's aquarius pools, and a reload the engine,
\* between the quote and the lookup (get_pool_indices).
RouteIsWhole ==
  /\ \A r \in Requests : request[r].pc \in {"routed", "answered"} =>
        \A i \in DOMAIN request[r].indices :
            LET hop == AllHops(request[r].route)[i]
                tokens == Chain[hop.pool].tokens
            IN  hop.pool \in DOMAIN Chain =>
                    request[r].indices[i] = <<IndexIn(tokens, hop.a) - 1, IndexIn(tokens, hop.b) - 1>>
  /\ \A r \in Requests : At(r, "routed") =>
        LET me == request[r]
            single == {QuotePath(me.states, me.asked, me.paths[i], me.query.amount).out :
                          i \in {n \in DOMAIN me.paths : IF me.query.preferSoroban THEN ~TouchesClassic(me.paths[n])
                                                         ELSE Executable(me.paths[n])}}
            fresh == \A i \in DOMAIN me.route.legs :
                        me.route.legs[i].out = QuotePath(me.states, me.asked, me.route.legs[i].path, me.route.legs[i].in).out
        IN  /\ Spent(me.route.legs) = me.query.amount
            /\ Total(me.route.legs) = me.route.expected
            /\ \A i \in DOMAIN me.route.legs : /\ me.route.legs[i].in > 0
                                               /\ Simple(me.route.legs[i].path)
                                               /\ Hops(me.route.legs[i].path) <= Max({1, me.query.hops})
            /\ fresh => \A out \in single : out <= me.route.expected

\* A quote that promises something can be built, and the transaction spends the
\* amount and insists on the minimum of the quote (fold_dust_sub_routes,
\* validate_build_tx_request, classic_dest_min_for_sub).
QuotesBuild ==
    \A r \in Requests :
        /\ At(r, "rejected") => request[r].route.minimum = 0
        /\ At(r, "built") =>
              LET ops == request[r].indices
              IN  /\ FoldLeft(LAMBDA sum, op : sum + op.in, 0, ops) = request[r].query.amount
                  /\ FoldLeft(LAMBDA sum, op : sum + op.min, 0, ops) >= request[r].route.minimum
=============================================================================

------------------------------ MODULE PoolRefresh ------------------------------
(***************************************************************************)
(* How the state of the pools reaches the store the API quotes from        *)
(* (crates/market-data-worker).  Writers run beside each other:            *)
(*                                                                         *)
(*   - the ledger watcher reads the events of new ledgers and queues fetch *)
(*     tasks for the known pools they touch; workers execute the tasks and *)
(*     a sink writes what they send (ledger_watcher.rs, fetch_pipeline.rs);*)
(*     without the pipeline the watcher refreshes the pools itself         *)
(*     (touched_refresh.rs) and the caches are dumped on every publish tick*)
(*     (spawn_fast_pool_publish);                                          *)
(*   - the periodic sweep refreshes every cached pool, venue by venue, and *)
(*     writes chunk by chunk (pool_state_write_through.rs, worker.rs);     *)
(*   - discovery re-reads every venue, replaces the known pools and dumps  *)
(*     the adapters' caches (worker.rs, pool_state_publish.rs).            *)
(*                                                                         *)
(* The state of a pool is the ledger that last touched it, so a larger     *)
(* number is newer.  Venues differ in where a written value comes from:    *)
(* "soroswap" tasks send what they read, the others go through the         *)
(* adapter's cache; the phoenix sweep replaces the venue's keys; "clmm"    *)
(* stands for sushi and aquarius_clmm, whose pools are written only when   *)
(* their ticks are covered, and reads of which concern the price and the   *)
(* liquidity (ClmmPool has the ticks).  A chunk of the sweep is one pool.  *)
(*                                                                         *)
(* `read` and `lost` are history: the newest state of each pool any reader *)
(* obtained, and the pools of which a touch was given up since.            *)
(***************************************************************************)
EXTENDS Integers, Sequences, FiniteSetsExt

CONSTANTS
    Scenarios,      \* deployments: the venue of each pool, pipeline or not, the loops
                    \* that run, and the bounds on ledgers that touch a pool and on
                    \* RPC and store calls that fail
    Workers,        \* FETCH_WORKER_COUNT permits
    QueueCapacity,  \* FETCH_HIGH_QUEUE_CAPACITY
    MaxCatchup,     \* LEDGER_MAX_CATCHUP
    MaxTouched      \* LEDGER_MAX_TOUCHED_REFRESH

Venues == {"soroswap", "aquarius", "phoenix", "comet", "clmm"}

ASSUME RefreshAssumption ==
    /\ \A s \in Scenarios :
          /\ IsFiniteSet(DOMAIN s.venues)
          /\ s \in [venues: [DOMAIN s.venues -> Venues], pipeline: BOOLEAN,
                    loops: SUBSET {"sweep", "discovery"}, ledgers: Nat, failures: Nat]
    /\ {QueueCapacity, MaxCatchup, MaxTouched} \subseteq Nat \ {0}

VARIABLES
    scenario,   \* the deployment, fixed
    events,     \* the pools touched in each ledger so far
    store,      \* PoolStateStore: the state kept for each pool, or None
    cache,      \* the adapters' caches, or None
    covered,    \* the cached CLMM pools whose ticks are covered
    sources,    \* WorkerShared.sources: the pools of the topology
    clmm,       \* WorkerShared.clmm_pools: the state of CLMM pools, or None
    watcher,    \* the ledger watcher: its poll in progress and last_ledger
    direct,     \* refresh_touched_pools in progress, without the pipeline
    queue,      \* the fetch tasks not yet taken
    task,       \* what each worker is executing
    sink,       \* the updates not yet written
    sweep,      \* the sweep of each venue
    sweepBase,  \* what the sweep cloned when it started, and whether it is full
    disc,       \* the discovery in progress
    dump,       \* the cache publish in progress
    failures, read, lost

chain == <<scenario, events>>
adapters == <<cache, covered>>
shared == <<sources, clmm>>
pipeline == <<queue, task, sink>>
sweeper == <<sweep, sweepBase>>
history == <<read, lost>>
vars == <<chain, store, adapters, shared, watcher, direct, pipeline, sweeper, disc, dump, failures, history>>

venue == scenario.venues
Pools == DOMAIN venue
Ledgers == 0..scenario.ledgers
None == -1
Values == [Pools -> Ledgers \cup {None}]
Nothing == [p \in Pools |-> None]
Of(v) == {p \in Pools : venue[p] = v}
Cached == {p \in Pools : cache[p] # None}

ledger == Len(events)
TouchedIn(from, to) == UNION {events[l] : l \in from..to}
LastTouch(p) == CHOOSE l \in 0..ledger : /\ l = 0 \/ p \in events[l]
                                         /\ p \notin TouchedIn(l + 1, ledger)
\* The state of some pools as the chain has it now.
OnChain(pools) == [p \in Pools |-> IF p \in pools THEN LastTouch(p) ELSE None]

\* Values restricted to some pools.
Only(values, pools) == [p \in Pools |-> IF p \in pools THEN values[p] ELSE None]

\* Mistake: a key that exists is left as it is.
KeepsOld(old, new) == [p \in Pools |-> IF old[p] = None THEN new[p] ELSE old[p]]

\* New values written over old ones.
Over(old, new) == [p \in Pools |-> IF new[p] = None THEN old[p] ELSE new[p]]

\* export_pool_quote_states, get_cached_pairs and export_clmm_snapshots with
\* should_publish_clmm_to_redis: a CLMM pool leaves its adapter when covered.
Exports(pools) == Only(cache, {p \in pools : venue[p] = "clmm" => p \in covered})

\* rebuild_pool_index: the topology and the shared CLMM pools.
known == sources \cup {p \in Of("clmm") : clmm[p] # None}

NoTask == [pc |-> "idle", venue |-> "soroswap", pools |-> {}, topology |-> {}, values |-> Nothing]
NoSweep == [pc |-> "off", todo |-> {}, chunk |-> {}, values |-> Nothing]
NoBase == [sources |-> {}, full |-> FALSE]
NoDirect == [pc |-> "off", venue |-> "soroswap", todo |-> {}, pools |-> {}, sources |-> {},
             clmm |-> Nothing, read |-> Nothing, values |-> Nothing]
NoDisc == [pc |-> "off", reading |-> {}, applying |-> {}, found |-> {}, unticked |-> {},
           clmm |-> Nothing, values |-> Nothing]
NoDump == [pc |-> "off", values |-> Nothing]

WatcherStates ==
    [pc: {"idle", "polling", "refreshing"}, index: SUBSET Pools, from: Nat, to: Ledgers, last: Ledgers]
DirectStates ==
    [pc: {"off", "choose", "apply", "export", "share"}, venue: Venues, todo: SUBSET Venues,
     pools: SUBSET Pools, sources: SUBSET Pools, clmm: Values, read: Values, values: Values]
Queued == [venue: Venues, pools: SUBSET Pools]
TaskStates ==
    [pc: {"idle", "fetch", "apply", "export", "send"}, venue: Venues, pools: SUBSET Pools,
     topology: SUBSET Pools, values: Values]
SweepStates ==
    [pc: {"off", "wait", "read", "apply", "export", "delete", "write", "done"},
     todo: SUBSET Pools, chunk: SUBSET Pools, values: Values]
DiscStates ==
    [pc: {"off", "collect", "export", "write"}, reading: SUBSET Venues, applying: SUBSET Venues,
     found: SUBSET Pools, unticked: SUBSET Pools, clmm: Values, values: Values]

ChainTypes ==
    /\ scenario \in Scenarios
    /\ events \in Seq(SUBSET Pools) /\ ledger \in Ledgers
StateTypes ==
    /\ store \in Values /\ cache \in Values /\ clmm \in Values
    /\ covered \subseteq Of("clmm") \cap Cached
    /\ sources \subseteq Pools
WatchTypes == watcher \in WatcherStates /\ direct \in DirectStates
PipelineTypes ==
    /\ queue \in Seq(Queued) /\ Len(queue) <= QueueCapacity
    /\ task \in [Workers -> TaskStates]
    /\ sink \in Seq(Values)
SweepTypes ==
    /\ sweep \in [Venues -> SweepStates]
    /\ sweepBase \in [sources: SUBSET Pools, full: BOOLEAN]
DiscTypes == disc \in DiscStates /\ dump \in [pc: {"off", "write"}, values: Values]
HistoryTypes ==
    /\ failures \in 0..scenario.failures
    /\ read \in [Pools -> Ledgers]
    /\ lost \subseteq Pools

TypeOK ==
    /\ ChainTypes /\ StateTypes /\ WatchTypes /\ PipelineTypes
    /\ SweepTypes /\ DiscTypes /\ HistoryTypes

\* The worker starts on an empty store, or finds the state and the topology of
\* an earlier run in it; its own caches are empty.
Init ==
    /\ scenario \in Scenarios
    /\ events = <<>>
    /\ \/ store = Nothing /\ sources = {}
       \/ store = [p \in Pools |-> 0] /\ sources = Pools
    /\ cache = Nothing /\ covered = {} /\ clmm = Nothing
    /\ watcher = [pc |-> "idle", index |-> {}, from |-> 0, to |-> 0, last |-> 0]
    /\ direct = NoDirect
    /\ queue = <<>>
    /\ task = [w \in Workers |-> NoTask]
    /\ sink = <<>>
    /\ sweep = [v \in Venues |-> NoSweep]
    /\ sweepBase = NoBase
    /\ disc = NoDisc
    /\ dump = NoDump
    /\ failures = 0
    /\ read = [p \in Pools |-> 0]
    /\ lost = {}

Fail == failures < scenario.failures /\ failures' = failures + 1

\* A reader obtains the present state of some pools.
Reads(pools) ==
    /\ read' = [p \in Pools |-> IF p \in pools THEN LastTouch(p) ELSE read[p]]
    /\ lost' = lost \ pools

-----------------------------------------------------------------------------
(* The adapters *)

\* get_trading_pairs reads the pools of a venue.  found are the pools it lists,
\* readable those whose state it has read, unticked those without ticks.
\* Soroswap and Aquarius leave out a pool whose calls fail.
SoroswapFinds(found, readable) == readable = found
AquariusFinds(found, readable) == readable = found

\* The factory describes all its pools in one answer.
PhoenixFinds(found, readable) == readable = found /\ found = Of("phoenix")

\* The factory confirms a pool (a seed answers for itself), whose state is read.
CometFinds(found, readable) == readable = found

\* Sushi keeps listing a pool whose state it cannot read, aquarius_clmm does not.
ClmmFinds(found, readable) == readable \subseteq found

Finds(v, found, readable) ==
    \/ v = "soroswap" /\ SoroswapFinds(found, readable)
    \/ v = "aquarius" /\ AquariusFinds(found, readable)
    \/ v = "phoenix" /\ PhoenixFinds(found, readable)
    \/ v = "comet" /\ CometFinds(found, readable)
    \/ v = "clmm" /\ ClmmFinds(found, readable)

\* apply_batch_reserves and refresh_touched_pools update what is cached.
UpdatesCached(values) == Over(cache, Only(values, Cached))

\* refresh_pool_addresses hydrates pools that are not cached; refresh_pool and
\* ensure_pool_loaded insert what they read.
Inserts(values) == Over(cache, values)

\* Refreshed values enter the venue's cache.
Refreshed(v, values) == IF v \in {"soroswap", "phoenix"} THEN UpdatesCached(values) ELSE Inserts(values)

\* ensure_pool_loaded reads a CLMM pool only if it is not cached.
ToRead(v, pools) == IF v = "clmm" THEN pools \ Cached ELSE pools

\* read_tick_data of the CLMM pools just loaded; without ticks a pool is cached
\* but not covered.
LoadsTicks(pools) ==
    \/ covered' = covered \cup (pools \cap Of("clmm")) /\ UNCHANGED failures
    \/ pools \cap Of("clmm") # {} /\ covered' = covered \ pools /\ Fail

-----------------------------------------------------------------------------
(* The chain *)

CloseLedger(pools) ==
    /\ ledger < scenario.ledgers
    /\ pools # {}
    /\ events' = Append(events, pools)
    /\ UNCHANGED <<scenario, store, adapters, shared, watcher, direct, pipeline, sweeper, disc, dump, failures,
                   history>>

-----------------------------------------------------------------------------
(* The ledger watcher *)

\* rebuild_pool_index from the shared sources, then getLatestLedger; of a backlog
\* beyond LEDGER_MAX_CATCHUP only the latest ledgers are read.
PollBegin ==
    /\ watcher.pc = "idle"
    /\ ledger > watcher.last
    /\ LET start == watcher.last + 1
           from == IF ledger - start + 1 > MaxCatchup THEN ledger - MaxCatchup + 1 ELSE start
       IN watcher' = [watcher EXCEPT !.pc = "polling", !.index = known, !.from = from, !.to = ledger]
    /\ UNCHANGED <<chain, store, adapters, shared, direct, pipeline, sweeper, disc, dump, failures, history>>

\* What the poll finds, and what it gives up: touches of pools the index does not
\* have and those of the truncated ledgers.
PolledPools == TouchedIn(watcher.from, watcher.to) \cap watcher.index
GivenUp == (TouchedIn(watcher.last + 1, watcher.to) \ watcher.index)
               \cup TouchedIn(watcher.last + 1, watcher.to - MaxCatchup)

\* coalesce_touched_into_tasks: a task for each comet and CLMM pool, in the order
\* of a HashSet, and one for each of the other venues.
Singles(touched) == {p \in touched : venue[p] \in {"comet", "clmm"}}
Orders(pools) == {f \in [1..Cardinality(pools) -> pools] : \A p \in pools : \E i \in DOMAIN f : f[i] = p}

Batch(v, touched) ==
    IF touched \cap Of(v) = {} THEN <<>> ELSE <<[venue |-> v, pools |-> touched \cap Of(v)]>>

Tasks(singles, touched) ==
    [i \in DOMAIN singles |-> [venue |-> venue[singles[i]], pools |-> {singles[i]}]]
       \o Batch("soroswap", touched) \o Batch("aquarius", touched) \o Batch("phoenix", touched)

\* try_send of each task: what does not fit into the queue is dropped.
Accepted(tasks) == SubSeq(tasks, 1, Min({Len(tasks), QueueCapacity - Len(queue)}))

\* getEvents for each ledger of the poll, then the tasks are queued.
PollEvents ==
    /\ watcher.pc = "polling"
    /\ scenario.pipeline \/ PolledPools = {}
    /\ \E singles \in Orders(Singles(PolledPools)) :
          LET tasks == Tasks(singles, PolledPools)
              sent == Accepted(tasks)
              dropped == UNION {tasks[i].pools : i \in (Len(sent) + 1)..Len(tasks)}
          IN /\ queue' = queue \o sent
             /\ lost' = lost \cup GivenUp \cup dropped
    /\ watcher' = [watcher EXCEPT !.pc = "idle", !.last = watcher.to]
    /\ UNCHANGED <<chain, store, adapters, shared, direct, task, sink, sweeper, disc, dump, failures, read>>

\* Mistake: a failed poll moves on all the same.
PollSkips ==
    /\ watcher.pc = "polling"
    /\ Fail
    /\ watcher' = [watcher EXCEPT !.pc = "idle", !.last = watcher.to]
    /\ UNCHANGED <<chain, store, adapters, shared, direct, pipeline, sweeper, disc, dump, history>>

\* An RPC error ends the poll; last_ledger stays.
PollFails ==
    /\ watcher.pc = "polling"
    /\ Fail
    /\ watcher' = [watcher EXCEPT !.pc = "idle"]
    /\ UNCHANGED <<chain, store, adapters, shared, direct, pipeline, sweeper, disc, dump, history>>

-----------------------------------------------------------------------------
(* Without the pipeline: the watcher refreshes the touched pools itself *)

\* The sources and the CLMM pools are cloned; of too many touched pools the rest
\* is left out.
DirectStart ==
    /\ watcher.pc = "polling"
    /\ ~scenario.pipeline
    /\ PolledPools # {}
    /\ \E kept \in kSubset(Min({MaxTouched, Cardinality(PolledPools)}), PolledPools) :
          /\ direct' = [NoDirect EXCEPT !.pc = "choose", !.todo = {venue[p] : p \in kept}, !.pools = kept,
                                        !.sources = sources, !.clmm = clmm]
          /\ lost' = lost \cup GivenUp \cup (PolledPools \ kept)
    /\ watcher' = [watcher EXCEPT !.pc = "refreshing", !.last = watcher.to]
    /\ UNCHANGED <<chain, store, adapters, shared, pipeline, sweeper, disc, dump, failures, read>>

\* The venues in the order of a HashMap.
DirectRead(v) ==
    /\ direct.pc = "choose"
    /\ v \in direct.todo
    /\ LET pools == ToRead(v, direct.pools \cap Of(v))
       IN /\ Reads(pools)
          /\ direct' = [direct EXCEPT !.pc = "apply", !.venue = v, !.todo = @ \ {v}, !.read = OnChain(pools)]
    /\ UNCHANGED <<chain, store, adapters, shared, watcher, pipeline, sweeper, disc, dump, failures>>

\* An error of a venue ends the refresh, and what the venues before it gathered
\* is not written; a CLMM pool that cannot be loaded is passed over.
DirectReadFails(v) ==
    /\ direct.pc = "choose"
    /\ v \in direct.todo
    /\ ToRead(v, direct.pools \cap Of(v)) # {}
    /\ Fail
    /\ IF v = "clmm"
       THEN /\ direct' = [direct EXCEPT !.pc = "apply", !.venue = v, !.todo = @ \ {v}, !.read = Nothing]
            /\ lost' = lost \cup (direct.pools \cap Of(v))
       ELSE /\ direct' = [direct EXCEPT !.pc = "share"]
            /\ lost' = lost \cup {p \in direct.pools : venue[p] \in direct.todo}
    /\ UNCHANGED <<chain, store, adapters, shared, watcher, pipeline, sweeper, disc, dump, read>>

\* refresh_touched_pools of the venue's adapter; the soroswap batch is not
\* applied to the cache.
DirectApply ==
    /\ direct.pc = "apply"
    /\ cache' = IF direct.venue = "soroswap" THEN cache ELSE Refreshed(direct.venue, direct.read)
    /\ LoadsTicks({p \in Of(direct.venue) : direct.read[p] # None})
    /\ direct' = [direct EXCEPT !.pc = "export"]
    /\ UNCHANGED <<chain, store, shared, watcher, pipeline, sweeper, disc, dump, history>>

\* What is to be written: what soroswap read, what the caches hold of the others,
\* xy=k pools only of the cloned topology.  aquarius and phoenix give nothing when
\* nothing was updated.
DirectExport ==
    /\ direct.pc = "export"
    /\ LET pools == direct.pools \cap Of(direct.venue)
           wanted == IF direct.venue \in {"soroswap", "phoenix"} THEN pools \cap direct.sources ELSE pools
           values == IF direct.venue = "soroswap" THEN Only(direct.read, wanted) ELSE Exports(wanted)
       IN direct' = [direct EXCEPT !.pc = "choose", !.read = Nothing,
                                   !.clmm = IF direct.venue = "clmm" THEN Over(@, values) ELSE @,
                                   !.values = Over(@, values)]
    /\ UNCHANGED <<chain, store, adapters, shared, watcher, pipeline, sweeper, disc, dump, failures, history>>

\* One batch after the other: xy=k, aquarius, comet, CLMM.
WriteBatches == <<{"soroswap", "phoenix"}, {"aquarius"}, {"comet"}, {"clmm"}>>

\* The batches are written up to the first that fails.
DirectWrite ==
    /\ direct.pc = "choose"
    /\ direct.todo = {}
    /\ \E n \in 0..4 :
          /\ IF n = 4 THEN UNCHANGED failures ELSE Fail
          /\ store' = Over(store, Only(direct.values, {p \in Pools : \E i \in 1..n : venue[p] \in WriteBatches[i]}))
    /\ direct' = [direct EXCEPT !.pc = "share"]
    /\ UNCHANGED <<chain, adapters, shared, watcher, pipeline, sweeper, disc, dump, history>>

\* The clones become the shared sources and CLMM pools, whatever these are by now.
DirectShare ==
    /\ direct.pc = "share"
    /\ sources' = direct.sources
    /\ clmm' = direct.clmm
    /\ direct' = NoDirect
    /\ watcher' = [watcher EXCEPT !.pc = "idle"]
    /\ UNCHANGED <<chain, store, adapters, pipeline, sweeper, disc, dump, failures, history>>

-----------------------------------------------------------------------------
(* The fetch pipeline *)

\* The dispatcher hands a task to a free permit; a soroswap task clones the
\* sources before it reads the chain.  The task the dispatcher holds while it
\* waits for a permit counts as queued.
Take(w) ==
    /\ task[w].pc = "idle"
    /\ queue # <<>>
    /\ task' = [task EXCEPT ![w] = [NoTask EXCEPT !.pc = "fetch", !.venue = Head(queue).venue,
                                                  !.pools = Head(queue).pools, !.topology = sources]]
    /\ queue' = Tail(queue)
    /\ UNCHANGED <<chain, store, adapters, shared, watcher, direct, sink, sweeper, disc, dump, failures, history>>

Fetch(w) ==
    /\ task[w].pc = "fetch"
    /\ LET pools == ToRead(task[w].venue, task[w].pools)
       IN /\ task' = [task EXCEPT ![w].pc = "apply", ![w].values = OnChain(pools)]
          /\ Reads(pools)
    /\ UNCHANGED <<chain, store, adapters, shared, watcher, direct, queue, sink, sweeper, disc, dump, failures>>

\* A failed fetch is not retried (nor is a pool missing from a batch's answer).
FetchFails(w) ==
    /\ task[w].pc = "fetch"
    /\ ToRead(task[w].venue, task[w].pools) # {}
    /\ Fail
    /\ task' = [task EXCEPT ![w] = NoTask]
    /\ lost' = lost \cup task[w].pools
    /\ UNCHANGED <<chain, store, adapters, shared, watcher, direct, queue, sink, sweeper, disc, dump, read>>

\* A worker ends its task, or sends what it has.
SendOrEnd(t) == IF t.values = Nothing THEN NoTask ELSE [t EXCEPT !.pc = "send"]

ApplyFetched(w) ==
    /\ task[w].pc = "apply"
    /\ LET t == task[w]
       IN /\ cache' = Refreshed(t.venue, t.values)
          /\ LoadsTicks({p \in Pools : t.values[p] # None})
          /\ task' = [task EXCEPT ![w] = IF t.venue = "soroswap"
                                         THEN SendOrEnd([t EXCEPT !.values = Only(@, t.topology)])
                                         ELSE [t EXCEPT !.pc = "export"]]
    /\ UNCHANGED <<chain, store, shared, watcher, direct, queue, sink, sweeper, disc, dump, history>>

\* The other venues send what the cache holds by now: phoenix only pools of the
\* present topology, CLMM pools join the shared ones.
ExportFetched(w) ==
    /\ task[w].pc = "export"
    /\ LET t == task[w]
           values == Exports(IF t.venue = "phoenix" THEN t.pools \cap sources ELSE t.pools)
       IN /\ task' = [task EXCEPT ![w] = SendOrEnd([t EXCEPT !.values = values])]
          /\ clmm' = IF t.venue = "clmm" THEN Over(clmm, values) ELSE clmm
    /\ UNCHANGED <<chain, store, adapters, sources, watcher, direct, queue, sink, sweeper, disc, dump, failures,
                   history>>

\* Mistake: the newest update is put first.
SendFirst(w) ==
    /\ task[w].pc = "send"
    /\ sink' = <<task[w].values>> \o sink
    /\ task' = [task EXCEPT ![w] = NoTask]
    /\ UNCHANGED <<chain, store, adapters, shared, watcher, direct, queue, sweeper, disc, dump, failures, history>>

Send(w) ==
    /\ task[w].pc = "send"
    /\ sink' = Append(sink, task[w].values)
    /\ task' = [task EXCEPT ![w] = NoTask]
    /\ UNCHANGED <<chain, store, adapters, shared, watcher, direct, queue, sweeper, disc, dump, failures, history>>

\* The sink writes whatever comes, in the order it was sent.
SinkWrite ==
    /\ sink # <<>>
    /\ store' = Over(store, Head(sink))
    /\ sink' = Tail(sink)
    /\ UNCHANGED <<chain, adapters, shared, watcher, direct, queue, task, sweeper, disc, dump, failures, history>>

SinkFails ==
    /\ sink # <<>>
    /\ Fail
    /\ sink' = Tail(sink)
    /\ UNCHANGED <<chain, store, adapters, shared, watcher, direct, queue, task, sweeper, disc, dump, history>>

-----------------------------------------------------------------------------
(* The publish tick, without the pipeline: the caches and the shared CLMM pools *)
(* are written as they are.  Ticks are one after the other here.                *)

DumpStart ==
    /\ ~scenario.pipeline
    /\ "sweep" \in scenario.loops
    /\ dump.pc = "off"
    /\ dump' = [pc |-> "write", values |-> [p \in Pools |-> IF venue[p] = "clmm" THEN clmm[p] ELSE cache[p]]]
    /\ UNCHANGED <<chain, store, adapters, shared, watcher, direct, pipeline, sweeper, disc, failures, history>>

DumpWrite ==
    /\ dump.pc = "write"
    /\ \/ store' = Over(store, dump.values) /\ UNCHANGED failures
       \/ UNCHANGED store /\ Fail
    /\ dump' = NoDump
    /\ UNCHANGED <<chain, adapters, shared, watcher, direct, pipeline, sweeper, disc, history>>

-----------------------------------------------------------------------------
(* The periodic sweep: one at a time, its venues concurrently, CLMM after them *)

\* soroswap, aquarius and comet sweep the pools they have cached (comet its seeds
\* if it has none), phoenix asks its factory for all of them.  The refresh tick
\* starts a full sweep, the publish tick one without CLMM pools.
SweepStart(full) ==
    /\ "sweep" \in scenario.loops
    /\ full \/ ~scenario.pipeline
    /\ \A v \in Venues : sweep[v].pc = "off"
    /\ sweepBase' = [sources |-> sources, full |-> full]
    /\ sweep' = [v \in Venues |->
                    LET swept == Of(v) \cap Cached
                        todo == IF v = "phoenix" \/ (v = "comet" /\ swept = {}) THEN Of(v) ELSE swept
                    IN [NoSweep EXCEPT !.pc = IF v = "clmm" /\ full THEN "wait"
                                              ELSE IF v = "clmm" \/ todo = {} THEN "done" ELSE "read",
                                       !.todo = IF v = "clmm" THEN {} ELSE todo]]
    /\ UNCHANGED <<chain, store, adapters, shared, watcher, direct, pipeline, disc, dump, failures, history>>

\* write_through_clmm begins when the other venues are done.
SweepClmm ==
    /\ sweep["clmm"].pc = "wait"
    /\ \A v \in Venues \ {"clmm"} : sweep[v].pc = "done"
    /\ LET todo == Of("clmm") \cap Cached
       IN sweep' = [sweep EXCEPT !["clmm"].pc = IF todo = {} THEN "done" ELSE "read", !["clmm"].todo = todo]
    /\ UNCHANGED <<chain, store, adapters, shared, watcher, direct, pipeline, sweepBase, disc, dump, failures, history>>

\* What one read of the sweep is for.
Chunks(v) == IF v = "phoenix" THEN {Of(v)} ELSE {{p} : p \in sweep[v].todo}

SweepRead(v) ==
    /\ sweep[v].pc = "read"
    /\ \E chunk \in Chunks(v) :
          /\ sweep' = [sweep EXCEPT ![v] = [pc |-> "apply", todo |-> sweep[v].todo \ chunk,
                                            chunk |-> chunk, values |-> OnChain(chunk)]]
          /\ Reads(chunk)
    /\ UNCHANGED <<chain, store, adapters, shared, watcher, direct, pipeline, sweepBase, disc, dump, failures>>

\* An RPC error ends the sweep of soroswap and aquarius; the others go on with
\* what the cache has.
SweepReadFails(v) ==
    /\ sweep[v].pc = "read"
    /\ Fail
    /\ \E chunk \in Chunks(v) :
          sweep' = [sweep EXCEPT ![v] = IF v \in {"soroswap", "aquarius"} THEN [@ EXCEPT !.pc = "done"]
                                        ELSE [pc |-> IF v = "clmm" /\ @.todo # chunk THEN "read" ELSE "export",
                                              todo |-> @.todo \ chunk, chunk |-> chunk, values |-> Nothing]]
    /\ UNCHANGED <<chain, store, adapters, shared, watcher, direct, pipeline, sweepBase, disc, dump, history>>

\* The reads enter the cache.  A CLMM pool that left the ticks it has, and whose
\* ticks cannot be read again, is no longer covered; its venue is exported when
\* all its pools are refreshed.
SweepApply(v) ==
    /\ sweep[v].pc = "apply"
    /\ cache' = IF v = "phoenix" THEN Inserts(sweep[v].values)
                ELSE IF v = "clmm" THEN UpdatesCached(sweep[v].values)
                ELSE Refreshed(v, sweep[v].values)
    /\ \/ UNCHANGED <<covered, failures>>
       \/ v = "clmm" /\ covered' = covered \ sweep[v].chunk /\ Fail
    /\ sweep' = [sweep EXCEPT ![v].pc = IF v = "clmm" /\ sweep[v].todo # {} THEN "read" ELSE "export"]
    /\ UNCHANGED <<chain, store, shared, watcher, direct, pipeline, sweepBase, disc, dump, history>>

NextChunk(s) == IF s.todo = {} THEN [s EXCEPT !.pc = "done"] ELSE [s EXCEPT !.pc = "read"]

SweepExport(v) ==
    /\ sweep[v].pc = "export"
    /\ LET s == [sweep[v] EXCEPT !.values = Exports(IF v = "clmm" THEN Of(v) ELSE sweep[v].chunk)]
       IN sweep' = [sweep EXCEPT ![v] = IF v = "phoenix" THEN [s EXCEPT !.pc = "delete"]
                                        ELSE IF s.values = Nothing THEN NextChunk(s)
                                        ELSE [s EXCEPT !.pc = "write"]]
    /\ UNCHANGED <<chain, store, adapters, shared, watcher, direct, pipeline, sweepBase, disc, dump, failures, history>>

\* replace_xyk_source deletes every key of the venue, then writes the values.
SweepDelete(v) ==
    /\ sweep[v].pc = "delete"
    /\ store' = [p \in Pools |-> IF p \in Of(v) THEN None ELSE store[p]]
    /\ sweep' = [sweep EXCEPT ![v].pc = "write"]
    /\ UNCHANGED <<chain, adapters, shared, watcher, direct, pipeline, sweepBase, disc, dump, failures, history>>

SweepWrite(v) ==
    /\ sweep[v].pc = "write"
    /\ store' = Over(store, sweep[v].values)
    /\ sweep' = [sweep EXCEPT ![v] = NextChunk(@)]
    /\ UNCHANGED <<chain, adapters, shared, watcher, direct, pipeline, sweepBase, disc, dump, failures, history>>

SweepWriteFails(v) ==
    /\ sweep[v].pc \in {"delete", "write"}
    /\ Fail
    /\ sweep' = [sweep EXCEPT ![v].pc = "done"]
    /\ UNCHANGED <<chain, store, adapters, shared, watcher, direct, pipeline, sweepBase, disc, dump, history>>

\* Mistake: the sources cloned at the start are written back as they were.
SweepRestores ==
    /\ \A v \in Venues : sweep[v].pc = "done"
    /\ sources' = sweepBase.sources
    /\ clmm' = IF sweepBase.full THEN Exports(Of("clmm")) ELSE clmm
    /\ sweep' = [v \in Venues |-> NoSweep]
    /\ sweepBase' = NoBase
    /\ UNCHANGED <<chain, store, adapters, watcher, direct, pipeline, disc, dump, failures, history>>

\* The sources cloned at the start, each venue replaced by what its cache holds
\* if it holds anything, become the shared sources; after a full sweep the CLMM
\* pools are exported into the shared ones.
SweepEnd ==
    /\ \A v \in Venues : sweep[v].pc = "done"
    /\ sources' = Cached \cup {p \in sweepBase.sources : Of(venue[p]) \cap Cached = {}}
    /\ clmm' = IF sweepBase.full THEN Exports(Of("clmm")) ELSE clmm
    /\ sweep' = [v \in Venues |-> NoSweep]
    /\ sweepBase' = NoBase
    /\ UNCHANGED <<chain, store, adapters, watcher, direct, pipeline, disc, dump, failures, history>>

-----------------------------------------------------------------------------
(* Discovery *)

DiscStart ==
    /\ "discovery" \in scenario.loops
    /\ disc.pc = "off"
    /\ disc' = [NoDisc EXCEPT !.pc = "collect", !.reading = {venue[p] : p \in Pools}]
    /\ UNCHANGED <<chain, store, adapters, shared, watcher, direct, pipeline, sweeper, dump, failures, history>>

\* get_trading_pairs of one adapter reads the chain; what it cannot read costs a
\* failure.
DiscRead(v) ==
    /\ v \in disc.reading
    /\ \E found, readable, unticked \in SUBSET Of(v) :
          /\ Finds(v, found, readable)
          /\ unticked \subseteq readable /\ (v # "clmm" => unticked = {})
          /\ IF readable = Of(v) /\ unticked = {} THEN UNCHANGED failures ELSE Fail
          /\ disc' = [disc EXCEPT !.reading = @ \ {v}, !.applying = @ \cup {v}, !.found = @ \cup found,
                                  !.unticked = @ \cup unticked, !.values = Over(@, OnChain(readable))]
          /\ Reads(readable)
    /\ UNCHANGED <<chain, store, adapters, shared, watcher, direct, pipeline, sweeper, dump>>

\* discover_adapter_source drops an adapter that fails.
DiscReadFails(v) ==
    /\ v \in disc.reading
    /\ Fail
    /\ disc' = [disc EXCEPT !.reading = @ \ {v}]
    /\ UNCHANGED <<chain, store, adapters, shared, watcher, direct, pipeline, sweeper, dump, history>>

\* The adapter replaces its cache by what it read.
DiscApply(v) ==
    /\ v \in disc.applying
    /\ cache' = [p \in Pools |-> IF p \in Of(v) THEN disc.values[p] ELSE cache[p]]
    /\ covered' = IF v = "clmm" THEN {p \in Of(v) : disc.values[p] # None} \ disc.unticked ELSE covered
    /\ disc' = [disc EXCEPT !.applying = @ \ {v}]
    /\ UNCHANGED <<chain, store, shared, watcher, direct, pipeline, sweeper, dump, failures, history>>

\* The pools that were found become the shared sources, the CLMM pools exported
\* now the shared CLMM pools.
DiscShare ==
    /\ disc.pc = "collect"
    /\ disc.reading = {} /\ disc.applying = {}
    /\ sources' = disc.found
    /\ clmm' = Exports(Of("clmm"))
    /\ disc' = [disc EXCEPT !.pc = "export", !.clmm = Exports(Of("clmm"))]
    /\ UNCHANGED <<chain, store, adapters, watcher, direct, pipeline, sweeper, dump, failures, history>>

\* publish_pool_state_only: collect every cache, then write it all.
DiscExport ==
    /\ disc.pc = "export"
    /\ disc' = [disc EXCEPT !.pc = "write",
                            !.values = [p \in Pools |-> IF venue[p] = "clmm" THEN disc.clmm[p] ELSE cache[p]]]
    /\ UNCHANGED <<chain, store, adapters, shared, watcher, direct, pipeline, sweeper, dump, failures, history>>

DiscWrite ==
    /\ disc.pc = "write"
    /\ store' = Over(store, disc.values)
    /\ disc' = NoDisc
    /\ UNCHANGED <<chain, adapters, shared, watcher, direct, pipeline, sweeper, dump, failures, history>>

DiscWriteFails ==
    /\ disc.pc = "write"
    /\ Fail
    /\ disc' = NoDisc
    /\ UNCHANGED <<chain, store, adapters, shared, watcher, direct, pipeline, sweeper, dump, history>>

-----------------------------------------------------------------------------

Watch == PollBegin \/ PollEvents \/ PollFails \/ DirectStart \/ DirectApply \/ DirectExport \/ DirectWrite \/ DirectShare
            \/ \E v \in Venues : DirectRead(v) \/ DirectReadFails(v)
Work(w) == Take(w) \/ Fetch(w) \/ FetchFails(w) \/ ApplyFetched(w) \/ ExportFetched(w) \/ Send(w)
Write == SinkWrite \/ SinkFails
Publish == DumpStart \/ DumpWrite
SweepTick == \E full \in BOOLEAN : SweepStart(full)
SweepVenue(v) ==
    \/ SweepRead(v) \/ SweepReadFails(v) \/ SweepApply(v) \/ SweepExport(v)
    \/ SweepDelete(v) \/ SweepWrite(v) \/ SweepWriteFails(v)
DiscVenue(v) == DiscRead(v) \/ DiscReadFails(v) \/ DiscApply(v)
Discover == DiscStart \/ DiscShare \/ DiscExport \/ DiscWrite \/ DiscWriteFails

Next ==
    \/ \E pools \in SUBSET Pools : CloseLedger(pools)
    \/ Watch
    \/ \E w \in Workers : Work(w)
    \/ Write
    \/ Publish
    \/ SweepTick \/ SweepClmm \/ SweepEnd
    \/ \E v \in Venues : SweepVenue(v) \/ DiscVenue(v)
    \/ Discover

\* Every loop of the worker keeps running: the intervals tick, spawned tasks
\* are scheduled, and a call returns, one way or the other.  Which tick starts the
\* sweep is open: without the pipeline the publish ticks may always come first.
Fairness ==
    /\ WF_vars(Watch) /\ WF_vars(Write) /\ WF_vars(Publish)
    /\ \A w \in Workers : WF_vars(Work(w))
    /\ WF_vars(SweepTick) /\ WF_vars(SweepClmm) /\ WF_vars(SweepEnd)
    /\ \A v \in Venues : WF_vars(SweepVenue(v)) /\ WF_vars(DiscVenue(v))
    /\ WF_vars(Discover)

Spec == Init /\ [][Next]_vars
FairSpec == Spec /\ Fairness

-----------------------------------------------------------------------------
(* Properties *)

\* A touch of the pool is followed by a read of it: until then it is ahead of the
\* watcher, queued, about to be fetched, or was given up.
Followed(p) ==
    LastTouch(p) > read[p] =>
        \/ LastTouch(p) > watcher.last
        \/ \E i \in DOMAIN queue : p \in queue[i].pools
        \/ \E w \in Workers : task[w].pc = "fetch" /\ p \in task[w].pools
        \/ direct.pc \in {"choose", "apply", "export"} /\ p \in direct.pools /\ venue[p] \in direct.todo
        \/ p \in lost

\* Every touch of a reserve pool is followed by a read, unless it was given up for
\* one of the reasons the code logs: an unknown pool, a truncated backlog, a full
\* queue, too many pools or a failed fetch (ledger_watcher.rs, fetch_pipeline.rs
\* and touched_refresh.rs).
TouchesAreFollowed == \A p \in Pools \ Of("clmm") : Followed(p)

\* The same of CLMM pools (the ledger watcher of docs/pool-state-architecture.md).
ClmmTouchesAreFollowed == \A p \in Of("clmm") : Followed(p)

\* As long as neither sweep nor discovery write, the stored state of a pool never
\* goes back to an older one (fetch_pipeline.rs, touched_refresh.rs).
StoreNeverGoesBack ==
    [][scenario.loops = {} =>
          \A p \in Pools : store[p] # None /\ store'[p] # None => store'[p] >= store[p]]_vars

\* A chunk the sweep writes never overwrites newer state (the comment on
\* WRITE_THROUGH_CHUNK in pool_state_write_through.rs).
SweepKeepsNewerState ==
    [][\A v \in Venues : SweepWrite(v) => \A p \in Pools : store'[p] >= store[p]]_vars

\* With discovery running, once the chain is quiet the store ends on its
\* state and the pools of a venue that a failing discovery dropped are known
\* again, whatever was lost, dropped or overwritten before (worker.rs).
CaughtUp ==
    /\ known = Pools
    /\ \A p \in Pools : store[p] = LastTouch(p) \/ (venue[p] = "phoenix" /\ sweep["phoenix"].pc = "write")
StoreCatchesUp == "discovery" \in scenario.loops => <>[]CaughtUp

\* A pool with known-good state keeps some, outside of a replacement in progress
\* (docs/pool-state-architecture.md on pool keys).
KnownGoodStays ==
    (\A p \in Pools : store[p] # None)
        => [](\A p \in Pools : store[p] # None \/ sweep["phoenix"].pc = "write")
=============================================================================

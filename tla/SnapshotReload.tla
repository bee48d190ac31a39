---------------------------- MODULE SnapshotReload ----------------------------
(***************************************************************************)
(* How a routing graph travels from the market-data worker to the API: the *)
(* worker's discovery and metadata-enrichment tasks publish versioned      *)
(* snapshots (crates/market-data-worker/src/worker.rs), the snapshot store *)
(* keeps the latest few and announces each one                             *)
(* (crates/market-snapshot/src/store.rs), a listener forwards the          *)
(* announcements, and the API's reloader installs what it loads            *)
(* (crates/api-server/src/state.rs).                                       *)
(*                                                                         *)
(* Two deployments are modelled: "redis" (a Lua script publishes, pub/sub  *)
(* announces, the connection may drop) and "memory" (the embedded mode,    *)
(* one process, a watch channel).  A snapshot is its version, which is the *)
(* millisecond it was built at, and the topology it carries, numbered in   *)
(* the order the discoveries completed.  Token metadata is left out.       *)
(*                                                                         *)
(* `published` and `missed` are history: the order of publications, and    *)
(* whether an announcement or a load was lost since the last look at the   *)
(* store.                                                                  *)
(***************************************************************************)
EXTENDS Naturals, Sequences, SequencesExt

CONSTANTS
    Backends,        \* the stores deployments run with, "redis" or "memory"
    KeepLatest,      \* SNAPSHOT_REDIS_KEEP_LATEST
    MaxDiscoveries,  \* bound: discovery rounds
    MaxDrops,        \* bound: pub/sub connections lost
    MaxErrors        \* bound: loads that fail for another reason

ASSUME ReloadAssumption ==
    /\ Backends \subseteq {"redis", "memory"} /\ Backends # {}
    /\ KeepLatest \in Nat \ {0}
    /\ {MaxDiscoveries, MaxDrops, MaxErrors} \subseteq Nat

VARIABLES
    backend,    \* SnapshotStoreBackend of this deployment
    jobs,       \* the worker's task for each topology: discovery, then enrichment
    clock,      \* the milliseconds versions are named after
    current,    \* the store's current version, 0 before any
    data,       \* what the store holds under each version
    versions,   \* the store's list of retained versions, oldest first
    published,  \* history: every version published, in order
    listening,  \* the listener is subscribed
    wire,       \* announcements the listener has not forwarded
    events,     \* SnapshotListenerEvents the reloader has not received
    mode,       \* SnapshotReloadMode
    reader,     \* where the reloader is, and the version it read
    served,     \* the snapshot the API answers from, version 0 before any
    missed,     \* history: something was lost since the reloader last looked
    drops, errors

workerVars == <<jobs, clock>>
storeVars == <<backend, current, data, versions, published>>
listenVars == <<listening, wire, drops>>
readerVars == <<mode, reader, served, errors>>
vars == <<workerVars, storeVars, listenVars, events, readerVars, missed>>

Topologies == 1..MaxDiscoveries
\* each topology is built once by its discovery and once by its enrichment
Versions == 1..(2 * MaxDiscoveries)
Healthy == "healthy"
Degraded == "degraded"

TypeOK ==
    /\ backend \in Backends
    /\ jobs \in [Topologies -> [stage: {"none", "collected", "built", "stored", "published", "done"},
                                version: {0} \cup Versions, enriched: BOOLEAN]]
    /\ clock \in {0} \cup Versions
    /\ current \in {0} \cup Versions
    /\ data \in [Versions -> {0} \cup Topologies]
    /\ versions \in Seq(Versions)
    /\ published \in Seq(Versions)
    /\ listening \in BOOLEAN
    /\ wire \in Seq(Versions)
    /\ events \in Seq([kind: {Healthy, Degraded, "version"}, version: {0} \cup Versions])
    /\ mode \in {"PollingFallback", "PubSubHealthy"}
    /\ reader \in [pc: {"wait", "load", "data"}, version: {0} \cup Versions]
    /\ served \in [version: {0} \cup Versions, topology: {0} \cup Topologies]
    /\ missed \in BOOLEAN
    /\ drops \in 0..MaxDrops
    /\ errors \in 0..MaxErrors

Init ==
    /\ jobs = [t \in Topologies |-> [stage |-> "none", version |-> 0, enriched |-> FALSE]]
    /\ clock = 0
    /\ current = 0
    /\ data = [v \in Versions |-> 0]
    /\ versions = <<>>
    /\ published = <<>>
    /\ wire = <<>>
    /\ backend \in Backends
    /\ listening = (backend = "memory")
    /\ events = IF backend = "memory" THEN <<[kind |-> Healthy, version |-> 0]>> ELSE <<>>
    /\ mode = "PollingFallback"
    /\ reader = [pc |-> "load", version |-> 0]
    /\ served = [version |-> 0, topology |-> 0]
    /\ missed = FALSE
    /\ drops = 0
    /\ errors = 0

-----------------------------------------------------------------------------
(* The store *)

\* Mistake: only the new version is kept.
KeepsOnlyNewest(version) == <<version>>

\* The versions the publish script keeps: the list, which has no version twice,
\* without an earlier mention of this version, then this version, the oldest
\* dropped beyond KeepLatest.
Retained(version) ==
    LET all == Append(RemoveFirst(versions, version), version)
        first == IF Len(all) > KeepLatest THEN Len(all) - KeepLatest + 1 ELSE 1
    IN SubSeq(all, first, Len(all))

\* The Lua script: store, switch, announce and delete the stale versions, atomically.
PublishRedis(version, topology) ==
    LET kept == Retained(version)
        stale == ToSet(versions) \ ToSet(kept)
    IN /\ data' = [v \in Versions |-> IF v = version THEN topology
                                   ELSE IF v \in stale THEN 0 ELSE data[v]]
       /\ current' = version
       /\ versions' = kept
       /\ UNCHANGED backend
       /\ published' = Append(published, version)
       /\ wire' = IF listening THEN Append(wire, version) ELSE wire
       /\ missed' = (missed \/ ~listening)

\* MemorySnapshotStore.publish_snapshot writes the snapshot, then the watch value.
StoreMemory(version, topology) ==
    /\ data' = [v \in Versions |-> IF v = version THEN topology ELSE 0]
    /\ current' = version
    /\ versions' = <<version>>
    /\ published' = Append(published, version)
    /\ UNCHANGED <<backend, wire, missed>>

-----------------------------------------------------------------------------
(* The worker: one discovery task per round, which spawns its enrichment *)

\* collect_sources_from_discovery completes and replaces the shared sources.
Collect(t) ==
    /\ jobs[t].stage = "none"
    /\ \A u \in 1..(t - 1) : jobs[u].stage # "none"
    /\ jobs' = [jobs EXCEPT ![t].stage = "collected"]
    /\ UNCHANGED <<clock, storeVars, listenVars, events, readerVars, missed>>

\* build_topology_snapshot names the snapshot after the current millisecond.
Build(t) ==
    /\ jobs[t].stage = "collected"
    /\ clock' = clock + 1
    /\ jobs' = [jobs EXCEPT ![t].stage = "built", ![t].version = clock + 1]
    /\ UNCHANGED <<storeVars, listenVars, events, readerVars, missed>>

\* spawn_token_metadata_enrichment: the same topology under a new version.
Enrich(t) ==
    /\ jobs[t].stage = "published"
    /\ clock' = clock + 1
    /\ jobs' = [jobs EXCEPT ![t] = [stage |-> "built", version |-> clock + 1, enriched |-> TRUE]]
    /\ UNCHANGED <<storeVars, listenVars, events, readerVars, missed>>

AfterPublish(t) == IF jobs[t].enriched THEN "done" ELSE "published"

Publish(t) ==
    /\ jobs[t].stage = "built"
    /\ \/ /\ backend = "redis"
          /\ PublishRedis(jobs[t].version, t)
          /\ jobs' = [jobs EXCEPT ![t].stage = AfterPublish(t)]
       \/ /\ backend = "memory"
          /\ StoreMemory(jobs[t].version, t)
          /\ jobs' = [jobs EXCEPT ![t].stage = "stored"]
    /\ UNCHANGED <<clock, listening, drops, events, readerVars>>

\* version_tx.send_replace: the watch keeps only the latest value, which hides
\* the current version's announcement if another task published in between.
Announce(t) ==
    /\ jobs[t].stage = "stored"
    /\ wire' = <<jobs[t].version>>
    /\ missed' = (missed \/ jobs[t].version # current)
    /\ jobs' = [jobs EXCEPT ![t].stage = AfterPublish(t)]
    /\ UNCHANGED <<clock, storeVars, listening, drops, events, readerVars>>

\* The publication fails: the task gives up, without enrichment.
PublishFails(t) ==
    /\ jobs[t].stage = "built"
    /\ backend = "redis"
    /\ jobs' = [jobs EXCEPT ![t].stage = "done"]
    /\ UNCHANGED <<clock, storeVars, listenVars, events, readerVars, missed>>

-----------------------------------------------------------------------------
(* The listener *)

Event(kind, version) == [kind |-> kind, version |-> version]

\* get_async_pubsub and subscribe succeed.
Subscribe ==
    /\ ~listening
    /\ listening' = TRUE
    /\ events' = Append(events, Event(Healthy, 0))
    /\ UNCHANGED <<workerVars, storeVars, wire, drops, readerVars, missed>>

Forward ==
    /\ wire # <<>>
    /\ events' = Append(events, Event("version", Head(wire)))
    /\ wire' = Tail(wire)
    /\ UNCHANGED <<workerVars, storeVars, listening, drops, readerVars, missed>>

\* The pub/sub stream ends: what was in flight is gone.
Drop ==
    /\ backend = "redis"
    /\ listening
    /\ drops < MaxDrops
    /\ drops' = drops + 1
    /\ listening' = FALSE
    /\ wire' = <<>>
    /\ missed' = (missed \/ wire # <<>>)
    /\ events' = Append(events, Event(Degraded, 0))
    /\ UNCHANGED <<workerVars, storeVars, readerVars>>

-----------------------------------------------------------------------------
(* The reloader *)

ReloadModeUsesPolling == mode # "PubSubHealthy"

\* next_snapshot_reload_mode; PollingOnly is the mode without a listener.
NextMode(kind) ==
    CASE kind = Healthy -> "PubSubHealthy"
      [] kind = Degraded -> "PollingFallback"
      [] OTHER -> mode

\* Mistake: reload only when nothing is served yet.
ReloadsOnce(version) == served.version = 0

\* should_reload_snapshot_version
ShouldReload(version) == served.version # version

PollTick ==
    /\ reader.pc = "wait"
    /\ ReloadModeUsesPolling
    /\ reader' = [reader EXCEPT !.pc = "load"]
    /\ UNCHANGED <<workerVars, storeVars, listenVars, events, mode, served, errors, missed>>

\* Mistake: the announced version is fetched, not the current one.
FetchAnnounced ==
    /\ reader.pc = "wait"
    /\ events # <<>>
    /\ LET e == Head(events)
       IN /\ mode' = NextMode(e.kind)
          /\ reader' = IF e.kind = "version" /\ ShouldReload(e.version)
                       THEN [pc |-> "data", version |-> e.version]
                       ELSE reader
    /\ events' = Tail(events)
    /\ UNCHANGED <<workerVars, storeVars, listenVars, served, errors, missed>>

ReceiveEvent ==
    /\ reader.pc = "wait"
    /\ events # <<>>
    /\ LET e == Head(events)
       IN /\ mode' = NextMode(e.kind)
          /\ reader' = IF e.kind = "version" /\ ShouldReload(e.version)
                       THEN [reader EXCEPT !.pc = "load"]
                       ELSE reader
    /\ events' = Tail(events)
    /\ UNCHANGED <<workerVars, storeVars, listenVars, served, errors, missed>>

\* What the reloader does with a loaded snapshot.
Install(version) ==
    /\ served' = IF ShouldReload(version)
                 THEN [version |-> version, topology |-> data[version]]
                 ELSE served
    /\ reader' = [pc |-> "wait", version |-> 0]

\* GET current; the in-memory store hands the snapshot over at once.
LoadCurrent ==
    /\ reader.pc = "load"
    /\ missed' = FALSE
    /\ \/ /\ current = 0
          /\ reader' = [reader EXCEPT !.pc = "wait"]
          /\ UNCHANGED served
       \/ /\ current # 0
          /\ backend = "redis"
          /\ reader' = [pc |-> "data", version |-> current]
          /\ UNCHANGED served
       \/ /\ current # 0
          /\ backend = "memory"
          /\ Install(current)
    /\ UNCHANGED <<workerVars, storeVars, listenVars, events, mode, errors>>

\* GET data:{version}; the version may have been retired in between.
LoadData ==
    /\ reader.pc = "data"
    /\ \/ /\ data[reader.version] # 0
          /\ Install(reader.version)
          /\ UNCHANGED missed
       \/ /\ data[reader.version] = 0
          /\ reader' = [pc |-> "wait", version |-> 0]
          /\ missed' = TRUE
          /\ UNCHANGED served
    /\ UNCHANGED <<workerVars, storeVars, listenVars, events, mode, errors>>

\* A load that fails on the network, or an engine that cannot be built from it.
LoadError ==
    /\ reader.pc \in {"load", "data"}
    /\ backend = "redis"
    /\ errors < MaxErrors
    /\ errors' = errors + 1
    /\ reader' = [pc |-> "wait", version |-> 0]
    /\ missed' = TRUE
    /\ UNCHANGED <<workerVars, storeVars, listenVars, events, mode, served>>

-----------------------------------------------------------------------------

Worker == \E t \in Topologies : Collect(t) \/ Build(t) \/ Enrich(t) \/ Publish(t) \/ Announce(t) \/ PublishFails(t)
Listener == Subscribe \/ Forward \/ Drop
Reloader == PollTick \/ ReceiveEvent \/ LoadCurrent \/ LoadData \/ LoadError

Next == Worker \/ Listener \/ Reloader

\* The listener reconnects for ever, the reloader never stops its loop, and in
\* a polling mode its interval keeps ticking; a started publication ends.
Fairness ==
    /\ WF_vars(Subscribe) /\ WF_vars(Forward)
    /\ WF_vars(PollTick) /\ WF_vars(ReceiveEvent) /\ WF_vars(LoadCurrent) /\ WF_vars(LoadData)
    /\ \A t \in Topologies : WF_vars(Announce(t))

Spec == Init /\ [][Next]_vars
FairSpec == Spec /\ Fairness

-----------------------------------------------------------------------------
(* Properties *)

Position(version) == CHOOSE i \in DOMAIN published : published[i] = version

\* A load between its two reads finds its version gone only if at least
\* KeepLatest publications overtook it (load_current_snapshot in store.rs).
LoadFailsOnlyWhenOutrun ==
    reader.pc = "data" /\ data[reader.version] = 0
        => Len(published) - Position(reader.version) >= KeepLatest

\* The API never goes back to a snapshot published before the one it serves
\* (the reload loop of state.rs).
ServedMovesForward ==
    [][served' # served /\ served.version # 0
          => Position(served'.version) > Position(served.version)]_vars

\* Once the worker falls silent the API ends on the current snapshot, unless an
\* announcement or a load was lost and nothing was published since.
CurrentUnlessMissed == <>[](served.version = current \/ missed)

\* Once the worker falls silent the API ends on the current snapshot, whatever
\* was lost (the polling fallback of state.rs).
PublishedIsServed == <>[](served.version = current)

\* Republishing after metadata enrichment changes the metadata only: the
\* current topology stays (spawn_token_metadata_enrichment in worker.rs).
EnrichmentKeepsTopology ==
    [][\A t \in Topologies :
          jobs[t].enriched /\ Publish(t) => data'[current'] = data[current]]_vars

=============================================================================

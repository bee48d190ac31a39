-------------------------- MODULE PoolRefreshProofs --------------------------
(***************************************************************************)
(* Proofs about the writers of the pool state, for any pools and venues,   *)
(* any number of workers, any bounds of queue, catch-up and batch, and any *)
(* number of ledgers and failures.                                         *)
(*                                                                         *)
(* TouchesAreFollowed.  A pool that was touched after it was last read is  *)
(* ahead of the watcher, or in hand (InHand): queued, about to be fetched, *)
(* waiting in the watcher's own refresh, or given up.  A poll hands over   *)
(* all it passes (PollHandsOver), since its events are those after the     *)
(* last poll or the latest of them (WatcherOK), every touched pool is in   *)
(* some task (TasksAre) and the tasks that do not fit are given up.  What  *)
(* is in hand stays there until it is read (InHandStays), as a task is     *)
(* about pools of its venue only (Matched), and a read is of the pool as   *)
(* it is now.                                                              *)
(*                                                                         *)
(* StoreNeverGoesBack, for one worker.  While neither sweep nor discovery  *)
(* run, what is on its way to the store is in the order in which it will   *)
(* be written (Ordered): the store, then the sink's updates one after the  *)
(* other, then what the worker fetched; for venues whose updates come from *)
(* the cache, the cache is at least as new as all of them (CacheLeads).    *)
(* That holds because a new value is read from the chain, and nothing is   *)
(* newer than the chain (AllReal).  With two workers the first of two      *)
(* reads may be sent last.                                                 *)
(***************************************************************************)
EXTENDS PoolRefresh, FiniteSetTheorems, TLAPS

-----------------------------------------------------------------------------
(***************************************************************************)
(* The last touch of a pool                                                *)
(***************************************************************************)

LEMMA LeastNumber ==
  ASSUME NEW S, S \subseteq Nat, S # {}
  PROVE \E n \in S : \A m \in S : n <= m
<1> DEFINE T == {1 .. n : n \in S}
<1>1. IsWellFoundedOn(StrictSubsetOrdering(Nat), FiniteSubsetsOf(Nat))
  BY FS_StrictSubsetOrderingWellFounded
<1>2. T \subseteq FiniteSubsetsOf(Nat) /\ T # {}
  <2>1. ASSUME NEW n \in S PROVE 1 .. n \subseteq Nat /\ IsFiniteSet(1 .. n)
    BY FS_Interval
  <2> QED BY <2>1 DEF FiniteSubsetsOf
<1>3. PICK x \in T : \A y \in T : <<y, x>> \notin StrictSubsetOrdering(Nat)
  <2> HIDE DEF T
  <2> QED BY <1>1, <1>2, WFMin
<1>4. PICK n \in S : x = 1 .. n
  OBVIOUS
<1>5. ASSUME NEW m \in S, ~ n <= m PROVE FALSE
  <2>1. 1 .. m \subseteq 1 .. n /\ n \in 1 .. n /\ n \notin 1 .. m
    BY <1>5
  <2>2. 1 .. m \subseteq Nat /\ 1 .. n \subseteq Nat
    OBVIOUS
  <2>3. <<1 .. m, x>> \in StrictSubsetOrdering(Nat)
    BY <1>4, <2>1, <2>2 DEF StrictSubsetOrdering
  <2>4. 1 .. m \in T
    BY <1>5
  <2> QED BY <1>3, <2>3, <2>4
<1> QED BY <1>5

TouchOf(e, p) ==
  CHOOSE l \in 0 .. Len(e) : (l = 0 \/ p \in e[l]) /\ p \notin UNION {e[k] : k \in (l + 1) .. Len(e)}

LEMMA TouchOfIs ==
  ASSUME NEW P, NEW e \in Seq(SUBSET P), NEW p
  PROVE /\ TouchOf(e, p) \in 0 .. Len(e)
        /\ TouchOf(e, p) = 0 \/ p \in e[TouchOf(e, p)]
        /\ \A l \in 1 .. Len(e) : p \in e[l] => l <= TouchOf(e, p)
<1> DEFINE L == {l \in 0 .. Len(e) : l = 0 \/ p \in e[l]}
           D == {Len(e) - l : l \in L}
           Good(l) == (l = 0 \/ p \in e[l]) /\ p \notin UNION {e[k] : k \in (l + 1) .. Len(e)}
<1>1. Len(e) \in Nat
  OBVIOUS
<1>2. PICK d \in D : \A k \in D : d <= k
  <2>1. D \subseteq Nat
    BY <1>1
  <2>2. Len(e) - 0 \in D
    BY <1>1
  <2> HIDE DEF D
  <2> QED BY <2>1, <2>2, LeastNumber
<1>3. PICK l \in L : d = Len(e) - l
  OBVIOUS
<1>4. \A k \in L : k <= l
  <2>1. \A k \in L : Len(e) - k \in D /\ k \in Int
    BY <1>1
  <2> HIDE DEF D, L
  <2> QED BY <1>1, <1>2, <1>3, <2>1
<1>5. Good(l)
  <2>1. ASSUME NEW k \in (l + 1) .. Len(e), p \in e[k] PROVE FALSE
    BY <1>1, <1>4, <2>1
  <2> QED BY <2>1
<1>6. TouchOf(e, p) \in 0 .. Len(e) /\ Good(TouchOf(e, p))
  <2>1. TouchOf(e, p) = CHOOSE k \in 0 .. Len(e) : Good(k)
    BY DEF TouchOf
  <2> HIDE DEF Good
  <2> QED BY <1>5, <2>1
<1>7. ASSUME NEW k \in 1 .. Len(e), p \in e[k], ~ k <= TouchOf(e, p) PROVE FALSE
  <2>1. k \in (TouchOf(e, p) + 1) .. Len(e)
    BY <1>1, <1>6, <1>7
  <2> QED BY <1>6, <1>7, <2>1
<1> QED BY <1>6, <1>7

\* There is only one such ledger.
LEMMA TouchOfUnique ==
  ASSUME NEW P, NEW e \in Seq(SUBSET P), NEW p, NEW n \in 0 .. Len(e),
         n = 0 \/ p \in e[n],
         \A l \in 1 .. Len(e) : p \in e[l] => l <= n
  PROVE TouchOf(e, p) = n
<1>1. Len(e) \in Nat
  OBVIOUS
<1> DEFINE t == TouchOf(e, p)
<1>2. /\ t \in 0 .. Len(e) /\ (t = 0 \/ p \in e[t])
      /\ \A l \in 1 .. Len(e) : p \in e[l] => l <= t
  BY TouchOfIs
<1> HIDE DEF t
<1>3. t <= n /\ n <= t
  BY <1>1, <1>2
<1> QED BY <1>1, <1>2, <1>3 DEF t

LEMMA LastTouchIs ==
  ASSUME events \in Seq(SUBSET Pools), NEW p \in Pools
  PROVE /\ LastTouch(p) \in 0 .. ledger
        /\ LastTouch(p) = 0 \/ p \in events[LastTouch(p)]
        /\ \A l \in 1 .. ledger : p \in events[l] => l <= LastTouch(p)
<1>1. LastTouch(p) = TouchOf(events, p)
  BY DEF LastTouch, TouchOf, TouchedIn, ledger
<1> QED BY <1>1, TouchOfIs DEF ledger

\* The ledger that closes is the last touch of the pools in it.
LEMMA TouchMoves ==
  ASSUME events \in Seq(SUBSET Pools), NEW pools \in SUBSET Pools, NEW p \in Pools,
         events' = Append(events, pools)
  PROVE LastTouch(p)' = IF p \in pools THEN ledger + 1 ELSE LastTouch(p)
<1> DEFINE n == IF p \in pools THEN ledger + 1 ELSE LastTouch(p)
<1>1. LastTouch(p)' = TouchOf(events', p) /\ ledger' = ledger + 1 /\ ledger \in Nat
  BY DEF LastTouch, TouchOf, TouchedIn, ledger
<1>2. /\ events' \in Seq(SUBSET Pools) /\ Len(events') = ledger + 1
      /\ events'[ledger + 1] = pools /\ \A l \in 1 .. ledger : events'[l] = events[l]
  BY DEF ledger
<1>3. n \in 0 .. Len(events') /\ (n = 0 \/ p \in events'[n])
  BY <1>1, <1>2, LastTouchIs
<1>4. \A l \in 1 .. Len(events') : p \in events'[l] => l <= n
  BY <1>1, <1>2, LastTouchIs
<1> HIDE DEF n
<1>5. TouchOf(events', p) = n
  BY <1>2, <1>3, <1>4, TouchOfUnique
<1> QED BY <1>1, <1>5 DEF n

-----------------------------------------------------------------------------
(***************************************************************************)
(* Types                                                                   *)
(***************************************************************************)

\* Tasks and what they read are about pools of their own venue.
OfOneVenue(x) == \A p \in x.pools : venue[p] = x.venue
TaskOK(t) == OfOneVenue(t) /\ (t.pc = "apply" => \A p \in Pools : t.values[p] # None => p \in t.pools)
Matched ==
    /\ \A i \in DOMAIN queue : OfOneVenue(queue[i])
    /\ \A w \in Workers : TaskOK(task[w])

\* A poll is about the ledgers after the last one, or the latest of them, and the
\* watcher refreshes pools itself exactly while it is not idle or polling.
WatcherOK ==
    /\ watcher.last <= ledger /\ watcher.to <= ledger
    /\ watcher.pc = "polling" =>
          /\ watcher.last < watcher.to
          /\ watcher.from = IF watcher.to - watcher.last > MaxCatchup
                              THEN watcher.to - MaxCatchup + 1 ELSE watcher.last + 1
    /\ direct.pc # "off" => watcher.pc = "refreshing"

Sane == TypeOK /\ Matched /\ WatcherOK

\* The pool is about to be fetched, or its touch was given up.
InHand(p) ==
    \/ \E i \in DOMAIN queue : p \in queue[i].pools
    \/ \E w \in Workers : task[w].pc = "fetch" /\ p \in task[w].pools
    \/ direct.pc \in {"choose", "apply", "export"} /\ p \in direct.pools /\ venue[p] \in direct.todo
    \/ p \in lost

\* The constants of a deployment.
LEMMA Deployed ==
  ASSUME scenario \in Scenarios
  PROVE /\ venue \in [Pools -> Venues] /\ IsFiniteSet(Pools)
        /\ scenario.ledgers \in Nat /\ scenario.failures \in Nat
        /\ \A v : Of(v) \subseteq Pools
        /\ \A v, w : v # w => Of(v) \cap Of(w) = {}
BY RefreshAssumption DEF venue, Pools, Of

\* They stay.
LEMMA Fixed ==
  ASSUME UNCHANGED scenario
  PROVE /\ venue' = venue /\ Pools' = Pools /\ Ledgers' = Ledgers /\ Values' = Values
        /\ Nothing' = Nothing /\ \A v : Of(v)' = Of(v)
        /\ DirectStates' = DirectStates /\ Queued' = Queued /\ TaskStates' = TaskStates
        /\ SweepStates' = SweepStates /\ DiscStates' = DiscStates
        /\ WatcherStates' = WatcherStates
<1>1. venue' = venue /\ Pools' = Pools /\ Ledgers' = Ledgers
  BY DEF venue, Pools, Ledgers
<1>2. Values' = Values
  BY <1>1 DEF Values
<1> QED
  BY <1>1, <1>2 DEF Nothing, Of, DirectStates, Queued, TaskStates, SweepStates, DiscStates,
     WatcherStates

LEMMA ValuesAre ==
  ASSUME scenario \in Scenarios, events \in Seq(SUBSET Pools), ledger \in Ledgers
  PROVE /\ Nothing \in Values
        /\ \A u \in Values, v \in Values : Over(u, v) \in Values
        /\ \A S : \A u \in Values : Only(u, S) \in Values
        /\ \A S : OnChain(S) \in Values
        /\ \A S : cache \in Values => Exports(S) \in Values
        /\ \A p \in Pools : LastTouch(p) \in Ledgers
<1>1. \A p \in Pools : LastTouch(p) \in Ledgers
  <2>1. ledger \in Nat /\ scenario.ledgers \in Nat
    BY Deployed DEF ledger
  <2> QED BY <2>1, LastTouchIs DEF Ledgers
<1>2. \A S : OnChain(S) \in Values
  BY <1>1 DEF OnChain, Values
<1>3. \A u \in Values, v \in Values : Over(u, v) \in Values
  BY DEF Over, Values
<1>4. \A S : \A u \in Values : Only(u, S) \in Values
  BY DEF Only, Values
<1> QED BY <1>1, <1>2, <1>3, <1>4 DEF Nothing, Values, Exports

LEMMA Setting ==
  ASSUME Sane
  PROVE /\ scenario \in Scenarios /\ events \in Seq(SUBSET Pools) /\ ledger \in Ledgers
        /\ ledger \in Nat /\ DOMAIN events = 1 .. ledger
        /\ Nothing \in Values
        /\ \A u \in Values, v \in Values : Over(u, v) \in Values
        /\ \A S : \A u \in Values : Only(u, S) \in Values
        /\ \A S : OnChain(S) \in Values /\ Exports(S) \in Values
        /\ \A p \in Pools : LastTouch(p) \in Ledgers
        /\ venue \in [Pools -> Venues] /\ IsFiniteSet(Pools)
        /\ \A v : Of(v) \subseteq Pools
        /\ known \subseteq Pools /\ PolledPools \subseteq Pools /\ GivenUp \subseteq Pools
<1>1. scenario \in Scenarios /\ events \in Seq(SUBSET Pools) /\ ledger \in Ledgers
      /\ cache \in Values /\ sources \subseteq Pools /\ watcher \in WatcherStates
  BY DEF Sane, TypeOK, ChainTypes, StateTypes, WatchTypes
<1>2. \A v : Of(v) \subseteq Pools
  BY <1>1, Deployed
<1>3. known \subseteq Pools
  BY <1>1, <1>2 DEF known
<1>4. ledger \in Nat /\ DOMAIN events = 1 .. ledger /\ scenario.ledgers \in Nat
  BY <1>1, Deployed DEF ledger
<1>5. PolledPools \subseteq Pools
  BY <1>1 DEF PolledPools, WatcherStates
<1>6. GivenUp \subseteq Pools
  <2>1. watcher.last \in Nat /\ watcher.to \in Nat /\ watcher.to <= ledger
    BY <1>1, <1>4 DEF WatcherStates, Ledgers, Sane, WatcherOK
  <2>2. \A l \in 1 .. ledger : events[l] \subseteq Pools
    BY <1>1, <1>4
  <2>3. MaxCatchup \in Nat
    BY RefreshAssumption
  <2> QED BY <1>4, <2>1, <2>2, <2>3 DEF GivenUp, TouchedIn
<1> QED BY <1>1, <1>2, <1>3, <1>4, <1>5, <1>6, ValuesAre, Deployed

\* What holds in a sane state, as the next lemmas use it.
LEMMA KnownTypes ==
  ASSUME Sane
  PROVE /\ store \in Values /\ cache \in Values /\ clmm \in Values
        /\ covered \subseteq Of("clmm") \cap Cached /\ sources \subseteq Pools
        /\ watcher \in WatcherStates /\ direct \in DirectStates
        /\ queue \in Seq(Queued) /\ Len(queue) <= QueueCapacity
        /\ task \in [Workers -> TaskStates] /\ sink \in Seq(Values)
        /\ sweep \in [Venues -> SweepStates]
        /\ sweepBase \in [sources: SUBSET Pools, full: BOOLEAN]
        /\ disc \in DiscStates /\ dump \in [pc: {"off", "write"}, values: Values]
        /\ failures \in 0..scenario.failures /\ read \in [Pools -> Ledgers]
        /\ lost \subseteq Pools
BY DEF Sane, TypeOK, ChainTypes, StateTypes, WatchTypes, PipelineTypes, SweepTypes, DiscTypes,
   HistoryTypes

\* What has to hold in the next one.
LEMMA SameTypes ==
  ASSUME Sane, UNCHANGED scenario,
         UNCHANGED events \/ (events' \in Seq(SUBSET Pools) /\ Len(events') \in Ledgers),
         UNCHANGED store \/ (store' \in Values),
         UNCHANGED cache \/ (cache' \in Values),
         UNCHANGED clmm \/ (clmm' \in Values),
         UNCHANGED <<covered, cache>> \/ (covered' \subseteq Of("clmm") \cap Cached'),
         UNCHANGED sources \/ (sources' \subseteq Pools),
         UNCHANGED watcher \/ (watcher' \in WatcherStates),
         UNCHANGED direct \/ (direct' \in DirectStates),
         UNCHANGED queue \/ (queue' \in Seq(Queued) /\ Len(queue') <= QueueCapacity),
         UNCHANGED task \/ (task' \in [Workers -> TaskStates]),
         UNCHANGED sink \/ (sink' \in Seq(Values)),
         UNCHANGED sweep \/ (sweep' \in [Venues -> SweepStates]),
         UNCHANGED sweepBase \/ (sweepBase' \in [sources: SUBSET Pools, full: BOOLEAN]),
         UNCHANGED disc \/ (disc' \in DiscStates),
         UNCHANGED dump \/ (dump' \in [pc: {"off", "write"}, values: Values]),
         UNCHANGED failures \/ (failures' \in 0..scenario.failures),
         UNCHANGED read \/ (read' \in [Pools -> Ledgers]),
         UNCHANGED lost \/ (lost' \subseteq Pools)
  PROVE TypeOK'
<1>1. ChainTypes'
  BY Fixed DEF Sane, TypeOK, ChainTypes, ledger
<1>2. UNCHANGED cache => Cached' = Cached
  BY Fixed DEF Cached
<1>3. StateTypes'
  BY <1>2, KnownTypes, Fixed DEF StateTypes
<1>4. WatchTypes'
  BY KnownTypes, Fixed DEF WatchTypes
<1>5. PipelineTypes'
  BY KnownTypes, Fixed DEF PipelineTypes
<1>6. SweepTypes'
  BY KnownTypes, Fixed DEF SweepTypes
<1>7. DiscTypes'
  BY KnownTypes, Fixed DEF DiscTypes
<1>8. HistoryTypes'
  BY KnownTypes, Fixed DEF HistoryTypes
<1> QED BY <1>1, <1>3, <1>4, <1>5, <1>6, <1>7, <1>8 DEF TypeOK

\* A failure is counted within its bound; a read is of the chain as it is.
LEMMA Counted ==
  ASSUME Sane, UNCHANGED scenario
  PROVE /\ Fail => failures' \in 0..scenario.failures
        /\ \A S : Reads(S) => read' \in [Pools -> Ledgers] /\ lost' \subseteq Pools
<1>1. failures \in 0..scenario.failures /\ read \in [Pools -> Ledgers] /\ lost \subseteq Pools
      /\ scenario.failures \in Nat
  BY Deployed DEF Sane, TypeOK, HistoryTypes, ChainTypes
<1>2. Fail => failures' \in 0..scenario.failures
  BY <1>1 DEF Fail
<1>3. ASSUME NEW S, Reads(S) PROVE read' \in [Pools -> Ledgers] /\ lost' \subseteq Pools
  BY <1>1, <1>3, Setting DEF Reads
<1> QED BY <1>2, <1>3

\* What is refreshed stays cached, and what is inserted becomes so.
LEMMA RefreshedIs ==
  ASSUME Sane, NEW v \in Venues, NEW values \in Values
  PROVE /\ Refreshed(v, values) \in Values
        /\ \A p \in Cached : Refreshed(v, values)[p] # None
        /\ \A p \in Pools : values[p] # None /\ v \notin {"soroswap", "phoenix"} =>
              Refreshed(v, values)[p] # None
<1>1. cache \in Values
  BY KnownTypes
<1>2. Refreshed(v, values) \in Values
  BY <1>1, Setting DEF Refreshed, UpdatesCached, Inserts
<1> QED BY <1>1, <1>2, Setting DEF Refreshed, UpdatesCached, Inserts, Over, Only, Cached

\* The polls of the ledger watcher.
LEMMA PollsKeepTypes ==
  ASSUME Sane,
         \/ \E pools \in SUBSET Pools : CloseLedger(pools)
         \/ PollBegin
         \/ PollFails
  PROVE TypeOK'
<1> USE KnownTypes, Setting
<1>1. ASSUME NEW pools \in SUBSET Pools, CloseLedger(pools) PROVE TypeOK'
  <2>1. UNCHANGED scenario
    BY <1>1 DEF CloseLedger, chain, adapters, shared, pipeline, sweeper, history
  <2>2. events' \in Seq(SUBSET Pools) /\ Len(events') \in Ledgers
    <3>1. ledger + 1 \in Ledgers
      BY <1>1, Deployed DEF CloseLedger, Ledgers
    <3> QED BY <1>1, <3>1 DEF CloseLedger, ledger
  <2> QED BY SameTypes, <1>1, <2>1, <2>2 DEF CloseLedger, chain, adapters, shared, pipeline, sweeper, history
<1>2. CASE PollBegin
  <2>1. UNCHANGED scenario
    BY <1>2 DEF PollBegin, chain, adapters, shared, pipeline, sweeper, history
  <2>2. watcher' \in WatcherStates
    <3>1. watcher.last + 1 \in Nat /\ MaxCatchup \in Nat
      BY RefreshAssumption, Deployed DEF WatcherStates, Ledgers
    <3>2. ledger - (watcher.last + 1) + 1 > MaxCatchup => ledger - MaxCatchup + 1 \in Nat
      BY <3>1
    <3> QED BY <1>2, <3>1, <3>2 DEF PollBegin, WatcherStates
  <2> QED BY SameTypes, <1>2, <2>1, <2>2 DEF PollBegin, chain, adapters, shared, pipeline, sweeper, history
<1>3. CASE PollFails
  <2>1. UNCHANGED scenario
    BY <1>3 DEF PollFails, chain, adapters, shared, pipeline, sweeper, history
  <2>2. watcher' \in WatcherStates
    BY <1>3 DEF PollFails, WatcherStates
  <2>3. failures' \in 0..scenario.failures
    BY <1>3, <2>1, Counted DEF PollFails
  <2> QED BY SameTypes, <1>3, <2>1, <2>2, <2>3 DEF PollFails, chain, adapters, shared, pipeline, sweeper, history
<1> QED BY <1>1, <1>2, <1>3

\* The refresh the watcher makes itself.
LEMMA DirectKeepsTypes ==
  ASSUME Sane,
         \/ DirectStart
         \/ \E v \in Venues : DirectRead(v)
         \/ \E v \in Venues : DirectReadFails(v)
         \/ DirectApply
         \/ DirectExport
         \/ DirectWrite
         \/ DirectShare
  PROVE TypeOK'
<1> USE KnownTypes, Setting
<1>1. CASE DirectStart
  <2>1. UNCHANGED scenario
    BY <1>1 DEF DirectStart, chain, adapters, shared, pipeline, sweeper, history
  <2>2. direct' \in DirectStates
    <3>1. PICK kept \in SUBSET Pools : direct' = [NoDirect EXCEPT !.pc = "choose", !.todo = {venue[p] : p \in kept},
                      !.pools = kept, !.sources = sources, !.clmm = clmm]
      BY <1>1 DEF DirectStart, kSubset
    <3>2. {venue[p] : p \in kept} \subseteq Venues /\ kept \subseteq Pools
      OBVIOUS
    <3>3. NoDirect \in DirectStates
      BY DEF NoDirect, DirectStates, Venues
    <3> QED BY <3>1, <3>2, <3>3 DEF DirectStates
  <2>3. watcher' \in WatcherStates
    BY <1>1 DEF DirectStart, WatcherStates
  <2>4. lost' \subseteq Pools
    BY <1>1 DEF DirectStart, kSubset
  <2> QED BY SameTypes, <1>1, <2>1, <2>2, <2>3, <2>4 DEF DirectStart, chain, adapters, shared, pipeline, sweeper, history
<1>2. ASSUME NEW v \in Venues, DirectRead(v) PROVE TypeOK'
  <2>1. UNCHANGED scenario
    BY <1>2 DEF DirectRead, chain, adapters, shared, pipeline, sweeper, history
  <2>2. direct' \in DirectStates
    BY <1>2 DEF DirectRead, DirectStates, NoDirect, Venues
  <2>3. read' \in [Pools -> Ledgers]
    BY <1>2, <2>1, Counted DEF DirectRead
  <2>4. lost' \subseteq Pools
    BY <1>2, <2>1, Counted DEF DirectRead
  <2> QED BY SameTypes, <1>2, <2>1, <2>2, <2>3, <2>4 DEF DirectRead, chain, adapters, shared, pipeline, sweeper, history
<1>3. ASSUME NEW v \in Venues, DirectReadFails(v) PROVE TypeOK'
  <2>1. UNCHANGED scenario
    BY <1>3 DEF DirectReadFails, chain, adapters, shared, pipeline, sweeper, history
  <2>2. direct' \in DirectStates
    <3>1. ASSUME v = "clmm" PROVE direct' \in DirectStates
      <4>1. direct' = [direct EXCEPT !.pc = "apply", !.venue = v, !.todo = @ \ {v}, !.read = Nothing]
        BY <1>3, <3>1 DEF DirectReadFails
      <4>2. v \in Venues /\ direct.todo \ {v} \in SUBSET Venues
        BY <1>3 DEF DirectStates
      <4> QED BY <4>1, <4>2 DEF DirectStates
    <3>2. v # "clmm" => direct' \in DirectStates
      BY <1>3 DEF DirectReadFails, DirectStates
    <3> QED BY <3>1, <3>2
  <2>3. failures' \in 0..scenario.failures
    BY <1>3, <2>1, Counted DEF DirectReadFails
  <2>4. lost' \subseteq Pools
    BY <1>3 DEF DirectReadFails, DirectStates
  <2> QED BY SameTypes, <1>3, <2>1, <2>2, <2>3, <2>4 DEF DirectReadFails, chain, adapters, shared, pipeline, sweeper, history
<1>4. CASE DirectApply
  <2>1. UNCHANGED scenario
    BY <1>4 DEF DirectApply, chain, adapters, shared, pipeline, sweeper, history
  <2>2. direct' \in DirectStates
    BY <1>4 DEF DirectApply, DirectStates, NoDirect, Venues
  <2>3. cache' \in Values
    BY <1>4 DEF DirectApply, Refreshed, UpdatesCached, Inserts, DirectStates
  <2>4. covered' \subseteq Of("clmm") \cap Cached'
    <3> DEFINE pools == {p \in Of(direct.venue) : direct.read[p] # None}
    <3>1. direct.venue \in Venues /\ direct.read \in Values
      BY DEF DirectStates
    <3>2. \A p \in Cached : p \in Cached'
      BY <1>4, <3>1, <2>1, Fixed, RefreshedIs DEF DirectApply, Cached
    <3>3. \A p \in pools \cap Of("clmm") : p \in Cached'
      BY <1>4, <3>1, <2>1, Fixed, RefreshedIs, Deployed DEF DirectApply, Cached
    <3>4. covered' = covered \cup (pools \cap Of("clmm")) \/ covered' = covered \ pools
      BY <1>4 DEF DirectApply, LoadsTicks
    <3> QED BY <3>2, <3>3, <3>4
  <2>5. failures' \in 0..scenario.failures
    BY <1>4, <2>1, Counted DEF DirectApply, LoadsTicks
  <2> QED BY SameTypes, <1>4, <2>1, <2>2, <2>3, <2>4, <2>5 DEF DirectApply, chain, adapters, shared, pipeline, sweeper, history
<1>5. CASE DirectExport
  <2>1. UNCHANGED scenario
    BY <1>5 DEF DirectExport, chain, adapters, shared, pipeline, sweeper, history
  <2>2. direct' \in DirectStates
    BY <1>5 DEF DirectExport, DirectStates, NoDirect, Venues
  <2> QED BY SameTypes, <1>5, <2>1, <2>2 DEF DirectExport, chain, adapters, shared, pipeline, sweeper, history
<1>6. CASE DirectWrite
  <2>1. UNCHANGED scenario
    BY <1>6 DEF DirectWrite, chain, adapters, shared, pipeline, sweeper, history
  <2>2. direct' \in DirectStates
    BY <1>6 DEF DirectWrite, DirectStates, NoDirect, Venues
  <2>3. store' \in Values
    BY <1>6 DEF DirectWrite, DirectStates
  <2>4. failures' \in 0..scenario.failures
    BY <1>6, <2>1, Counted DEF DirectWrite
  <2> QED BY SameTypes, <1>6, <2>1, <2>2, <2>3, <2>4 DEF DirectWrite, chain, adapters, shared, pipeline, sweeper, history
<1>7. CASE DirectShare
  <2>1. UNCHANGED scenario
    BY <1>7 DEF DirectShare, chain, adapters, shared, pipeline, sweeper, history
  <2>2. direct' \in DirectStates
    BY <1>7 DEF DirectShare, DirectStates, NoDirect, Venues
  <2>3. watcher' \in WatcherStates
    BY <1>7 DEF DirectShare, WatcherStates
  <2>4. sources' \subseteq Pools
    BY <1>7 DEF DirectShare, DirectStates
  <2>5. clmm' \in Values
    BY <1>7 DEF DirectShare, DirectStates
  <2> QED BY SameTypes, <1>7, <2>1, <2>2, <2>3, <2>4, <2>5 DEF DirectShare, chain, adapters, shared, pipeline, sweeper, history
<1> QED BY <1>1, <1>2, <1>3, <1>4, <1>5, <1>6, <1>7

-----------------------------------------------------------------------------
(***************************************************************************)
(* The tasks of a poll                                                     *)
(***************************************************************************)
Has(s, x) == \E i \in DOMAIN s : s[i] = x

LEMMA Joined ==
  ASSUME NEW s \in Seq(Queued), NEW t \in Seq(Queued)
  PROVE /\ s \o t \in Seq(Queued)
        /\ \A x : Has(s \o t, x) <=> Has(s, x) \/ Has(t, x)
<1>1. s \o t \in Seq(Queued) /\ Len(s \o t) = Len(s) + Len(t)
  OBVIOUS
<1>2. /\ DOMAIN s = 1 .. Len(s) /\ DOMAIN t = 1 .. Len(t) /\ DOMAIN (s \o t) = 1 .. Len(s) + Len(t)
      /\ Len(s) \in Nat /\ Len(t) \in Nat
  BY <1>1
<1>3. \A i \in 1 .. Len(s) : (s \o t)[i] = s[i]
  OBVIOUS
<1>4. \A i \in 1 .. Len(t) : (s \o t)[Len(s) + i] = t[i]
  OBVIOUS
<1>5. \A i \in 1 .. Len(s) + Len(t) : i > Len(s) => i - Len(s) \in 1 .. Len(t) /\ (s \o t)[i] = t[i - Len(s)]
  OBVIOUS
<1>6. ASSUME NEW x, Has(s \o t, x) PROVE Has(s, x) \/ Has(t, x)
  BY <1>2, <1>3, <1>5, <1>6 DEF Has
<1>7. ASSUME NEW x, Has(s, x) \/ Has(t, x) PROVE Has(s \o t, x)
  <2>1. CASE Has(s, x)
    BY <1>2, <1>3, <2>1 DEF Has
  <2>2. CASE Has(t, x)
    <3>1. PICK i \in 1 .. Len(t) : t[i] = x
      BY <1>2, <2>2 DEF Has
    <3>2. Len(s) + i \in DOMAIN (s \o t)
      BY <1>2
    <3> QED BY <1>4, <3>1, <3>2 DEF Has
  <2> QED BY <1>7, <2>1, <2>2
<1> QED BY <1>1, <1>6, <1>7

LEMMA BatchIs ==
  ASSUME Sane, NEW v \in Venues, NEW touched, touched \subseteq Pools
  PROVE /\ Batch(v, touched) \in Seq(Queued)
        /\ \A x : Has(Batch(v, touched), x) =>
              x \in Queued /\ OfOneVenue(x) /\ x.pools \cap touched # {}
        /\ \A p \in touched : venue[p] = v =>
              \E x : Has(Batch(v, touched), x) /\ p \in x.pools
<1> DEFINE x == [venue |-> v, pools |-> touched \cap Of(v)]
<1>1. x \in Queued /\ x.pools = touched \cap Of(v) /\ x.venue = v
  BY DEF Queued
<1>2. OfOneVenue(x)
  BY <1>1 DEF Of, OfOneVenue
<1>3. \A p \in touched : venue[p] = v => p \in touched \cap Of(v)
  BY DEF Of
<1>4. CASE touched \cap Of(v) = {}
  BY <1>3, <1>4 DEF Batch, Has
<1>5. CASE touched \cap Of(v) # {}
  <2>1. Batch(v, touched) = <<x>>
    BY <1>5 DEF Batch
  <2> HIDE DEF x
  <2>2. <<x>> \in Seq(Queued) /\ \A y : Has(<<x>>, y) <=> y = x
    BY <1>1 DEF Has
  <2>3. x.pools \cap touched # {}
    BY <1>1, <1>5
  <2> QED BY <1>1, <1>2, <1>3, <2>1, <2>2, <2>3
<1> QED BY <1>4, <1>5

\* Each touched pool is in a task, which is about pools of one venue.
LEMMA TasksAre ==
  ASSUME Sane, NEW touched, touched \subseteq Pools, NEW singles \in Orders(Singles(touched))
  PROVE /\ Tasks(singles, touched) \in Seq(Queued)
        /\ \A x : Has(Tasks(singles, touched), x) => OfOneVenue(x) /\ x.pools \cap touched # {}
        /\ \A p \in touched : \E x : Has(Tasks(singles, touched), x) /\ p \in x.pools
<1> DEFINE alone == [i \in DOMAIN singles |-> [venue |-> venue[singles[i]], pools |-> {singles[i]}]]
           s == Batch("soroswap", touched)  a == Batch("aquarius", touched)  h == Batch("phoenix", touched)
<1>1. Cardinality(Singles(touched)) \in Nat
  <2>1. IsFiniteSet(Singles(touched))
    BY Setting, FS_Subset DEF Singles
  <2> QED BY <2>1, FS_CardinalityType
<1>2. /\ singles \in [1 .. Cardinality(Singles(touched)) -> Singles(touched)]
      /\ \A p \in Singles(touched) : \E i \in DOMAIN singles : singles[i] = p
  BY DEF Orders
<1>3. venue \in [Pools -> Venues]
  BY Setting
<1>4. alone \in Seq(Queued)
  <2>1. \A i \in 1 .. Cardinality(Singles(touched)) : alone[i] \in Queued
    BY <1>2, <1>3 DEF Queued, Singles
  <2> QED BY <1>1, <1>2, <2>1
<1>5. \A x : Has(alone, x) => OfOneVenue(x) /\ x.pools \cap touched # {}
  <2>1. \A i \in DOMAIN singles : singles[i] \in touched
    BY <1>2 DEF Singles
  <2> QED BY <2>1 DEF Has, OfOneVenue
<1>6. \A p \in Singles(touched) : \E x : Has(alone, x) /\ p \in x.pools
  <2> SUFFICES ASSUME NEW p \in Singles(touched) PROVE \E x : Has(alone, x) /\ p \in x.pools
    OBVIOUS
  <2>1. PICK i \in DOMAIN singles : singles[i] = p
    BY <1>2
  <2>2. Has(alone, alone[i]) /\ p \in alone[i].pools
    BY <2>1 DEF Has
  <2> QED BY <2>2
<1>7. /\ s \in Seq(Queued) /\ a \in Seq(Queued) /\ h \in Seq(Queued)
      /\ \A x : Has(s, x) \/ Has(a, x) \/ Has(h, x) => OfOneVenue(x) /\ x.pools \cap touched # {}
  BY BatchIs DEF Venues
<1>8. \A p \in touched \ Singles(touched) : \E x : (Has(s, x) \/ Has(a, x) \/ Has(h, x)) /\ p \in x.pools
  <2> SUFFICES ASSUME NEW p \in touched \ Singles(touched)
               PROVE \E x : (Has(s, x) \/ Has(a, x) \/ Has(h, x)) /\ p \in x.pools
    OBVIOUS
  <2>1. venue[p] \in {"soroswap", "aquarius", "phoenix"}
    BY <1>3 DEF Singles, Venues
  <2> QED BY <2>1, BatchIs DEF Venues
<1>9. Tasks(singles, touched) = ((alone \o s) \o a) \o h
  BY DEF Tasks
<1> HIDE DEF alone, s, a, h
<1>10. alone \o s \in Seq(Queued) /\ (alone \o s) \o a \in Seq(Queued)
       /\ ((alone \o s) \o a) \o h \in Seq(Queued)
  BY <1>4, <1>7, Joined
<1>11. \A x : Has(Tasks(singles, touched), x) <=> Has(alone, x) \/ Has(s, x) \/ Has(a, x) \/ Has(h, x)
  <2>1. \A x : Has(alone \o s, x) <=> Has(alone, x) \/ Has(s, x)
    BY <1>4, <1>7, Joined
  <2>2. \A x : Has((alone \o s) \o a, x) <=> Has(alone \o s, x) \/ Has(a, x)
    BY <1>7, <1>10, Joined
  <2>3. \A x : Has(((alone \o s) \o a) \o h, x) <=> Has((alone \o s) \o a, x) \/ Has(h, x)
    BY <1>7, <1>10, Joined
  <2> QED BY <1>9, <2>1, <2>2, <2>3
<1> QED BY <1>5, <1>6, <1>7, <1>8, <1>9, <1>10, <1>11

\* What fits into the queue is the beginning of what is sent.
LEMMA AcceptedIs ==
  ASSUME Sane, NEW tasks \in Seq(Queued)
  PROVE /\ Accepted(tasks) \in Seq(Queued)
        /\ Len(Accepted(tasks)) <= Len(tasks)
        /\ Len(queue) + Len(Accepted(tasks)) <= QueueCapacity
        /\ \A i \in 1 .. Len(Accepted(tasks)) : Accepted(tasks)[i] = tasks[i]
<1> DEFINE n == Min({Len(tasks), QueueCapacity - Len(queue)})
<1>1. Len(tasks) \in Nat /\ Len(queue) \in Nat /\ QueueCapacity \in Nat /\ Len(queue) <= QueueCapacity
  BY KnownTypes, RefreshAssumption
<1>2. n \in Nat /\ n <= Len(tasks) /\ Len(queue) + n <= QueueCapacity
  <2>1. \E m \in {Len(tasks), QueueCapacity - Len(queue)} : \A k \in {Len(tasks), QueueCapacity - Len(queue)} : m <= k
    BY <1>1
  <2>2. n \in {Len(tasks), QueueCapacity - Len(queue)} /\ \A k \in {Len(tasks), QueueCapacity - Len(queue)} : n <= k
    BY <2>1 DEF Min
  <2> QED BY <1>1, <2>2
<1>3. Accepted(tasks) = SubSeq(tasks, 1, n)
  BY DEF Accepted
<1> HIDE DEF n
<1> QED BY <1>1, <1>2, <1>3

\* A poll queues the beginning of its tasks and gives the rest up.
LEMMA PollIs ==
  ASSUME Sane, PollEvents
  PROVE \E tasks \in Seq(Queued) :
          /\ \A x : Has(tasks, x) => OfOneVenue(x) /\ x.pools \cap PolledPools # {}
          /\ \A p \in PolledPools : \E x : Has(tasks, x) /\ p \in x.pools
          /\ queue' = queue \o Accepted(tasks)
          /\ lost' = lost \cup GivenUp
                        \cup UNION {tasks[i].pools : i \in (Len(Accepted(tasks)) + 1) .. Len(tasks)}
<1>1. PICK singles \in Orders(Singles(PolledPools)) :
        LET tasks == Tasks(singles, PolledPools)
        IN /\ queue' = queue \o Accepted(tasks)
           /\ lost' = lost \cup GivenUp
                         \cup UNION {tasks[i].pools : i \in (Len(Accepted(tasks)) + 1) .. Len(tasks)}
  BY DEF PollEvents
<1>2. PolledPools \subseteq Pools
  BY Setting
<1> QED BY <1>1, <1>2, TasksAre

LEMMA PollEventsKeepsTypes ==
  ASSUME Sane, PollEvents
  PROVE TypeOK'
<1> USE KnownTypes, Setting
<1>1. PICK tasks \in Seq(Queued) :
          /\ queue' = queue \o Accepted(tasks)
          /\ lost' = lost \cup GivenUp
                        \cup UNION {tasks[i].pools : i \in (Len(Accepted(tasks)) + 1) .. Len(tasks)}
  BY PollIs
<1>2. queue' \in Seq(Queued) /\ Len(queue') <= QueueCapacity
  BY <1>1, AcceptedIs
<1>3. lost' \subseteq Pools
  <2>1. Len(Accepted(tasks)) \in Nat
    BY AcceptedIs
  <2>2. \A i \in 1 .. Len(tasks) : tasks[i] \in Queued
    OBVIOUS
  <2>3. \A i \in (Len(Accepted(tasks)) + 1) .. Len(tasks) : i \in 1 .. Len(tasks)
    BY <2>1
  <2>4. \A i \in (Len(Accepted(tasks)) + 1) .. Len(tasks) : tasks[i].pools \subseteq Pools
    BY <2>2, <2>3 DEF Queued
  <2> QED BY <1>1, <2>4
<1>4. watcher' \in WatcherStates
  BY DEF PollEvents, WatcherStates
<1>5. UNCHANGED scenario
  BY DEF PollEvents, chain
<1> QED BY SameTypes, <1>2, <1>3, <1>4, <1>5 DEF PollEvents, chain, adapters, shared, sweeper

\* The fetch pipeline: its workers and the sink.
LEMMA WorkersKeepTypes ==
  ASSUME Sane,
         \/ \E w \in Workers : Take(w)
         \/ \E w \in Workers : Fetch(w)
         \/ \E w \in Workers : FetchFails(w)
         \/ \E w \in Workers : ApplyFetched(w)
         \/ \E w \in Workers : ExportFetched(w)
         \/ \E w \in Workers : Send(w)
         \/ SinkWrite
         \/ SinkFails
         \/ DumpStart
         \/ DumpWrite
  PROVE TypeOK'
<1> USE KnownTypes, Setting
<1>1. ASSUME NEW w \in Workers, Take(w) PROVE TypeOK'
  <2>1. UNCHANGED scenario
    BY <1>1 DEF Take, chain, adapters, shared, pipeline, sweeper, history
  <2>2. queue' \in Seq(Queued) /\ Len(queue') <= QueueCapacity
    <3>1. queue # <<>> /\ queue' = Tail(queue)
      BY <1>1 DEF Take
    <3>2. Tail(queue) \in Seq(Queued) /\ Len(Tail(queue)) = Len(queue) - 1 /\ Len(queue) \in Nat
      BY <3>1
    <3> QED BY <3>1, <3>2, RefreshAssumption
  <2>3. task' \in [Workers -> TaskStates]
    <3>1. Head(queue) \in Queued
      BY <1>1 DEF Take
    <3> QED BY <1>1, <3>1 DEF Take, TaskStates, Queued, NoTask
  <2> QED BY SameTypes, <1>1, <2>1, <2>2, <2>3 DEF Take, chain, adapters, shared, pipeline, sweeper, history
<1>2. ASSUME NEW w \in Workers, Fetch(w) PROVE TypeOK'
  <2>1. UNCHANGED scenario
    BY <1>2 DEF Fetch, chain, adapters, shared, pipeline, sweeper, history
  <2>2. task' \in [Workers -> TaskStates]
    BY <1>2 DEF Fetch, TaskStates, NoTask, Venues
  <2>3. read' \in [Pools -> Ledgers]
    BY <1>2, <2>1, Counted DEF Fetch
  <2>4. lost' \subseteq Pools
    BY <1>2, <2>1, Counted DEF Fetch
  <2> QED BY SameTypes, <1>2, <2>1, <2>2, <2>3, <2>4 DEF Fetch, chain, adapters, shared, pipeline, sweeper, history
<1>3. ASSUME NEW w \in Workers, FetchFails(w) PROVE TypeOK'
  <2>1. UNCHANGED scenario
    BY <1>3 DEF FetchFails, chain, adapters, shared, pipeline, sweeper, history
  <2>2. task' \in [Workers -> TaskStates]
    BY <1>3 DEF FetchFails, TaskStates, NoTask, Venues
  <2>3. failures' \in 0..scenario.failures
    BY <1>3, <2>1, Counted DEF FetchFails
  <2>4. lost' \subseteq Pools
    BY <1>3 DEF FetchFails, TaskStates
  <2> QED BY SameTypes, <1>3, <2>1, <2>2, <2>3, <2>4 DEF FetchFails, chain, adapters, shared, pipeline, sweeper, history
<1>4. ASSUME NEW w \in Workers, ApplyFetched(w) PROVE TypeOK'
  <2>1. UNCHANGED scenario
    BY <1>4 DEF ApplyFetched, chain, adapters, shared, pipeline, sweeper, history
  <2>2. task' \in [Workers -> TaskStates]
    <3>1. task[w] \in TaskStates /\ NoTask \in TaskStates
      BY DEF TaskStates, NoTask, Venues
    <3>2. Only(task[w].values, task[w].topology) \in Values
      BY <3>1 DEF TaskStates
    <3>3. SendOrEnd([task[w] EXCEPT !.values = Only(task[w].values, task[w].topology)]) \in TaskStates
      BY <3>1, <3>2 DEF SendOrEnd, TaskStates
    <3> QED BY <1>4, <3>1, <3>3 DEF ApplyFetched, TaskStates
  <2>3. cache' \in Values
    <3>1. task[w].venue \in Venues /\ task[w].values \in Values
      BY DEF TaskStates
    <3> QED BY <1>4, <3>1, RefreshedIs DEF ApplyFetched
  <2>4. covered' \subseteq Of("clmm") \cap Cached'
    <3> DEFINE pools == {p \in Pools : task[w].values[p] # None}
    <3>1. task[w].venue \in Venues /\ task[w].values \in Values
      BY DEF TaskStates
    <3>2. \A p \in Cached : p \in Cached'
      BY <1>4, <3>1, <2>1, Fixed, RefreshedIs DEF ApplyFetched, Cached
    <3>3. \A p \in pools \cap Of("clmm") : p \in Cached'
      <4> SUFFICES ASSUME NEW p \in pools \cap Of("clmm") PROVE p \in Cached'
        OBVIOUS
      <4>1. p \in Pools /\ venue[p] = "clmm"
        BY DEF Of
      <4>2. venue[p] = task[w].venue
        BY <1>4, <4>1 DEF ApplyFetched, Sane, Matched, TaskOK, OfOneVenue
      <4> QED BY <1>4, <3>1, <4>1, <4>2, <2>1, Fixed, RefreshedIs DEF ApplyFetched, Cached
    <3>4. covered' = covered \cup (pools \cap Of("clmm")) \/ covered' = covered \ pools
      BY <1>4 DEF ApplyFetched, LoadsTicks
    <3> QED BY <3>2, <3>3, <3>4
  <2>5. failures' \in 0..scenario.failures
    BY <1>4, <2>1, Counted DEF ApplyFetched, LoadsTicks
  <2> QED BY SameTypes, <1>4, <2>1, <2>2, <2>3, <2>4, <2>5 DEF ApplyFetched, chain, adapters, shared, pipeline, sweeper, history
<1>5. ASSUME NEW w \in Workers, ExportFetched(w) PROVE TypeOK'
  <2>1. UNCHANGED scenario
    BY <1>5 DEF ExportFetched, chain, adapters, shared, pipeline, sweeper, history
  <2>2. task' \in [Workers -> TaskStates]
    <3> DEFINE t == task[w]
             values == Exports(IF t.venue = "phoenix" THEN t.pools \cap sources ELSE t.pools)
    <3>1. t \in TaskStates /\ NoTask \in TaskStates /\ values \in Values
      BY DEF TaskStates, NoTask, Venues
    <3>2. SendOrEnd([t EXCEPT !.values = values]) \in TaskStates
      BY <3>1 DEF SendOrEnd, TaskStates
    <3>3. task' = [task EXCEPT ![w] = SendOrEnd([t EXCEPT !.values = values])]
      BY <1>5 DEF ExportFetched
    <3> QED BY <3>1, <3>2, <3>3
  <2>3. clmm' \in Values
    BY <1>5 DEF ExportFetched
  <2> QED BY SameTypes, <1>5, <2>1, <2>2, <2>3 DEF ExportFetched, chain, adapters, shared, pipeline, sweeper, history
<1>6. ASSUME NEW w \in Workers, Send(w) PROVE TypeOK'
  <2>1. UNCHANGED scenario
    BY <1>6 DEF Send, chain, adapters, shared, pipeline, sweeper, history
  <2>2. task' \in [Workers -> TaskStates]
    BY <1>6 DEF Send, TaskStates, NoTask, Venues
  <2>3. sink' \in Seq(Values)
    BY <1>6 DEF Send, TaskStates
  <2> QED BY SameTypes, <1>6, <2>1, <2>2, <2>3 DEF Send, chain, adapters, shared, pipeline, sweeper, history
<1>7. CASE SinkWrite
  <2>1. UNCHANGED scenario
    BY <1>7 DEF SinkWrite, chain, adapters, shared, pipeline, sweeper, history
  <2>2. store' \in Values
    BY <1>7 DEF SinkWrite
  <2>3. sink' \in Seq(Values)
    BY <1>7 DEF SinkWrite
  <2> QED BY SameTypes, <1>7, <2>1, <2>2, <2>3 DEF SinkWrite, chain, adapters, shared, pipeline, sweeper, history
<1>8. CASE SinkFails
  <2>1. UNCHANGED scenario
    BY <1>8 DEF SinkFails, chain, adapters, shared, pipeline, sweeper, history
  <2>2. sink' \in Seq(Values)
    BY <1>8 DEF SinkFails
  <2>3. failures' \in 0..scenario.failures
    BY <1>8, <2>1, Counted DEF SinkFails
  <2> QED BY SameTypes, <1>8, <2>1, <2>2, <2>3 DEF SinkFails, chain, adapters, shared, pipeline, sweeper, history
<1>9. CASE DumpStart
  <2>1. UNCHANGED scenario
    BY <1>9 DEF DumpStart, chain, adapters, shared, pipeline, sweeper, history
  <2>2. dump' \in [pc: {"off", "write"}, values: Values]
    BY <1>9 DEF DumpStart, Values, NoDump
  <2> QED BY SameTypes, <1>9, <2>1, <2>2 DEF DumpStart, chain, adapters, shared, pipeline, sweeper, history
<1>10. CASE DumpWrite
  <2>1. UNCHANGED scenario
    BY <1>10 DEF DumpWrite, chain, adapters, shared, pipeline, sweeper, history
  <2>2. dump' \in [pc: {"off", "write"}, values: Values]
    BY <1>10 DEF DumpWrite, NoDump
  <2>3. store' \in Values
    BY <1>10 DEF DumpWrite
  <2>4. failures' \in 0..scenario.failures
    BY <1>10, <2>1, Counted DEF DumpWrite
  <2> QED BY SameTypes, <1>10, <2>1, <2>2, <2>3, <2>4 DEF DumpWrite, chain, adapters, shared, pipeline, sweeper, history
<1> QED BY <1>1, <1>2, <1>3, <1>4, <1>5, <1>6, <1>7, <1>8, <1>9, <1>10

\* The sweep of a venue moves on.
LEMMA SweepStateIs ==
  ASSUME Sane, NEW s \in SweepStates
  PROVE /\ \A pc \in {"read", "write", "delete", "export", "done"} : [s EXCEPT !.pc = pc] \in SweepStates
        /\ \A S : [s EXCEPT !.values = Exports(S)] \in SweepStates
        /\ NextChunk(s) \in SweepStates
<1>1. \A pc \in {"read", "write", "delete", "export", "done"} : [s EXCEPT !.pc = pc] \in SweepStates
  BY DEF SweepStates
<1>2. ASSUME NEW S PROVE [s EXCEPT !.values = Exports(S)] \in SweepStates
  <2>1. Exports(S) \in Values
    BY Setting
  <2> QED BY <2>1 DEF SweepStates
<1> QED BY <1>1, <1>2 DEF NextChunk

\* The sweep.
LEMMA SweepKeepsTypes ==
  ASSUME Sane,
         \/ \E full \in BOOLEAN : SweepStart(full)
         \/ SweepClmm
         \/ SweepEnd
         \/ \E v \in Venues : SweepRead(v)
         \/ \E v \in Venues : SweepReadFails(v)
         \/ \E v \in Venues : SweepApply(v)
         \/ \E v \in Venues : SweepExport(v)
         \/ \E v \in Venues : SweepDelete(v)
         \/ \E v \in Venues : SweepWrite(v)
         \/ \E v \in Venues : SweepWriteFails(v)
  PROVE TypeOK'
<1> USE KnownTypes, Setting
<1>1. ASSUME NEW full \in BOOLEAN, SweepStart(full) PROVE TypeOK'
  <2>1. UNCHANGED scenario
    BY <1>1 DEF SweepStart, chain, adapters, shared, pipeline, sweeper, history
  <2>2. sweep' \in [Venues -> SweepStates]
    <3>1. \A v \in Venues : sweep'[v] \in SweepStates
      BY <1>1 DEF SweepStart, SweepStates, NoSweep
    <3> QED BY <1>1, <3>1 DEF SweepStart
  <2>3. sweepBase' \in [sources: SUBSET Pools, full: BOOLEAN]
    BY <1>1 DEF SweepStart, NoBase
  <2> QED BY SameTypes, <1>1, <2>1, <2>2, <2>3 DEF SweepStart, chain, adapters, shared, pipeline, sweeper, history
<1>2. CASE SweepClmm
  <2>1. UNCHANGED scenario
    BY <1>2 DEF SweepClmm, chain, adapters, shared, pipeline, sweeper, history
  <2>2. sweep' \in [Venues -> SweepStates]
    <3>1. "clmm" \in Venues /\ Of("clmm") \cap Cached \subseteq Pools
      BY DEF Venues
    <3>2. sweep["clmm"] \in SweepStates
      BY <3>1
    <3> QED BY <1>2, <3>1, <3>2 DEF SweepClmm, SweepStates
  <2> QED BY SameTypes, <1>2, <2>1, <2>2 DEF SweepClmm, chain, adapters, shared, pipeline, sweeper, history
<1>3. CASE SweepEnd
  <2>1. UNCHANGED scenario
    BY <1>3 DEF SweepEnd, chain, adapters, shared, pipeline, sweeper, history
  <2>2. sweep' \in [Venues -> SweepStates]
    BY <1>3 DEF SweepEnd, SweepStates, NoSweep
  <2>3. sweepBase' \in [sources: SUBSET Pools, full: BOOLEAN]
    BY <1>3 DEF SweepEnd, NoBase
  <2>4. sources' \subseteq Pools
    BY <1>3 DEF SweepEnd, Cached
  <2>5. clmm' \in Values
    BY <1>3 DEF SweepEnd
  <2> QED BY SameTypes, <1>3, <2>1, <2>2, <2>3, <2>4, <2>5 DEF SweepEnd, chain, adapters, shared, pipeline, sweeper, history
<1>4. ASSUME NEW v \in Venues, SweepRead(v) PROVE TypeOK'
  <2>1. UNCHANGED scenario
    BY <1>4 DEF SweepRead, chain, adapters, shared, pipeline, sweeper, history
  <2>2. sweep' \in [Venues -> SweepStates]
    <3>1. PICK chunk \in Chunks(v) :
            sweep' = [sweep EXCEPT ![v] = [pc |-> "apply", todo |-> sweep[v].todo \ chunk,
                                            chunk |-> chunk, values |-> OnChain(chunk)]]
      BY <1>4 DEF SweepRead
    <3>2. chunk \subseteq Pools
      BY DEF Chunks, SweepStates
    <3> QED BY <3>1, <3>2 DEF SweepStates
  <2>3. read' \in [Pools -> Ledgers]
    BY <1>4, <2>1, Counted DEF SweepRead
  <2>4. lost' \subseteq Pools
    BY <1>4, <2>1, Counted DEF SweepRead
  <2> QED BY SameTypes, <1>4, <2>1, <2>2, <2>3, <2>4 DEF SweepRead, chain, adapters, shared, pipeline, sweeper, history
<1>5. ASSUME NEW v \in Venues, SweepReadFails(v) PROVE TypeOK'
  <2>1. UNCHANGED scenario
    BY <1>5 DEF SweepReadFails, chain, adapters, shared, pipeline, sweeper, history
  <2>2. sweep' \in [Venues -> SweepStates]
    <3>1. PICK chunk \in Chunks(v) :
            sweep' = [sweep EXCEPT ![v] = IF v \in {"soroswap", "aquarius"} THEN [@ EXCEPT !.pc = "done"]
                                        ELSE [pc |-> IF v = "clmm" /\ @.todo # chunk THEN "read" ELSE "export",
                                              todo |-> @.todo \ chunk, chunk |-> chunk, values |-> Nothing]]
      BY <1>5 DEF SweepReadFails
    <3>2. chunk \subseteq Pools
      BY DEF Chunks, SweepStates
    <3> QED BY <3>1, <3>2 DEF SweepStates
  <2>3. failures' \in 0..scenario.failures
    BY <1>5, <2>1, Counted DEF SweepReadFails
  <2> QED BY SameTypes, <1>5, <2>1, <2>2, <2>3 DEF SweepReadFails, chain, adapters, shared, pipeline, sweeper, history
<1>6. ASSUME NEW v \in Venues, SweepApply(v) PROVE TypeOK'
  <2>1. UNCHANGED scenario
    BY <1>6 DEF SweepApply, chain, adapters, shared, pipeline, sweeper, history
  <2>2. sweep' \in [Venues -> SweepStates]
    BY <1>6, SweepStateIs DEF SweepApply
  <2>3. cache' \in Values
    <3>1. sweep[v].values \in Values
      BY DEF SweepStates
    <3> QED BY <1>6, <3>1, RefreshedIs DEF SweepApply, UpdatesCached, Inserts
  <2>4. covered' \subseteq Of("clmm") \cap Cached'
    <3>1. sweep[v].values \in Values
      BY DEF SweepStates
    <3>2. \A p \in Cached : UpdatesCached(sweep[v].values)[p] # None /\ Inserts(sweep[v].values)[p] # None
      BY <3>1 DEF UpdatesCached, Inserts, Over, Cached
    <3>3. \A p \in Cached : p \in Cached'
      BY <1>6, <2>1, <3>1, <3>2, Fixed, RefreshedIs DEF SweepApply, Cached
    <3> QED BY <1>6, <3>3 DEF SweepApply
  <2>5. failures' \in 0..scenario.failures
    BY <1>6, <2>1, Counted DEF SweepApply
  <2> QED BY SameTypes, <1>6, <2>1, <2>2, <2>3, <2>4, <2>5 DEF SweepApply, chain, adapters, shared, pipeline, sweeper, history
<1>7. ASSUME NEW v \in Venues, SweepExport(v) PROVE TypeOK'
  <2>1. UNCHANGED scenario
    BY <1>7 DEF SweepExport, chain, adapters, shared, pipeline, sweeper, history
  <2>2. sweep' \in [Venues -> SweepStates]
    <3> DEFINE s == [sweep[v] EXCEPT !.values = Exports(IF v = "clmm" THEN Of(v) ELSE sweep[v].chunk)]
    <3>1. s \in SweepStates
      BY SweepStateIs
    <3>2. sweep' = [sweep EXCEPT ![v] = IF v = "phoenix" THEN [s EXCEPT !.pc = "delete"]
                                        ELSE IF s.values = Nothing THEN NextChunk(s)
                                        ELSE [s EXCEPT !.pc = "write"]]
      BY <1>7 DEF SweepExport
    <3> HIDE DEF s
    <3> QED BY <3>1, <3>2, SweepStateIs
  <2> QED BY SameTypes, <1>7, <2>1, <2>2 DEF SweepExport, chain, adapters, shared, pipeline, sweeper, history
<1>8. ASSUME NEW v \in Venues, SweepDelete(v) PROVE TypeOK'
  <2>1. UNCHANGED scenario
    BY <1>8 DEF SweepDelete, chain, adapters, shared, pipeline, sweeper, history
  <2>2. sweep' \in [Venues -> SweepStates]
    BY <1>8, SweepStateIs DEF SweepDelete
  <2>3. store' \in Values
    BY <1>8 DEF SweepDelete, Values
  <2> QED BY SameTypes, <1>8, <2>1, <2>2, <2>3 DEF SweepDelete, chain, adapters, shared, pipeline, sweeper, history
<1>9. ASSUME NEW v \in Venues, SweepWrite(v) PROVE TypeOK'
  <2>1. UNCHANGED scenario
    BY <1>9 DEF SweepWrite, chain, adapters, shared, pipeline, sweeper, history
  <2>2. sweep' \in [Venues -> SweepStates]
    BY <1>9, SweepStateIs DEF SweepWrite
  <2>3. store' \in Values
    BY <1>9 DEF SweepWrite, SweepStates
  <2> QED BY SameTypes, <1>9, <2>1, <2>2, <2>3 DEF SweepWrite, chain, adapters, shared, pipeline, sweeper, history
<1>10. ASSUME NEW v \in Venues, SweepWriteFails(v) PROVE TypeOK'
  <2>1. UNCHANGED scenario
    BY <1>10 DEF SweepWriteFails, chain, adapters, shared, pipeline, sweeper, history
  <2>2. sweep' \in [Venues -> SweepStates]
    BY <1>10, SweepStateIs DEF SweepWriteFails
  <2>3. failures' \in 0..scenario.failures
    BY <1>10, <2>1, Counted DEF SweepWriteFails
  <2> QED BY SameTypes, <1>10, <2>1, <2>2, <2>3 DEF SweepWriteFails, chain, adapters, shared, pipeline, sweeper, history
<1> QED BY <1>1, <1>2, <1>3, <1>4, <1>5, <1>6, <1>7, <1>8, <1>9, <1>10

\* Discovery.
LEMMA DiscoveryKeepsTypes ==
  ASSUME Sane,
         \/ DiscStart
         \/ \E v \in Venues : DiscRead(v)
         \/ \E v \in Venues : DiscReadFails(v)
         \/ \E v \in Venues : DiscApply(v)
         \/ DiscShare
         \/ DiscExport
         \/ DiscWrite
         \/ DiscWriteFails
  PROVE TypeOK'
<1> USE KnownTypes, Setting
<1>1. CASE DiscStart
  <2>1. UNCHANGED scenario
    BY <1>1 DEF DiscStart, chain, adapters, shared, pipeline, sweeper, history
  <2>2. disc' \in DiscStates
    <3>1. NoDisc \in DiscStates /\ {venue[p] : p \in Pools} \in SUBSET Venues
      BY DEF DiscStates, NoDisc
    <3> QED BY <1>1, <3>1 DEF DiscStart, DiscStates
  <2> QED BY SameTypes, <1>1, <2>1, <2>2 DEF DiscStart, chain, adapters, shared, pipeline, sweeper, history
<1>2. ASSUME NEW v \in Venues, DiscRead(v) PROVE TypeOK'
  <2>1. UNCHANGED scenario
    BY <1>2 DEF DiscRead, chain, adapters, shared, pipeline, sweeper, history
  <2>2. disc' \in DiscStates
    <3>1. PICK found, readable, unticked \in SUBSET Of(v) :
            disc' = [disc EXCEPT !.reading = @ \ {v}, !.applying = @ \cup {v}, !.found = @ \cup found,
                                  !.unticked = @ \cup unticked, !.values = Over(@, OnChain(readable))]
      BY <1>2 DEF DiscRead
    <3>2. found \subseteq Pools /\ unticked \subseteq Pools
      OBVIOUS
    <3> QED BY <3>1, <3>2 DEF DiscStates
  <2>3. failures' \in 0..scenario.failures
    BY <1>2, <2>1, Counted DEF DiscRead
  <2>4. read' \in [Pools -> Ledgers]
    BY <1>2, <2>1, Counted DEF DiscRead
  <2>5. lost' \subseteq Pools
    BY <1>2, <2>1, Counted DEF DiscRead
  <2> QED BY SameTypes, <1>2, <2>1, <2>2, <2>3, <2>4, <2>5 DEF DiscRead, chain, adapters, shared, pipeline, sweeper, history
<1>3. ASSUME NEW v \in Venues, DiscReadFails(v) PROVE TypeOK'
  <2>1. UNCHANGED scenario
    BY <1>3 DEF DiscReadFails, chain, adapters, shared, pipeline, sweeper, history
  <2>2. disc' \in DiscStates
    BY <1>3 DEF DiscReadFails, DiscStates, NoDisc
  <2>3. failures' \in 0..scenario.failures
    BY <1>3, <2>1, Counted DEF DiscReadFails
  <2> QED BY SameTypes, <1>3, <2>1, <2>2, <2>3 DEF DiscReadFails, chain, adapters, shared, pipeline, sweeper, history
<1>4. ASSUME NEW v \in Venues, DiscApply(v) PROVE TypeOK'
  <2>1. UNCHANGED scenario
    BY <1>4 DEF DiscApply, chain, adapters, shared, pipeline, sweeper, history
  <2>2. disc' \in DiscStates
    BY <1>4 DEF DiscApply, DiscStates, NoDisc
  <2>3. cache' \in Values
    BY <1>4 DEF DiscApply, Values, DiscStates
  <2>4. covered' \subseteq Of("clmm") \cap Cached'
    <3>1. CASE v = "clmm"
      BY <1>4, <2>1, <3>1, Fixed DEF DiscApply, Cached, DiscStates
    <3>2. CASE v # "clmm"
      <4>1. covered' = covered /\ \A p \in Of("clmm") : cache'[p] = cache[p]
        BY <1>4, <3>2 DEF DiscApply, Of
      <4> QED BY <4>1, <2>1, Fixed DEF Cached
    <3> QED BY <3>1, <3>2
  <2> QED BY SameTypes, <1>4, <2>1, <2>2, <2>3, <2>4 DEF DiscApply, chain, adapters, shared, pipeline, sweeper, history
<1>5. CASE DiscShare
  <2>1. UNCHANGED scenario
    BY <1>5 DEF DiscShare, chain, adapters, shared, pipeline, sweeper, history
  <2>2. disc' \in DiscStates
    BY <1>5 DEF DiscShare, DiscStates, NoDisc
  <2>3. sources' \subseteq Pools
    BY <1>5 DEF DiscShare, DiscStates
  <2>4. clmm' \in Values
    BY <1>5 DEF DiscShare
  <2> QED BY SameTypes, <1>5, <2>1, <2>2, <2>3, <2>4 DEF DiscShare, chain, adapters, shared, pipeline, sweeper, history
<1>6. CASE DiscExport
  <2>1. UNCHANGED scenario
    BY <1>6 DEF DiscExport, chain, adapters, shared, pipeline, sweeper, history
  <2>2. disc' \in DiscStates
    BY <1>6 DEF DiscExport, Values, DiscStates, NoDisc
  <2> QED BY SameTypes, <1>6, <2>1, <2>2 DEF DiscExport, chain, adapters, shared, pipeline, sweeper, history
<1>7. CASE DiscWrite
  <2>1. UNCHANGED scenario
    BY <1>7 DEF DiscWrite, chain, adapters, shared, pipeline, sweeper, history
  <2>2. disc' \in DiscStates
    BY <1>7 DEF DiscWrite, Venues, Values, DiscStates, NoDisc
  <2>3. store' \in Values
    BY <1>7 DEF DiscWrite, DiscStates
  <2> QED BY SameTypes, <1>7, <2>1, <2>2, <2>3 DEF DiscWrite, chain, adapters, shared, pipeline, sweeper, history
<1>8. CASE DiscWriteFails
  <2>1. UNCHANGED scenario
    BY <1>8 DEF DiscWriteFails, chain, adapters, shared, pipeline, sweeper, history
  <2>2. disc' \in DiscStates
    BY <1>8 DEF DiscWriteFails, Venues, DiscStates, NoDisc
  <2>3. failures' \in 0..scenario.failures
    BY <1>8, <2>1, Counted DEF DiscWriteFails
  <2> QED BY SameTypes, <1>8, <2>1, <2>2, <2>3 DEF DiscWriteFails, chain, adapters, shared, pipeline, sweeper, history
<1> QED BY <1>1, <1>2, <1>3, <1>4, <1>5, <1>6, <1>7, <1>8

-----------------------------------------------------------------------------
(***************************************************************************)
(* The inductive invariant                                                 *)
(***************************************************************************)

\* A step that leaves the watcher and the fetch tasks alone: it reads some pools,
\* or none.
Aside ==
    /\ UNCHANGED <<chain, watcher, direct, queue, task>>
    /\ UNCHANGED <<read, lost>> \/ \E S \in SUBSET Pools : Reads(S)

LEMMA StepIs ==
  ASSUME Sane, Next
  PROVE \/ \E pools \in SUBSET Pools : CloseLedger(pools)
        \/ PollBegin \/ PollEvents \/ PollFails
        \/ DirectStart \/ DirectApply \/ DirectExport \/ DirectWrite \/ DirectShare
        \/ \E v \in Venues : DirectRead(v) \/ DirectReadFails(v)
        \/ \E w \in Workers : Work(w)
        \/ Aside
<1>1. ASSUME Write \/ Publish \/ SweepTick \/ SweepClmm \/ SweepEnd \/ Discover PROVE Aside
  BY <1>1 DEF Aside, Write, SinkWrite, SinkFails, Publish, DumpStart, DumpWrite, SweepTick, SweepStart, SweepClmm,
     SweepEnd, Discover, DiscStart, DiscShare, DiscExport, DiscWrite, DiscWriteFails, pipeline, history
<1>2. ASSUME NEW v \in Venues, SweepVenue(v) PROVE Aside
  <2>1. CASE SweepRead(v)
    <3>1. PICK chunk \in Chunks(v) : Reads(chunk)
      BY <2>1 DEF SweepRead
    <3>2. chunk \subseteq Pools
      BY Setting, KnownTypes DEF Chunks, SweepStates
    <3> QED BY <2>1, <3>1, <3>2 DEF SweepRead, Aside, pipeline
  <2>2. CASE ~ SweepRead(v)
    BY <1>2, <2>2 DEF SweepVenue, SweepReadFails, SweepApply, SweepExport, SweepDelete, SweepWrite, SweepWriteFails,
       Aside, pipeline, history
  <2> QED BY <2>1, <2>2
<1>3. ASSUME NEW v \in Venues, DiscVenue(v) PROVE Aside
  <2>1. CASE DiscRead(v)
    <3>1. PICK readable \in SUBSET Of(v) : Reads(readable)
      BY <2>1 DEF DiscRead
    <3>2. readable \subseteq Pools
      BY Setting
    <3> QED BY <2>1, <3>1, <3>2 DEF DiscRead, Aside, pipeline
  <2>2. CASE ~ DiscRead(v)
    BY <1>3, <2>2 DEF DiscVenue, DiscReadFails, DiscApply, Aside, pipeline, history
  <2> QED BY <2>1, <2>2
<1> QED BY <1>1, <1>2, <1>3 DEF Next, Watch

LEMMA TypesKept ==
  ASSUME Sane, [Next]_vars
  PROVE TypeOK'
<1>1. CASE UNCHANGED vars
  <2>1. UNCHANGED scenario
    BY <1>1 DEF vars, chain
  <2> QED BY <1>1, <2>1, SameTypes DEF vars, chain, adapters, shared, pipeline, sweeper, history
<1>2. CASE Next
  BY <1>2, PollsKeepTypes, PollEventsKeepsTypes, DirectKeepsTypes, WorkersKeepTypes, SweepKeepsTypes,
     DiscoveryKeepsTypes DEF Next, Watch, Work, Write, Publish, SweepTick, SweepVenue, DiscVenue, Discover
<1> QED BY <1>1, <1>2

LEMMA WatcherKept ==
  ASSUME Sane, [Next]_vars
  PROVE WatcherOK'
<1> USE KnownTypes, Setting DEF WatcherOK, Sane
<1>1. CASE UNCHANGED <<chain, watcher, direct>>
  BY <1>1 DEF chain, ledger
<1>2. ASSUME NEW pools \in SUBSET Pools, CloseLedger(pools) PROVE WatcherOK'
  <2>1. ledger' = ledger + 1 /\ UNCHANGED <<watcher, direct>>
    BY <1>2 DEF CloseLedger, ledger
  <2> QED BY <2>1 DEF WatcherStates, Ledgers
<1>3. CASE PollBegin
  <2>1. UNCHANGED <<chain, direct>> /\ ledger' = ledger
    BY <1>3 DEF PollBegin, chain, ledger
  <2>2. /\ watcher' = [watcher EXCEPT !.pc = "polling", !.index = known, !.to = ledger,
                          !.from = IF ledger - watcher.last > MaxCatchup THEN ledger - MaxCatchup + 1
                                   ELSE watcher.last + 1]
        /\ watcher.pc = "idle" /\ ledger > watcher.last
    <3>1. ledger - (watcher.last + 1) + 1 = ledger - watcher.last
      BY DEF WatcherStates, Ledgers
    <3> QED BY <1>3, <3>1 DEF PollBegin, WatcherStates
  <2> QED BY <2>1, <2>2 DEF WatcherStates
<1>4. CASE PollEvents
  BY <1>4 DEF PollEvents, chain, ledger, WatcherStates
<1>5. CASE PollFails
  BY <1>5 DEF PollFails, chain, ledger, WatcherStates
<1>6. CASE DirectStart
  BY <1>6 DEF DirectStart, chain, ledger, WatcherStates
<1>7. CASE DirectApply \/ DirectExport \/ DirectWrite
  BY <1>7 DEF DirectApply, DirectExport, DirectWrite, chain, ledger
<1>8. CASE DirectShare
  BY <1>8 DEF DirectShare, chain, ledger, WatcherStates, NoDirect
<1>9. ASSUME NEW v \in Venues, DirectRead(v) \/ DirectReadFails(v) PROVE WatcherOK'
  BY <1>9 DEF DirectRead, DirectReadFails, chain, ledger
<1>10. ASSUME NEW w \in Workers, Work(w) PROVE WatcherOK'
  BY <1>10, <1>1 DEF Work, Take, Fetch, FetchFails, ApplyFetched, ExportFetched, Send
<1>11. CASE Aside
  BY <1>1, <1>11 DEF Aside
<1>12. CASE UNCHANGED vars
  BY <1>1, <1>12 DEF vars
<1> QED BY <1>2, <1>3, <1>4, <1>5, <1>6, <1>7, <1>8, <1>9, <1>10, <1>11, <1>12, StepIs

LEMMA SameScenario ==
  ASSUME [Next]_vars
  PROVE UNCHANGED scenario
BY DEF Next, Watch, Work, Write, Publish, SweepTick, SweepVenue, DiscVenue, Discover, vars, chain,
   CloseLedger, PollBegin, PollEvents, PollFails, DirectStart, DirectRead, DirectReadFails, DirectApply,
   DirectExport, DirectWrite, DirectShare, Take, Fetch, FetchFails, ApplyFetched, ExportFetched, Send,
   SinkWrite, SinkFails, DumpStart, DumpWrite, SweepStart, SweepClmm, SweepEnd, SweepRead, SweepReadFails,
   SweepApply, SweepExport, SweepDelete, SweepWrite, SweepWriteFails, DiscStart, DiscRead, DiscReadFails,
   DiscApply, DiscShare, DiscExport, DiscWrite, DiscWriteFails

LEMMA MatchedKept ==
  ASSUME Sane, [Next]_vars
  PROVE Matched'
<1> USE KnownTypes, Setting
<1>1. (\A i \in DOMAIN queue : OfOneVenue(queue[i])) /\ \A w \in Workers : TaskOK(task[w])
  BY DEF Sane, Matched
<1>2. UNCHANGED scenario
  BY SameScenario
<1>3. /\ \A x : OfOneVenue(x)' <=> OfOneVenue(x)
      /\ \A t : TaskOK(t)' <=> TaskOK(t)
  BY <1>2, Fixed DEF OfOneVenue, TaskOK
<1>4. SUFFICES /\ \A i \in DOMAIN queue' : OfOneVenue(queue'[i])
               /\ \A w \in Workers : TaskOK(task'[w])
  BY <1>3 DEF Matched
<1>5. CASE UNCHANGED <<queue, task>>
  BY <1>1, <1>5
<1>6. CASE PollEvents
  <2>1. PICK tasks \in Seq(Queued) :
            /\ \A x : Has(tasks, x) => OfOneVenue(x)
            /\ queue' = queue \o Accepted(tasks)
    BY <1>6, PollIs
  <2>2. Accepted(tasks) \in Seq(Queued)
    BY AcceptedIs
  <2>3. ASSUME NEW x, Has(queue', x) PROVE OfOneVenue(x)
    <3>1. Has(queue, x) \/ Has(Accepted(tasks), x)
      BY <2>1, <2>2, <2>3, Joined
    <3>2. CASE Has(queue, x)
      BY <1>1, <3>2 DEF Has
    <3>3. CASE Has(Accepted(tasks), x)
      <4>1. PICK i \in DOMAIN Accepted(tasks) : Accepted(tasks)[i] = x
        BY <3>3 DEF Has
      <4>2. i \in 1 .. Len(Accepted(tasks)) /\ i \in DOMAIN tasks
        BY <2>2, AcceptedIs
      <4>3. Has(tasks, x)
        BY <4>1, <4>2, AcceptedIs DEF Has
      <4> QED BY <2>1, <4>3
    <3> QED BY <3>1, <3>2, <3>3
  <2>4. UNCHANGED task
    BY <1>6 DEF PollEvents
  <2> QED BY <1>1, <2>3, <2>4 DEF Has
<1>7. ASSUME NEW w \in Workers, Take(w)
      PROVE (\A i \in DOMAIN queue' : OfOneVenue(queue'[i])) /\ \A u \in Workers : TaskOK(task'[u])
  <2>1. /\ queue # <<>> /\ queue' = Tail(queue)
        /\ task' = [task EXCEPT ![w] = [NoTask EXCEPT !.pc = "fetch", !.venue = Head(queue).venue,
                                                  !.pools = Head(queue).pools, !.topology = sources]]
    BY <1>7 DEF Take
  <2>2. Head(queue) = queue[1] /\ 1 \in DOMAIN queue
    BY <2>1
  <2>3. \A i \in DOMAIN Tail(queue) : i + 1 \in DOMAIN queue /\ Tail(queue)[i] = queue[i + 1]
    BY <2>1
  <2>4. TaskOK(task'[w])
    BY <1>1, <2>1, <2>2 DEF TaskOK, OfOneVenue, NoTask
  <2> QED BY <1>1, <2>1, <2>3, <2>4
<1>8. ASSUME NEW w \in Workers, Fetch(w) \/ FetchFails(w) \/ ApplyFetched(w) \/ ExportFetched(w) \/ Send(w)
      PROVE (\A i \in DOMAIN queue' : OfOneVenue(queue'[i])) /\ \A u \in Workers : TaskOK(task'[u])
  <2>1. UNCHANGED queue /\ \A u \in Workers \ {w} : task'[u] = task[u]
    BY <1>8 DEF Fetch, FetchFails, ApplyFetched, ExportFetched, Send
  <2>2. TaskOK(NoTask)
    BY DEF TaskOK, OfOneVenue, NoTask
  <2>3. TaskOK(task'[w])
    <3>1. CASE Fetch(w)
      BY <1>1, <3>1 DEF Fetch, TaskOK, OfOneVenue, OnChain, ToRead, TaskStates
    <3>2. CASE FetchFails(w) \/ Send(w)
      BY <2>2, <3>2 DEF FetchFails, Send
    <3>3. CASE ApplyFetched(w)
      BY <1>1, <2>2, <3>3 DEF ApplyFetched, SendOrEnd, TaskOK, OfOneVenue, TaskStates
    <3>4. CASE ExportFetched(w)
      BY <1>1, <2>2, <3>4 DEF ExportFetched, SendOrEnd, TaskOK, OfOneVenue, TaskStates
    <3> QED BY <1>8, <3>1, <3>2, <3>3, <3>4
  <2> QED BY <1>1, <2>1, <2>3
<1>9. CASE UNCHANGED vars
  BY <1>5, <1>9 DEF vars, pipeline
<1>10. ASSUME Next, ~ PollEvents, ~ \E w \in Workers : Work(w) PROVE UNCHANGED <<queue, task>>
  BY <1>10, StepIs DEF Aside, CloseLedger, PollBegin, PollFails, DirectStart, DirectRead, DirectReadFails,
     DirectApply, DirectExport, DirectWrite, DirectShare, pipeline
<1> QED BY <1>5, <1>6, <1>7, <1>8, <1>9, <1>10 DEF Work

-----------------------------------------------------------------------------
(***************************************************************************)
(* Every touch is followed by a read                                       *)
(***************************************************************************)

\* Events the watcher has passed are in hand: those of the poll are queued, or
\* given up.
LEMMA PollHandsOver ==
  ASSUME Sane, PollEvents \/ DirectStart, NEW p \in Pools,
         LastTouch(p) > watcher.last, 0 < LastTouch(p), LastTouch(p) <= watcher.to
  PROVE InHand(p)'
<1> USE KnownTypes, Setting
<1> DEFINE l == LastTouch(p)
<1>1. /\ watcher.last \in Nat /\ watcher.to \in Nat /\ watcher.to <= ledger
      /\ watcher.from = IF watcher.to - watcher.last > MaxCatchup
                          THEN watcher.to - MaxCatchup + 1 ELSE watcher.last + 1
      /\ MaxCatchup \in Nat /\ UNCHANGED <<scenario, task>>
  <2>1. watcher.pc = "polling" /\ UNCHANGED <<scenario, task>>
    BY DEF PollEvents, DirectStart, chain, pipeline
  <2>2. watcher.last \in Nat /\ watcher.to \in Nat
    BY DEF WatcherStates, Ledgers
  <2> QED BY <2>1, <2>2, RefreshAssumption DEF Sane, WatcherOK
<1>2. l \in Nat /\ l <= ledger /\ p \in events[l]
  BY LastTouchIs
<1> HIDE DEF l
<1>3. l > watcher.last /\ l <= watcher.to
  BY DEF l
<1>4. p \in TouchedIn(watcher.last + 1, watcher.to)
  <2>1. l \in (watcher.last + 1) .. watcher.to
    BY <1>1, <1>2, <1>3
  <2> QED BY <1>2, <2>1 DEF TouchedIn
<1>5. CASE p \notin PolledPools
  <2>1. p \in GivenUp
    <3>1. CASE p \notin watcher.index
      BY <1>4, <3>1 DEF GivenUp
    <3>2. CASE p \in watcher.index
      <4>1. l \notin watcher.from .. watcher.to
        BY <1>2, <1>5, <3>2 DEF PolledPools, TouchedIn
      <4>2. l \in (watcher.last + 1) .. (watcher.to - MaxCatchup)
        BY <1>1, <1>2, <1>3, <4>1
      <4> QED BY <1>2, <4>2 DEF GivenUp, TouchedIn
    <3> QED BY <3>1, <3>2
  <2>2. GivenUp \subseteq lost'
    BY DEF PollEvents, DirectStart
  <2> QED BY <2>1, <2>2 DEF InHand
<1>6. CASE p \in PolledPools /\ PollEvents
  <2>1. PICK tasks \in Seq(Queued) :
          /\ \A q \in PolledPools : \E x : Has(tasks, x) /\ q \in x.pools
          /\ queue' = queue \o Accepted(tasks)
          /\ lost' = lost \cup GivenUp
                        \cup UNION {tasks[i].pools : i \in (Len(Accepted(tasks)) + 1) .. Len(tasks)}
    BY <1>6, PollIs
  <2>2. PICK i \in 1 .. Len(tasks) : p \in tasks[i].pools
    <3>1. DOMAIN tasks = 1 .. Len(tasks)
      OBVIOUS
    <3> QED BY <1>6, <2>1, <3>1 DEF Has
  <2>3. Accepted(tasks) \in Seq(Queued) /\ Len(Accepted(tasks)) \in Nat
    BY AcceptedIs
  <2>4. CASE i <= Len(Accepted(tasks))
    <3>1. i \in 1 .. Len(Accepted(tasks)) /\ Accepted(tasks)[i] = tasks[i]
      BY <2>3, <2>4, AcceptedIs
    <3>2. Has(Accepted(tasks), tasks[i])
      BY <2>3, <3>1 DEF Has
    <3>3. Has(queue', tasks[i])
      BY <2>1, <2>3, <3>2, Joined
    <3> QED BY <2>2, <3>3 DEF InHand, Has
  <2>5. CASE ~ i <= Len(Accepted(tasks))
    <3>1. i \in (Len(Accepted(tasks)) + 1) .. Len(tasks)
      BY <2>3, <2>5
    <3>2. p \in lost'
      BY <2>1, <2>2, <3>1
    <3> QED BY <3>2 DEF InHand
  <2> QED BY <2>4, <2>5
<1>7. CASE p \in PolledPools /\ DirectStart
  <2>1. PICK kept \in SUBSET PolledPools :
          /\ direct' = [NoDirect EXCEPT !.pc = "choose", !.todo = {venue[q] : q \in kept}, !.pools = kept,
                                        !.sources = sources, !.clmm = clmm]
          /\ lost' = lost \cup GivenUp \cup (PolledPools \ kept)
    BY <1>7 DEF DirectStart, kSubset
  <2>2. venue' = venue
    BY <1>1, Fixed
  <2>3. direct'.pc = "choose" /\ direct'.pools = kept /\ direct'.todo = {venue[q] : q \in kept}
    BY <2>1 DEF NoDirect
  <2> QED BY <1>7, <2>1, <2>2, <2>3 DEF InHand
<1> QED BY <1>5, <1>6, <1>7

\* What is in hand stays so until it is read.
LEMMA InHandStays ==
  ASSUME Sane, Next, NEW p \in Pools \ Of("clmm"), InHand(p)
  PROVE InHand(p)' \/ read'[p] = LastTouch(p)
<1> USE KnownTypes, Setting
<1>1. venue' = venue /\ Pools' = Pools /\ venue[p] # "clmm" /\ UNCHANGED scenario
  BY SameScenario, Fixed DEF Of
<1>2. CASE UNCHANGED <<queue, task, direct, lost>>
  BY <1>1, <1>2 DEF InHand
<1>3. CASE Aside
  BY <1>1, <1>3 DEF Aside, Reads, InHand
<1>4. CASE PollEvents
  <2>1. PICK tasks \in Seq(Queued) : queue' = queue \o Accepted(tasks)
    BY <1>4, PollIs
  <2>2. \A x : Has(queue, x) => Has(queue', x)
    BY <2>1, AcceptedIs, Joined
  <2>3. UNCHANGED <<task, direct>> /\ lost \subseteq lost'
    BY <1>4 DEF PollEvents
  <2> QED BY <1>1, <2>2, <2>3 DEF InHand, Has
<1>5. CASE DirectStart
  <2>1. direct.pc = "off"
    BY <1>5 DEF DirectStart, Sane, WatcherOK, DirectStates
  <2>2. UNCHANGED <<queue, task>> /\ lost \subseteq lost'
    BY <1>5 DEF DirectStart, pipeline
  <2> QED BY <1>1, <2>1, <2>2 DEF InHand
<1>6. ASSUME NEW v \in Venues, DirectRead(v) PROVE InHand(p)' \/ read'[p] = LastTouch(p)
  <2> DEFINE pools == ToRead(v, direct.pools \cap Of(v))
  <2>1. /\ Reads(pools) /\ UNCHANGED <<queue, task>> /\ direct.pc = "choose"
        /\ direct'.pc = "apply" /\ direct'.pools = direct.pools /\ direct'.todo = direct.todo \ {v}
    BY <1>6 DEF DirectRead, DirectStates, pipeline
  <2>2. p \in direct.pools /\ venue[p] = v => p \in pools
    BY <1>1 DEF ToRead, Of
  <2> HIDE DEF pools
  <2> QED BY <1>1, <2>1, <2>2 DEF InHand, Reads
<1>7. ASSUME NEW v \in Venues, DirectReadFails(v) PROVE InHand(p)'
  <2>1. UNCHANGED <<queue, task>> /\ direct.pc = "choose" /\ lost \subseteq lost'
    BY <1>7 DEF DirectReadFails, pipeline
  <2>2. CASE v = "clmm"
    <3>1. direct'.pc = "apply" /\ direct'.pools = direct.pools /\ direct'.todo = direct.todo \ {v}
      BY <1>7, <2>2 DEF DirectReadFails, DirectStates
    <3> QED BY <1>1, <2>1, <2>2, <3>1 DEF InHand
  <2>3. CASE v # "clmm"
    <3>1. lost' = lost \cup {q \in direct.pools : venue[q] \in direct.todo}
      BY <1>7, <2>3 DEF DirectReadFails
    <3> QED BY <1>1, <2>1, <3>1 DEF InHand
  <2> QED BY <2>2, <2>3
<1>8. CASE DirectApply \/ DirectExport
  <2>1. /\ UNCHANGED <<queue, task, lost>> /\ direct'.pc \in {"choose", "export"}
        /\ direct'.pools = direct.pools /\ direct'.todo = direct.todo
    BY <1>8 DEF DirectApply, DirectExport, DirectStates, pipeline, history
  <2> QED BY <1>1, <2>1 DEF InHand
<1>9. CASE DirectWrite \/ DirectShare
  <2>1. UNCHANGED <<queue, task, lost>> /\ (direct.todo = {} \/ direct.pc = "share")
    BY <1>9 DEF DirectWrite, DirectShare, pipeline, history
  <2> QED BY <1>1, <2>1 DEF InHand
<1>10. ASSUME NEW w \in Workers, Take(w) PROVE InHand(p)'
  <2>1. /\ queue # <<>> /\ queue' = Tail(queue) /\ UNCHANGED <<direct, lost>>
        /\ task[w].pc = "idle" /\ task'[w].pc = "fetch" /\ task'[w].pools = Head(queue).pools
        /\ \A u \in Workers \ {w} : task'[u] = task[u]
    BY <1>10 DEF Take, NoTask, history
  <2>2. ASSUME NEW i \in DOMAIN queue, p \in queue[i].pools PROVE InHand(p)'
    <3>1. CASE i = 1
      <4>1. Head(queue) = queue[1]
        BY <2>1
      <4> QED BY <2>1, <2>2, <3>1, <4>1 DEF InHand
    <3>2. CASE i # 1
      <4>1. i - 1 \in DOMAIN Tail(queue) /\ Tail(queue)[i - 1] = queue[i]
        BY <2>1, <3>2
      <4> QED BY <2>1, <2>2, <4>1 DEF InHand
    <3> QED BY <3>1, <3>2
  <2> QED BY <1>1, <2>1, <2>2 DEF InHand
<1>11. ASSUME NEW w \in Workers, Fetch(w) PROVE InHand(p)' \/ read'[p] = LastTouch(p)
  <2> DEFINE pools == ToRead(task[w].venue, task[w].pools)
  <2>1. Reads(pools) /\ UNCHANGED <<queue, direct>> /\ \A u \in Workers \ {w} : task'[u] = task[u]
    BY <1>11 DEF Fetch
  <2>2. p \in task[w].pools => p \in pools
    BY <1>1 DEF ToRead, Sane, Matched, TaskOK, OfOneVenue
  <2> HIDE DEF pools
  <2> QED BY <1>1, <2>1, <2>2 DEF InHand, Reads
<1>12. ASSUME NEW w \in Workers, FetchFails(w) PROVE InHand(p)'
  <2>1. /\ lost' = lost \cup task[w].pools /\ UNCHANGED <<queue, direct>>
        /\ \A u \in Workers \ {w} : task'[u] = task[u]
    BY <1>12 DEF FetchFails
  <2> QED BY <1>1, <2>1 DEF InHand
<1>13. ASSUME NEW w \in Workers, ApplyFetched(w) \/ ExportFetched(w) \/ Send(w) PROVE InHand(p)'
  <2>1. UNCHANGED <<queue, direct, lost>> /\ task[w].pc # "fetch" /\ \A u \in Workers \ {w} : task'[u] = task[u]
    BY <1>13 DEF ApplyFetched, ExportFetched, Send, history
  <2> QED BY <1>1, <2>1 DEF InHand
<1>14. ASSUME (\E pools \in SUBSET Pools : CloseLedger(pools)) \/ PollBegin \/ PollFails
       PROVE UNCHANGED <<queue, task, direct, lost>>
  BY <1>14 DEF CloseLedger, PollBegin, PollFails, pipeline, history
<1> QED BY <1>2, <1>3, <1>4, <1>5, <1>6, <1>7, <1>8, <1>9, <1>10, <1>11, <1>12, <1>13, <1>14, StepIs DEF Work

\* A step reads the pool as it is, or does not read it.
LEMMA ReadsAreFresh ==
  ASSUME Sane, Next, NEW p \in Pools
  PROVE read'[p] = read[p] \/ read'[p] = LastTouch(p)
<1> USE KnownTypes, Setting
<1>1. CASE UNCHANGED read
  BY <1>1
<1>2. ASSUME NEW S, Reads(S) PROVE read'[p] = read[p] \/ read'[p] = LastTouch(p)
  BY <1>2 DEF Reads
<1>3. UNCHANGED read \/ \E S : Reads(S)
  BY StepIs DEF Aside, CloseLedger, PollBegin, PollEvents, PollFails, DirectStart, DirectRead, DirectReadFails,
     DirectApply, DirectExport, DirectWrite, DirectShare, Work, Take, Fetch, FetchFails, ApplyFetched,
     ExportFetched, Send, history
<1> QED BY <1>1, <1>2, <1>3

LEMMA FollowedKept ==
  ASSUME Sane, Next, NEW p \in Pools \ Of("clmm"), Followed(p)
  PROVE Followed(p)'
<1> USE KnownTypes, Setting
<1>1. /\ Followed(p) <=> (LastTouch(p) > read[p] => LastTouch(p) > watcher.last \/ InHand(p))
      /\ Followed(p)' <=> (LastTouch(p)' > read'[p] => LastTouch(p)' > watcher'.last \/ InHand(p)')
  BY DEF Followed, InHand
<1>2. ASSUME NEW pools \in SUBSET Pools, CloseLedger(pools) PROVE Followed(p)'
  <2>1. events' = Append(events, pools) /\ UNCHANGED <<scenario, watcher, direct, queue, task, read, lost>>
    BY <1>2 DEF CloseLedger, pipeline, history
  <2>2. InHand(p)' <=> InHand(p)
    BY <2>1, Fixed DEF InHand
  <2>3. LastTouch(p)' = IF p \in pools THEN ledger + 1 ELSE LastTouch(p)
    BY <2>1, TouchMoves
  <2>4. watcher.last <= ledger /\ watcher.last \in Nat
    BY DEF Sane, WatcherOK, WatcherStates, Ledgers
  <2> QED BY <1>1, <2>1, <2>2, <2>3, <2>4
<1>3. ASSUME UNCHANGED chain PROVE Followed(p)'
  <2>1. LastTouch(p)' = LastTouch(p)
    BY <1>3 DEF chain, LastTouch, TouchedIn, ledger
  <2>2. SUFFICES ASSUME LastTouch(p) > read'[p] PROVE LastTouch(p) > watcher'.last \/ InHand(p)'
    BY <1>1, <2>1
  <2>3. LastTouch(p) \in Nat /\ read[p] \in Nat
    BY Deployed DEF Ledgers
  <2>4. LastTouch(p) > read[p] /\ read'[p] # LastTouch(p)
    BY <2>2, <2>3, ReadsAreFresh
  <2>5. CASE InHand(p)
    BY <2>4, <2>5, InHandStays
  <2>6. CASE LastTouch(p) > watcher.last /\ (PollEvents \/ DirectStart)
    <3>1. watcher'.last = watcher.to
      BY <2>6 DEF PollEvents, DirectStart, WatcherStates
    <3>2. watcher.to \in Nat
      BY DEF WatcherStates, Ledgers
    <3> QED BY <2>3, <2>4, <2>6, <3>1, <3>2, PollHandsOver
  <2>7. CASE LastTouch(p) > watcher.last /\ ~ (PollEvents \/ DirectStart)
    <3>1. watcher'.last = watcher.last
      BY <1>3, <2>7, StepIs DEF Aside, CloseLedger, PollBegin, PollFails, DirectRead, DirectReadFails, DirectApply,
         DirectExport, DirectWrite, DirectShare, Work, Take, Fetch, FetchFails, ApplyFetched, ExportFetched, Send,
         WatcherStates
    <3> QED BY <2>7, <3>1
  <2> QED BY <1>1, <2>4, <2>5, <2>6, <2>7
<1>4. ASSUME ~ \E pools \in SUBSET Pools : CloseLedger(pools) PROVE UNCHANGED chain
  BY <1>4, StepIs DEF Aside, PollBegin, PollEvents, PollFails, DirectStart, DirectRead, DirectReadFails, DirectApply,
     DirectExport, DirectWrite, DirectShare, Work, Take, Fetch, FetchFails, ApplyFetched, ExportFetched, Send
<1> QED BY <1>2, <1>3, <1>4

-----------------------------------------------------------------------------
LEMMA SaneAtFirst == Init => Sane /\ TouchesAreFollowed
<1> SUFFICES ASSUME Init PROVE Sane /\ TouchesAreFollowed
  OBVIOUS
<1>1. scenario \in Scenarios /\ events = <<>>
  BY DEF Init
<1>2. ChainTypes
  BY <1>1, Deployed DEF ChainTypes, ledger, Ledgers
<1>3. Nothing \in Values /\ 0 \in Ledgers /\ [p \in Pools |-> 0] \in Values
  BY <1>1, Deployed DEF Nothing, Values, Ledgers
<1>4. StateTypes
  BY <1>3 DEF Init, StateTypes
<1>5. WatchTypes
  BY <1>3 DEF Init, WatchTypes, WatcherStates, DirectStates, NoDirect, Venues
<1>6. PipelineTypes
  <2>1. NoTask \in TaskStates
    BY <1>3 DEF NoTask, TaskStates, Venues
  <2> QED BY <2>1, RefreshAssumption DEF Init, PipelineTypes
<1>7. SweepTypes
  <2>1. NoSweep \in SweepStates
    BY <1>3 DEF NoSweep, SweepStates
  <2> QED BY <2>1 DEF Init, SweepTypes, NoBase
<1>8. DiscTypes
  BY <1>3 DEF Init, DiscTypes, NoDisc, NoDump, DiscStates
<1>9. HistoryTypes
  BY <1>1, <1>3, Deployed DEF Init, HistoryTypes
<1>10. Matched
  BY DEF Init, Matched, TaskOK, OfOneVenue, NoTask
<1>11. WatcherOK
  BY <1>1 DEF Init, WatcherOK, NoDirect, ledger
<1>12. Sane
  BY <1>2, <1>4, <1>5, <1>6, <1>7, <1>8, <1>9, <1>10, <1>11 DEF Sane, TypeOK
<1>13. ASSUME NEW p \in Pools PROVE Followed(p)
  <2>1. LastTouch(p) = 0 /\ read[p] = 0
    BY <1>1, LastTouchIs DEF Init, ledger
  <2> QED BY <2>1 DEF Followed
<1> QED BY <1>12, <1>13 DEF TouchesAreFollowed

THEOREM RefreshTypeCorrect == Spec => []TypeOK
<1>1. Init => Sane
  BY SaneAtFirst
<1>2. Sane /\ [Next]_vars => Sane'
  BY TypesKept, MatchedKept, WatcherKept DEF Sane
<1>3. Sane => TypeOK
  BY DEF Sane
<1> QED BY <1>1, <1>2, <1>3, PTL DEF Spec

THEOREM TouchesFollowed == Spec => []TouchesAreFollowed
<1> DEFINE Inv == Sane /\ TouchesAreFollowed
<1>1. Init => Inv
  BY SaneAtFirst
<1>2. Inv /\ [Next]_vars => Inv'
  <2> SUFFICES ASSUME Inv, [Next]_vars PROVE Inv'
    OBVIOUS
  <2>1. Sane'
    BY TypesKept, MatchedKept, WatcherKept DEF Sane
  <2>2. Pools' = Pools /\ Of("clmm")' = Of("clmm")
    BY SameScenario, Fixed
  <2>3. CASE Next
    <3>1. \A p \in Pools \ Of("clmm") : Followed(p)'
      BY <2>3, FollowedKept DEF TouchesAreFollowed
    <3> QED BY <2>1, <2>2, <3>1 DEF TouchesAreFollowed
  <2>4. CASE UNCHANGED vars
    BY <2>1, <2>2, <2>4, Fixed DEF TouchesAreFollowed, Followed, LastTouch, TouchedIn, ledger, vars, chain, pipeline,
       history
  <2> QED BY <2>3, <2>4
<1>3. Inv => TouchesAreFollowed
  OBVIOUS
<1> QED BY <1>1, <1>2, <1>3, PTL DEF Spec

-----------------------------------------------------------------------------
(***************************************************************************)
(* The store never goes back                                               *)
(***************************************************************************)

\* Neither sweep nor discovery run, and the watcher either queues tasks or
\* refreshes pools itself.
Alone ==
    /\ \A v \in Venues : sweep[v].pc = "off"
    /\ disc.pc = "off" /\ disc.reading = {} /\ disc.applying = {}
    /\ dump.pc = "off"
    /\ scenario.pipeline => direct = NoDirect
    /\ ~scenario.pipeline => queue = <<>> /\ sink = <<>> /\ task = [w \in Workers |-> NoTask]
    /\ \A w \in Workers : task[w].pc = "export" => task[w].venue # "soroswap"

\* What v has of the pool, if anything, is no older than what u has.
NoNewer(u, v, p) == v[p] # None => u[p] <= v[p]

\* Nothing is newer than the chain.
Real(u) == \A p \in Pools : u[p] <= LastTouch(p)
AllReal ==
    /\ Real(store) /\ Real(cache)
    /\ \A i \in DOMAIN sink : Real(sink[i])
    /\ \A w \in Workers : Real(task[w].values)
    /\ Real(direct.read) /\ Real(direct.values)

\* The store, the updates on their way in the order they will be written, what is
\* being fetched, and the cache the updates of all but soroswap come from.
TasksOrdered(p) ==
    /\ \A i \in DOMAIN sink : NoNewer(store, sink[i], p)
    /\ \A i, j \in DOMAIN sink : i < j => NoNewer(sink[i], sink[j], p)
    /\ \A w \in Workers : task[w].pc \in {"apply", "send"} =>
          /\ NoNewer(store, task[w].values, p)
          /\ \A i \in DOMAIN sink : NoNewer(sink[i], task[w].values, p)
    /\ \A w \in Workers : task[w].pc = "apply" => NoNewer(cache, task[w].values, p)

CacheLeads(p) ==
    /\ NoNewer(store, cache, p) /\ NoNewer(direct.values, cache, p)
    /\ \A i \in DOMAIN sink : NoNewer(sink[i], cache, p)
    /\ \A w \in Workers : task[w].pc = "send" => NoNewer(task[w].values, cache, p)

\* The same of a refresh by the watcher.
DirectOrdered(p) ==
    /\ NoNewer(store, direct.values, p)
    /\ direct.pc \in {"apply", "export"} => NoNewer(store, direct.read, p)
    /\ direct.pc = "apply" => NoNewer(cache, direct.read, p) /\ NoNewer(direct.values, direct.read, p)

Ordered ==
    \A p \in Pools : TasksOrdered(p) /\ DirectOrdered(p) /\ (venue[p] # "soroswap" => CacheLeads(p))

WritersInOrder == scenario.loops = {} => Alone /\ AllReal /\ Ordered

LEMMA NoNewerIs ==
  ASSUME Sane, NEW p \in Pools
  PROVE /\ \A u \in Values : NoNewer(u, u, p) /\ NoNewer(u, Nothing, p) /\ NoNewer(Nothing, u, p)
        /\ \A u, a, b \in Values :
              /\ NoNewer(u, a, p) /\ NoNewer(u, b, p) => NoNewer(u, Over(a, b), p)
              /\ NoNewer(a, u, p) /\ NoNewer(b, u, p) => NoNewer(Over(a, b), u, p)
        /\ \A u, v \in Values : \A S :
              NoNewer(u, v, p) => NoNewer(u, Only(v, S), p) /\ NoNewer(Only(u, S), v, p)
        /\ \A u \in Values : \A S : Real(u) => NoNewer(u, OnChain(S), p)
<1>1. \A u \in Values : u[p] \in Int /\ -1 <= u[p]
  BY Setting, Deployed DEF Values, Ledgers, None
<1>2. \A u \in Values : NoNewer(u, u, p) /\ NoNewer(u, Nothing, p) /\ NoNewer(Nothing, u, p)
  BY <1>1 DEF NoNewer, Nothing, None
<1>3. ASSUME NEW u \in Values, NEW a \in Values, NEW b \in Values
      PROVE /\ NoNewer(u, a, p) /\ NoNewer(u, b, p) => NoNewer(u, Over(a, b), p)
            /\ NoNewer(a, u, p) /\ NoNewer(b, u, p) => NoNewer(Over(a, b), u, p)
  BY DEF NoNewer, Over
<1>4. ASSUME NEW u \in Values, NEW v \in Values, NEW S, NoNewer(u, v, p)
      PROVE NoNewer(u, Only(v, S), p) /\ NoNewer(Only(u, S), v, p)
  BY <1>1, <1>4 DEF NoNewer, Only, None
<1>5. ASSUME NEW u \in Values, NEW S, Real(u) PROVE NoNewer(u, OnChain(S), p)
  BY <1>5 DEF NoNewer, OnChain, Real
<1> QED BY <1>2, <1>3, <1>4, <1>5

LEMMA RealIs ==
  ASSUME Sane
  PROVE /\ Real(Nothing)
        /\ \A u, v \in Values : Real(u) /\ Real(v) => Real(Over(u, v))
        /\ \A u \in Values : \A S : Real(u) => Real(Only(u, S))
        /\ \A S : Real(OnChain(S))
<1>1. \A p \in Pools : LastTouch(p) \in Nat
  BY Setting, Deployed DEF Ledgers
<1>2. Real(Nothing)
  BY <1>1 DEF Real, Nothing, None
<1>3. \A u, v \in Values : Real(u) /\ Real(v) => Real(Over(u, v))
  BY DEF Real, Over
<1>4. \A u \in Values : \A S : Real(u) => Real(Only(u, S))
  BY <1>1 DEF Real, Only, None
<1>5. \A S : Real(OnChain(S))
  BY <1>1 DEF Real, OnChain, None
<1> QED BY <1>2, <1>3, <1>4, <1>5

\* What enters the cache is no older than what was there, what leaves it is the same.
LEMMA CacheIs ==
  ASSUME Sane, NEW p \in Pools
  PROVE /\ \A v \in Venues : \A values \in Values :
              /\ Real(cache) /\ Real(values) => Real(Refreshed(v, values))
              /\ \A u \in Values : NoNewer(u, cache, p) /\ NoNewer(u, values, p) =>
                    NoNewer(u, Refreshed(v, values), p)
        /\ \A S : /\ Real(cache) => Real(Exports(S))
                  /\ NoNewer(Exports(S), cache, p)
                  /\ \A u \in Values : NoNewer(u, cache, p) => NoNewer(u, Exports(S), p)
                  /\ Exports(S)[p] # None => p \in S
<1> USE KnownTypes, Setting
<1>1. ASSUME NEW v \in Venues, NEW values \in Values
      PROVE /\ Real(cache) /\ Real(values) => Real(Refreshed(v, values))
            /\ \A u \in Values : NoNewer(u, cache, p) /\ NoNewer(u, values, p) =>
                  NoNewer(u, Refreshed(v, values), p)
  <2>1. \/ Refreshed(v, values) = Over(cache, Only(values, Cached))
        \/ Refreshed(v, values) = Over(cache, values)
    BY DEF Refreshed, UpdatesCached, Inserts
  <2>2. Only(values, Cached) \in Values
    OBVIOUS
  <2>3. ASSUME Real(cache), Real(values) PROVE Real(Refreshed(v, values))
    <3>1. Real(Only(values, Cached))
      BY <2>3, RealIs
    <3>2. Real(Over(cache, Only(values, Cached))) /\ Real(Over(cache, values))
      BY <2>2, <2>3, <3>1, RealIs
    <3> QED BY <2>1, <3>2
  <2>4. ASSUME NEW u \in Values, NoNewer(u, cache, p), NoNewer(u, values, p) PROVE NoNewer(u, Refreshed(v, values), p)
    <3>1. NoNewer(u, Only(values, Cached), p)
      BY <2>4, NoNewerIs
    <3>2. NoNewer(u, Over(cache, Only(values, Cached)), p) /\ NoNewer(u, Over(cache, values), p)
      BY <2>2, <2>4, <3>1, NoNewerIs
    <3> QED BY <2>1, <3>2
  <2> QED BY <2>3, <2>4
<1>2. ASSUME NEW S
      PROVE /\ Real(cache) => Real(Exports(S))
            /\ NoNewer(Exports(S), cache, p)
            /\ \A u \in Values : NoNewer(u, cache, p) => NoNewer(u, Exports(S), p)
            /\ Exports(S)[p] # None => p \in S
  <2> DEFINE T == {q \in S : venue[q] = "clmm" => q \in covered}
  <2>1. Exports(S) = Only(cache, T)
    BY DEF Exports
  <2>2. Exports(S)[p] # None => p \in S
    BY <2>1 DEF Only
  <2>3. Real(cache) => Real(Exports(S))
    BY <2>1, RealIs
  <2>4. NoNewer(Exports(S), cache, p)
    BY <2>1, NoNewerIs
  <2>5. \A u \in Values : NoNewer(u, cache, p) => NoNewer(u, Exports(S), p)
    BY <2>1, NoNewerIs
  <2> QED BY <2>2, <2>3, <2>4, <2>5
<1> QED BY <1>1, <1>2

\* Without the loops only the chain, the watcher, the workers and the sink move.
LEMMA OnlyTheWatcher ==
  ASSUME Sane, Alone, scenario.loops = {}, Next
  PROVE /\ (\E pools \in SUBSET Pools : CloseLedger(pools)) \/ Watch \/ (\E w \in Workers : Work(w)) \/ Write
        /\ UNCHANGED <<sweep, disc, dump>>
<1> USE DEF Alone
<1>1. ~ Publish /\ ~ SweepTick
  BY DEF Publish, DumpStart, DumpWrite, SweepTick, SweepStart
<1>2. ~ SweepClmm /\ ~ SweepEnd
  BY DEF SweepClmm, SweepEnd, Venues
<1>3. \A v \in Venues : ~ SweepVenue(v)
  BY DEF SweepVenue, SweepRead, SweepReadFails, SweepApply, SweepExport, SweepDelete, SweepWrite, SweepWriteFails
<1>4. ~ Discover /\ \A v \in Venues : ~ DiscVenue(v)
  BY DEF Discover, DiscStart, DiscShare, DiscExport, DiscWrite, DiscWriteFails, DiscVenue, DiscRead, DiscReadFails,
     DiscApply
<1>5. (\E pools \in SUBSET Pools : CloseLedger(pools)) \/ Watch \/ (\E w \in Workers : Work(w)) \/ Write
  BY <1>1, <1>2, <1>3, <1>4 DEF Next
<1>6. UNCHANGED <<sweep, disc, dump>>
  BY <1>5 DEF Watch, Work, Write, CloseLedger, PollBegin, PollEvents, PollFails, DirectStart, DirectRead,
     DirectReadFails, DirectApply, DirectExport, DirectWrite, DirectShare, Take, Fetch, FetchFails, ApplyFetched,
     ExportFetched, Send, SinkWrite, SinkFails, sweeper
<1> QED BY <1>5, <1>6

LEMMA AloneKept ==
  ASSUME Sane, Alone, scenario.loops = {}, Next
  PROVE Alone'
<1> USE KnownTypes, Setting
<1>1. UNCHANGED <<scenario, sweep, disc, dump>>
  BY OnlyTheWatcher, SameScenario
<1>2. ASSUME scenario.pipeline PROVE direct' = NoDirect
  <2>1. direct = NoDirect /\ direct.pc = "off"
    BY <1>2 DEF Alone, NoDirect
  <2> QED BY <1>2, <2>1, OnlyTheWatcher DEF Watch, Work, Write, CloseLedger, PollBegin, PollEvents, PollFails,
     DirectStart, DirectRead, DirectReadFails, DirectApply, DirectExport, DirectWrite, DirectShare, Take, Fetch,
     FetchFails, ApplyFetched, ExportFetched, Send, SinkWrite, SinkFails
<1>3. ASSUME ~ scenario.pipeline PROVE UNCHANGED <<queue, task, sink>>
  <2>1. queue = <<>> /\ sink = <<>> /\ \A w \in Workers : task[w].pc = "idle"
    BY <1>3 DEF Alone, NoTask
  <2>2. ~ Write /\ \A w \in Workers : ~ Work(w)
    BY <2>1 DEF Write, SinkWrite, SinkFails, Work, Take, Fetch, FetchFails, ApplyFetched, ExportFetched, Send
  <2>3. CASE PollEvents
    <3>1. PICK tasks \in Seq(Queued) :
            /\ \A x : Has(tasks, x) => OfOneVenue(x) /\ x.pools \cap PolledPools # {}
            /\ queue' = queue \o Accepted(tasks)
      BY <2>3, PollIs
    <3>2. PolledPools = {}
      BY <1>3, <2>3 DEF PollEvents
    <3>3. Len(tasks) = 0
      <4>1. \A x : ~ Has(tasks, x)
        BY <3>1, <3>2
      <4>2. Len(tasks) \in Nat /\ DOMAIN tasks = 1 .. Len(tasks)
        OBVIOUS
      <4>3. Len(tasks) # 0 => 1 \in DOMAIN tasks
        BY <4>2
      <4>4. 1 \in DOMAIN tasks => Has(tasks, tasks[1])
        BY DEF Has
      <4> QED BY <4>1, <4>3, <4>4
    <3>4. Accepted(tasks) = <<>>
      <4>1. Accepted(tasks) \in Seq(Queued) /\ Len(Accepted(tasks)) <= Len(tasks)
        BY AcceptedIs
      <4> QED BY <3>3, <4>1
    <3> QED BY <2>1, <2>3, <3>1, <3>4 DEF PollEvents
  <2>4. CASE ~ PollEvents
    BY <2>2, <2>4, OnlyTheWatcher DEF Watch, CloseLedger, PollBegin, PollFails, DirectStart, DirectRead,
       DirectReadFails, DirectApply, DirectExport, DirectWrite, DirectShare, pipeline
  <2> QED BY <2>3, <2>4
<1>4. ASSUME NEW w \in Workers PROVE task'[w].pc = "export" => task'[w].venue # "soroswap"
  <2>1. task[w].pc = "export" => task[w].venue # "soroswap"
    BY DEF Alone
  <2>2. CASE UNCHANGED task
    BY <2>1, <2>2
  <2>3. ASSUME NEW u \in Workers, Work(u), u # w PROVE task'[w] = task[w]
    BY <2>3 DEF Work, Take, Fetch, FetchFails, ApplyFetched, ExportFetched, Send
  <2>4. ASSUME Work(w) PROVE task'[w].pc = "export" => task'[w].venue # "soroswap"
    <3>1. CASE ApplyFetched(w)
      <4>2. task[w] \in TaskStates
        OBVIOUS
      <4>3. CASE task[w].venue = "soroswap"
        BY <3>1, <4>2, <4>3 DEF ApplyFetched, SendOrEnd, NoTask, TaskStates
      <4>4. CASE task[w].venue # "soroswap"
        BY <3>1, <4>2, <4>4 DEF ApplyFetched, TaskStates
      <4> QED BY <4>3, <4>4
    <3>2. CASE ExportFetched(w)
      BY <3>2 DEF ExportFetched, SendOrEnd, NoTask, TaskStates
    <3>3. CASE Take(w) \/ Fetch(w)
      <4>1. Take(w) => task'[w].pc = "fetch"
        BY DEF Take, NoTask
      <4>2. Fetch(w) => task'[w].pc = "apply"
        BY DEF Fetch, TaskStates
      <4> QED BY <3>3, <4>1, <4>2
    <3>4. CASE FetchFails(w) \/ Send(w)
      BY <3>4 DEF FetchFails, Send, NoTask
    <3> QED BY <2>4, <3>1, <3>2, <3>3, <3>4 DEF Work
  <2>5. (\E u \in Workers : Work(u)) \/ UNCHANGED task
    BY OnlyTheWatcher DEF Watch, Write, CloseLedger, PollBegin, PollEvents, PollFails, DirectStart, DirectRead,
       DirectReadFails, DirectApply, DirectExport, DirectWrite, DirectShare, SinkWrite, SinkFails, pipeline
  <2> QED BY <2>1, <2>2, <2>3, <2>4, <2>5
<1>5. (~ scenario.pipeline => queue = <<>> /\ sink = <<>> /\ task = [w \in Workers |-> NoTask])'
  <2>1. NoTask' = NoTask
    BY <1>1 DEF NoTask, Nothing, Pools, venue
  <2> QED BY <1>1, <1>3, <2>1 DEF Alone
<1>6. (\A w \in Workers : task[w].pc = "export" => task[w].venue # "soroswap")'
  BY <1>4
<1>7. (scenario.pipeline => direct = NoDirect)'
  BY <1>1, <1>2 DEF NoDirect, Nothing, Pools, venue
<1> QED BY <1>1, <1>5, <1>6, <1>7 DEF Alone

\* Real values stay so when the chain stays, or goes on.
LEMMA RealStays ==
  ASSUME Sane, UNCHANGED scenario, UNCHANGED events \/ \E pools \in SUBSET Pools : CloseLedger(pools)
  PROVE \A u \in Values : Real(u) => Real(u)'
<1> USE KnownTypes, Setting
<1>1. Pools' = Pools
  BY Fixed
<1>2. \A p \in Pools : LastTouch(p) \in Nat /\ LastTouch(p) <= ledger
  BY LastTouchIs
<1>3. ASSUME NEW p \in Pools PROVE LastTouch(p)' \in Nat /\ LastTouch(p) <= LastTouch(p)'
  <2>1. CASE UNCHANGED events
    <3>1. LastTouch(p)' = LastTouch(p)
      BY <2>1 DEF LastTouch, TouchedIn, ledger
    <3> QED BY <1>2, <3>1
  <2>2. ASSUME NEW pools \in SUBSET Pools, CloseLedger(pools)
        PROVE LastTouch(p)' \in Nat /\ LastTouch(p) <= LastTouch(p)'
    <3>1. LastTouch(p)' = IF p \in pools THEN ledger + 1 ELSE LastTouch(p)
      BY <2>2, TouchMoves DEF CloseLedger
    <3> QED BY <1>2, <3>1
  <2> QED BY <2>1, <2>2
<1>4. \A u \in Values : \A p \in Pools : u[p] \in Int
  BY Deployed DEF Values, Ledgers, None
<1> QED BY <1>1, <1>2, <1>3, <1>4 DEF Real

\* Reads of the chain, and what is no longer on its way, disturb nothing.
LEMMA OrderedByTasks ==
  ASSUME Sane, Alone, AllReal, Ordered, UNCHANGED scenario,
         NEW w \in Workers, Workers = {w}, Work(w) \/ Write
  PROVE AllReal' /\ Ordered'
<1> USE KnownTypes, Setting
<1> DEFINE t == task[w]
<1>1. scenario.pipeline /\ direct = NoDirect
  <2>1. ~ scenario.pipeline => task[w].pc = "idle" /\ queue = <<>> /\ sink = <<>>
    BY DEF Alone, NoTask
  <2> QED BY <2>1 DEF Alone, Work, Take, Fetch, FetchFails, ApplyFetched, ExportFetched, Send, Write, SinkWrite,
     SinkFails
<1>2. UNCHANGED <<chain, direct>>
  BY DEF Work, Take, Fetch, FetchFails, ApplyFetched, ExportFetched, Send, Write, SinkWrite, SinkFails
<1>3. /\ Pools' = Pools /\ venue' = venue /\ direct'.pc = "off" /\ direct'.read = Nothing
      /\ direct'.values = Nothing /\ direct.values = Nothing /\ direct.read = Nothing
  BY <1>1, <1>2, Fixed DEF NoDirect
<1>4. \A u \in Values : Real(u) => Real(u)'
  BY <1>2, RealStays DEF chain
<1> DEFINE v == task'[w].values
           n == task'[w].pc
           NowReal == Real(store') /\ Real(cache') /\ Real(v) /\ \A i \in DOMAIN sink' : Real(sink'[i])
           Now(p) == /\ \A i \in DOMAIN sink' : NoNewer(store', sink'[i], p)
                     /\ \A i, j \in DOMAIN sink' : i < j => NoNewer(sink'[i], sink'[j], p)
                     /\ n \in {"apply", "send"} =>
                           NoNewer(store', v, p) /\ \A i \in DOMAIN sink' : NoNewer(sink'[i], v, p)
                     /\ n = "apply" => NoNewer(cache', v, p)
           Leads(p) == /\ NoNewer(store', cache', p)
                       /\ \A i \in DOMAIN sink' : NoNewer(sink'[i], cache', p)
                       /\ n = "send" => NoNewer(v, cache', p)
<1>5. /\ store' \in Values /\ cache' \in Values /\ task'[w] \in TaskStates /\ v \in Values
      /\ \A i \in DOMAIN sink' : sink'[i] \in Values
  <2>1. TypeOK'
    BY WorkersKeepTypes DEF Work, Write
  <2>2. Values' = Values /\ TaskStates' = TaskStates
    BY Fixed
  <2>3. store' \in Values /\ cache' \in Values /\ task' \in [Workers -> TaskStates] /\ sink' \in Seq(Values)
    BY <2>1, <2>2 DEF TypeOK, StateTypes, PipelineTypes
  <2> QED BY <2>3 DEF TaskStates
<1>6. SUFFICES NowReal /\ \A p \in Pools : Now(p) /\ (venue[p] # "soroswap" => Leads(p))
  <2>1. ASSUME NowReal PROVE AllReal'
    <3>1. Real(store)' /\ Real(cache)' /\ Real(task[w].values)' /\ \A i \in DOMAIN sink' : Real(sink[i])'
      BY <1>4, <1>5, <2>1
    <3>2. Real(Nothing) /\ Nothing \in Values
      BY RealIs
    <3> QED BY <1>3, <1>4, <3>1, <3>2 DEF AllReal
  <2>2. ASSUME NEW p \in Pools, Now(p), venue[p] # "soroswap" => Leads(p)
        PROVE TasksOrdered(p)' /\ DirectOrdered(p)' /\ (venue'[p] # "soroswap" => CacheLeads(p)')
    <3>1. TasksOrdered(p)'
      BY <2>2 DEF TasksOrdered
    <3>2. DirectOrdered(p)'
      BY <1>3, <1>5, NoNewerIs DEF DirectOrdered
    <3>3. venue'[p] # "soroswap" => CacheLeads(p)'
      BY <1>3, <1>5, <2>2, NoNewerIs DEF CacheLeads
    <3> QED BY <3>1, <3>2, <3>3
  <2> QED BY <1>3, <2>1, <2>2 DEF Ordered
<1>7. /\ Real(store) /\ Real(cache) /\ Real(t.values) /\ \A i \in DOMAIN sink : Real(sink[i])
      /\ t \in TaskStates /\ t.values \in Values /\ t.venue \in Venues
      /\ \A i \in DOMAIN sink : sink[i] \in Values
  BY DEF AllReal, TaskStates
<1>8. ASSUME NEW p \in Pools
      PROVE /\ \A i \in DOMAIN sink : NoNewer(store, sink[i], p)
            /\ \A i, j \in DOMAIN sink : i < j => NoNewer(sink[i], sink[j], p)
            /\ t.pc \in {"apply", "send"} =>
                  NoNewer(store, t.values, p) /\ \A i \in DOMAIN sink : NoNewer(sink[i], t.values, p)
            /\ t.pc = "apply" => NoNewer(cache, t.values, p)
            /\ venue[p] # "soroswap" =>
                  /\ NoNewer(store, cache, p) /\ \A i \in DOMAIN sink : NoNewer(sink[i], cache, p)
                  /\ t.pc = "send" => NoNewer(t.values, cache, p)
  BY DEF Ordered, TasksOrdered, CacheLeads
<1> HIDE DEF v, n
<1>9. CASE Take(w)
  <2>1. UNCHANGED <<store, cache, sink>> /\ n = "fetch" /\ v = Nothing
    BY <1>9 DEF Take, NoTask, adapters, v, n
  <2> QED BY <1>7, <1>8, <2>1, RealIs
<1>10. CASE Fetch(w)
  <2>1. PICK S : UNCHANGED <<store, cache, sink>> /\ n = "apply" /\ v = OnChain(S)
    BY <1>10 DEF Fetch, adapters, TaskStates, v, n
  <2> QED BY <1>7, <1>8, <2>1, RealIs, NoNewerIs
<1>11. CASE FetchFails(w)
  <2>1. UNCHANGED <<store, cache, sink>> /\ n = "idle" /\ v = Nothing
    BY <1>11 DEF FetchFails, NoTask, adapters, v, n
  <2> QED BY <1>7, <1>8, <2>1, RealIs
<1>12. CASE ApplyFetched(w)
  <2>1. /\ UNCHANGED <<store, sink>> /\ cache' = Refreshed(t.venue, t.values) /\ t.pc = "apply"
    BY <1>12 DEF ApplyFetched
  <2>2. \/ n \in {"idle", "export"} /\ (v = Nothing \/ v = t.values)
        \/ n = "send" /\ t.venue = "soroswap" /\ v = Only(t.values, t.topology)
    <3>1. CASE t.venue = "soroswap"
      BY <1>7, <1>12, <3>1 DEF ApplyFetched, SendOrEnd, NoTask, TaskStates, v, n
    <3>2. CASE t.venue # "soroswap"
      BY <1>7, <1>12, <3>2 DEF ApplyFetched, TaskStates, v, n
    <3> QED BY <3>1, <3>2
  <2>3. NowReal
    <3>1. Real(cache')
      <4>1. \A p \in Pools : Real(cache')
        BY <1>7, <2>1, CacheIs
      <4> QED BY <4>1 DEF Real
    <3>2. Real(Nothing) /\ Real(t.values) /\ Real(Only(t.values, t.topology))
      BY <1>7, RealIs
    <3>3. Real(v)
      BY <2>2, <3>2
    <3> QED BY <1>7, <2>1, <3>1, <3>3
  <2>4. ASSUME NEW p \in Pools PROVE Now(p) /\ (venue[p] # "soroswap" => Leads(p))
    <3>1. \A u \in Values : NoNewer(u, cache, p) /\ NoNewer(u, t.values, p) => NoNewer(u, cache', p)
      BY <1>7, <2>1, CacheIs
    <3>2. Now(p)
      <4>1. \A u \in Values : NoNewer(u, t.values, p) => NoNewer(u, Only(t.values, t.topology), p)
        BY <1>7, NoNewerIs
      <4> QED BY <1>7, <1>8, <2>1, <2>2, <4>1
    <3>3. ASSUME venue[p] # "soroswap" PROVE Leads(p)
      <4>1. n = "send" => v[p] = None
        BY <2>1, <2>2, <3>3 DEF Only, Sane, Matched, TaskOK, OfOneVenue
      <4>2. n = "send" => NoNewer(v, cache', p)
        <5>1. cache'[p] \in Int /\ -1 <= cache'[p]
          BY <1>5, Deployed DEF Values, Ledgers, None
        <5> QED BY <4>1, <5>1 DEF NoNewer, None
      <4> QED BY <1>7, <1>8, <2>1, <3>1, <3>3, <4>2
    <3> QED BY <3>2, <3>3
  <2> QED BY <2>3, <2>4
<1>13. CASE ExportFetched(w)
  <2>1. UNCHANGED <<store, cache, sink>> /\ t.pc = "export" /\ t.venue # "soroswap"
    BY <1>13 DEF ExportFetched, adapters, Alone
  <2>2. PICK S : S \subseteq t.pools /\ ((n = "idle" /\ v = Nothing) \/ (n = "send" /\ v = Exports(S)))
    <3> DEFINE S == IF t.venue = "phoenix" THEN t.pools \cap sources ELSE t.pools
    <3>1. task'[w] = SendOrEnd([t EXCEPT !.values = Exports(S)])
      BY <1>13 DEF ExportFetched
    <3>2. S \subseteq t.pools
      OBVIOUS
    <3> HIDE DEF S
    <3> QED BY <1>7, <3>1, <3>2 DEF SendOrEnd, NoTask, TaskStates, v, n
  <2>3. NowReal
    <3>1. \A p \in Pools : Real(Nothing) /\ Real(Exports(S))
      BY <1>7, CacheIs, RealIs
    <3>2. Real(v)
      BY <2>2, <3>1 DEF Real
    <3> QED BY <1>7, <2>1, <3>2
  <2>4. ASSUME NEW p \in Pools PROVE Now(p) /\ (venue[p] # "soroswap" => Leads(p))
    <3>1. NoNewer(v, cache, p)
      <4>1. NoNewer(Nothing, cache, p) /\ NoNewer(Exports(S), cache, p)
        BY CacheIs, NoNewerIs
      <4> QED BY <2>2, <4>1
    <3>2. \A u \in Values : v[p] = None \/ NoNewer(u, cache, p) => NoNewer(u, v, p)
      BY <2>2, CacheIs, NoNewerIs DEF NoNewer
    <3>3. v[p] # None => venue[p] # "soroswap"
      <4>1. Nothing[p] = None
        BY DEF Nothing
      <4> QED BY <2>1, <2>2, <4>1, CacheIs DEF Sane, Matched, TaskOK, OfOneVenue
    <3> QED BY <1>7, <1>8, <2>1, <2>2, <3>1, <3>2, <3>3
  <2> QED BY <2>3, <2>4
<1>14. CASE Send(w)
  <2>1. UNCHANGED <<store, cache>> /\ sink' = Append(sink, t.values) /\ t.pc = "send" /\ n = "idle" /\ v = Nothing
    BY <1>14 DEF Send, NoTask, adapters, v, n
  <2>2. /\ \A i \in DOMAIN sink' : \/ (i \in DOMAIN sink /\ sink'[i] = sink[i])
              \/ (i = Len(sink) + 1 /\ sink'[i] = t.values)
        /\ \A i, j \in DOMAIN sink' : i < j => i \in DOMAIN sink
    BY <1>7, <2>1
  <2>3. NowReal
    BY <1>7, <2>1, <2>2, RealIs
  <2>4. ASSUME NEW p \in Pools PROVE Now(p) /\ (venue[p] # "soroswap" => Leads(p))
    BY <1>7, <1>8, <2>1, <2>2
  <2> QED BY <2>3, <2>4
<1>15. CASE SinkWrite
  <2>1. /\ sink # <<>> /\ store' = Over(store, sink[1]) /\ sink' = Tail(sink) /\ UNCHANGED cache
        /\ v = t.values /\ n = t.pc
    BY <1>15 DEF SinkWrite, adapters, v, n
  <2>2. /\ 1 \in DOMAIN sink
        /\ \A i \in DOMAIN sink' : i + 1 \in DOMAIN sink /\ 1 < i + 1 /\ sink'[i] = sink[i + 1]
        /\ \A i, j \in DOMAIN sink' : i < j => i + 1 < j + 1
    BY <2>1
  <2>3. NowReal
    BY <1>7, <2>1, <2>2, RealIs
  <2>4. ASSUME NEW p \in Pools PROVE Now(p) /\ (venue[p] # "soroswap" => Leads(p))
    <3>1. \A u \in Values : NoNewer(store, u, p) /\ NoNewer(sink[1], u, p) => NoNewer(store', u, p)
      BY <1>7, <2>1, <2>2, NoNewerIs
    <3> QED BY <1>7, <1>8, <2>1, <2>2, <3>1
  <2> QED BY <2>3, <2>4
<1>16. CASE SinkFails
  <2>1. sink # <<>> /\ sink' = Tail(sink) /\ UNCHANGED <<store, cache>> /\ v = t.values /\ n = t.pc
    BY <1>16 DEF SinkFails, adapters, v, n
  <2>2. /\ \A i \in DOMAIN sink' : i + 1 \in DOMAIN sink /\ sink'[i] = sink[i + 1]
        /\ \A i, j \in DOMAIN sink' : i < j => i + 1 < j + 1
    BY <2>1
  <2> QED BY <1>7, <1>8, <2>1, <2>2
<1> QED BY <1>9, <1>10, <1>11, <1>12, <1>13, <1>14, <1>15, <1>16 DEF Work, Write

LEMMA OrderedByRefresh ==
  ASSUME Sane, Alone, AllReal, Ordered, UNCHANGED scenario,
         \/ DirectStart \/ DirectApply \/ DirectExport \/ DirectWrite \/ DirectShare
         \/ \E u \in Venues : DirectRead(u) \/ DirectReadFails(u)
  PROVE AllReal' /\ Ordered'
<1> USE KnownTypes, Setting
<1>1. sink = <<>> /\ task = [w \in Workers |-> NoTask]
  <2>1. scenario.pipeline => direct.pc = "off"
    BY DEF Alone, NoDirect
  <2> QED BY <2>1 DEF Alone, DirectStart, DirectApply, DirectExport, DirectWrite, DirectShare, DirectRead,
     DirectReadFails
<1>2. UNCHANGED <<chain, sink, task>>
  BY DEF DirectStart, DirectApply, DirectExport, DirectWrite, DirectShare, DirectRead, DirectReadFails, pipeline
<1>3. /\ Pools' = Pools /\ venue' = venue /\ DOMAIN sink = {}
      /\ \A w \in Workers : task[w].pc = "idle" /\ task[w].values = Nothing
  BY <1>1, <1>2, Fixed DEF NoTask
<1>4. \A u \in Values : Real(u) => Real(u)'
  BY <1>2, RealStays DEF chain
<1> DEFINE r == direct'.read
           v == direct'.values
           n == direct'.pc
           NowReal == Real(store') /\ Real(cache') /\ Real(r) /\ Real(v)
           Now(p) == /\ NoNewer(store', v, p)
                     /\ n \in {"apply", "export"} => NoNewer(store', r, p)
                     /\ n = "apply" => NoNewer(cache', r, p) /\ NoNewer(v, r, p)
           Leads(p) == NoNewer(store', cache', p) /\ NoNewer(v, cache', p)
<1>5. store' \in Values /\ cache' \in Values /\ r \in Values /\ v \in Values
  <2>1. TypeOK'
    BY DirectKeepsTypes
  <2>2. Values' = Values /\ DirectStates' = DirectStates
    BY Fixed
  <2>3. store' \in Values /\ cache' \in Values /\ direct' \in DirectStates
    BY <2>1, <2>2 DEF TypeOK, StateTypes, WatchTypes
  <2> QED BY <2>3 DEF DirectStates
<1>6. SUFFICES NowReal /\ \A p \in Pools : Now(p) /\ (venue[p] # "soroswap" => Leads(p))
  <2>1. ASSUME NowReal PROVE AllReal'
    <3>1. Real(store)' /\ Real(cache)' /\ Real(direct.read)' /\ Real(direct.values)'
      BY <1>4, <1>5, <2>1
    <3>2. Real(Nothing) /\ Nothing \in Values
      BY RealIs
    <3> QED BY <1>2, <1>3, <1>4, <3>1, <3>2 DEF AllReal
  <2>2. ASSUME NEW p \in Pools, Now(p), venue[p] # "soroswap" => Leads(p)
        PROVE TasksOrdered(p)' /\ DirectOrdered(p)' /\ (venue'[p] # "soroswap" => CacheLeads(p)')
    <3>1. TasksOrdered(p)'
      BY <1>2, <1>3 DEF TasksOrdered
    <3>2. DirectOrdered(p)'
      BY <2>2 DEF DirectOrdered
    <3>3. venue'[p] # "soroswap" => CacheLeads(p)'
      BY <1>2, <1>3, <2>2 DEF CacheLeads
    <3> QED BY <3>1, <3>2, <3>3
  <2> QED BY <1>3, <2>1, <2>2 DEF Ordered
<1>7. /\ Real(store) /\ Real(cache) /\ Real(direct.read) /\ Real(direct.values)
      /\ direct.read \in Values /\ direct.values \in Values /\ direct.venue \in Venues
  BY DEF AllReal, DirectStates
<1>8. ASSUME NEW p \in Pools
      PROVE /\ NoNewer(store, direct.values, p)
            /\ direct.pc \in {"apply", "export"} => NoNewer(store, direct.read, p)
            /\ direct.pc = "apply" => NoNewer(cache, direct.read, p) /\ NoNewer(direct.values, direct.read, p)
            /\ venue[p] # "soroswap" => NoNewer(store, cache, p) /\ NoNewer(direct.values, cache, p)
  BY DEF Ordered, DirectOrdered, CacheLeads
<1> HIDE DEF r, v, n
<1>9. CASE DirectStart \/ DirectShare
  <2>1. UNCHANGED <<store, cache>> /\ n \in {"choose", "off"} /\ r = Nothing /\ v = Nothing
    <3>1. CASE DirectStart
      <4>1. UNCHANGED <<store, cache>> /\ direct'.pc = "choose" /\ direct'.read = Nothing /\ direct'.values = Nothing
        BY <3>1 DEF DirectStart, NoDirect, adapters
      <4> QED BY <4>1 DEF r, v, n
    <3>2. CASE DirectShare
      <4>1. UNCHANGED <<store, cache>> /\ direct' = NoDirect
        BY <3>2 DEF DirectShare, adapters
      <4> QED BY <4>1 DEF NoDirect, r, v, n
    <3> QED BY <1>9, <3>1, <3>2
  <2>2. Real(Nothing) /\ \A p \in Pools : NoNewer(store, Nothing, p) /\ NoNewer(Nothing, cache, p)
    BY RealIs, NoNewerIs
  <2> QED BY <1>7, <1>8, <2>1, <2>2
<1>10. ASSUME NEW u \in Venues, DirectRead(u) PROVE NowReal /\ \A p \in Pools : Now(p) /\ (venue[p] # "soroswap" => Leads(p))
  <2>1. PICK S : UNCHANGED <<store, cache>> /\ n = "apply" /\ r = OnChain(S) /\ v = direct.values
    BY <1>10 DEF DirectRead, DirectStates, adapters, r, v, n
  <2>2. Real(OnChain(S))
    BY RealIs
  <2>3. \A p \in Pools : NoNewer(store, OnChain(S), p) /\ NoNewer(cache, OnChain(S), p)
                           /\ NoNewer(direct.values, OnChain(S), p)
    BY <1>7, NoNewerIs
  <2> QED BY <1>7, <1>8, <2>1, <2>2, <2>3
<1>11. ASSUME NEW u \in Venues, DirectReadFails(u) PROVE NowReal /\ \A p \in Pools : Now(p) /\ (venue[p] # "soroswap" => Leads(p))
  <2>1. /\ UNCHANGED <<store, cache>> /\ v = direct.values
        /\ (n = "share" /\ r = direct.read) \/ (n = "apply" /\ r = Nothing)
    <3>1. UNCHANGED <<store, cache>> /\ direct.pc = "choose"
      BY <1>11 DEF DirectReadFails, adapters
    <3>2. \/ direct' = [direct EXCEPT !.pc = "share"]
          \/ direct' = [direct EXCEPT !.pc = "apply", !.venue = u, !.todo = @ \ {u}, !.read = Nothing]
      BY <1>11 DEF DirectReadFails
    <3>3. direct \in DirectStates
      BY <1>7
    <3> QED BY <3>1, <3>2, <3>3 DEF DirectStates, r, v, n
  <2>2. Real(Nothing) /\ \A p \in Pools :
          NoNewer(store, Nothing, p) /\ NoNewer(cache, Nothing, p) /\ NoNewer(direct.values, Nothing, p)
    BY <1>7, RealIs, NoNewerIs
  <2> QED BY <1>7, <1>8, <2>1, <2>2
<1>12. CASE DirectApply
  <2>1. /\ UNCHANGED store /\ n = "export" /\ r = direct.read /\ v = direct.values /\ direct.pc = "apply"
        /\ cache' = cache \/ cache' = Refreshed(direct.venue, direct.read)
    BY <1>12 DEF DirectApply, DirectStates, r, v, n
  <2>2. ASSUME NEW p \in Pools
        PROVE /\ Real(cache')
              /\ \A u \in Values : NoNewer(u, cache, p) /\ NoNewer(u, direct.read, p) => NoNewer(u, cache', p)
    <3>1. /\ Real(Refreshed(direct.venue, direct.read))
          /\ \A u \in Values : NoNewer(u, cache, p) /\ NoNewer(u, direct.read, p) =>
                NoNewer(u, Refreshed(direct.venue, direct.read), p)
      BY <1>7, CacheIs
    <3> QED BY <1>7, <2>1, <3>1
  <2>3. Real(cache')
    BY <2>2 DEF Real
  <2> QED BY <1>7, <1>8, <2>1, <2>2, <2>3
<1>13. CASE DirectExport
  <2>1. PICK S, T : /\ UNCHANGED <<store, cache>> /\ n = "choose" /\ r = Nothing /\ v = Over(direct.values, T)
                    /\ \/ direct.venue = "soroswap" /\ T = Only(direct.read, S)
                       \/ direct.venue # "soroswap" /\ T = Exports(S)
                    /\ S \subseteq Of(direct.venue) /\ direct.pc = "export"
    <3> DEFINE pools == direct.pools \cap Of(direct.venue)
               S == IF direct.venue \in {"soroswap", "phoenix"} THEN pools \cap direct.sources ELSE pools
               T == IF direct.venue = "soroswap" THEN Only(direct.read, S) ELSE Exports(S)
    <3>1. UNCHANGED <<store, cache>> /\ n = "choose" /\ r = Nothing /\ v = Over(direct.values, T) /\ direct.pc = "export"
      BY <1>13 DEF DirectExport, DirectStates, adapters, r, v, n
    <3>2. S \subseteq Of(direct.venue)
      OBVIOUS
    <3> HIDE DEF S
    <3> QED BY <3>1, <3>2
  <2>2. T \in Values
    BY <1>7, <2>1
  <2>3. ASSUME NEW p \in Pools PROVE /\ Real(T) /\ NoNewer(store, T, p)
                                     /\ venue[p] # "soroswap" => NoNewer(T, cache, p)
    <3>1. CASE direct.venue = "soroswap"
      <4>1. Real(Only(direct.read, S)) /\ NoNewer(store, Only(direct.read, S), p)
        BY <1>7, <1>8, <2>1, RealIs, NoNewerIs
      <4>2. venue[p] # "soroswap" => Only(direct.read, S)[p] = None
        BY <2>1, <3>1 DEF Only, Of
      <4>3. cache[p] \in Int /\ -1 <= cache[p]
        BY Deployed DEF Values, Ledgers, None
      <4> QED BY <2>1, <3>1, <4>1, <4>2, <4>3 DEF NoNewer, None
    <3>2. CASE direct.venue # "soroswap"
      <4>1. /\ Real(Exports(S)) /\ NoNewer(Exports(S), cache, p)
            /\ NoNewer(store, cache, p) => NoNewer(store, Exports(S), p)
            /\ Exports(S)[p] # None => p \in S
        BY <1>7, CacheIs
      <4>2. venue[p] = "soroswap" => Exports(S)[p] = None
        BY <2>1, <3>2, <4>1 DEF Of
      <4>3. NoNewer(store, Exports(S), p)
        BY <1>8, <4>1, <4>2 DEF NoNewer
      <4> QED BY <2>1, <3>2, <4>1, <4>3
    <3> QED BY <3>1, <3>2
  <2>4. Real(T)
    BY <2>3 DEF Real
  <2>5. NowReal
    BY <1>7, <2>1, <2>2, <2>4, RealIs
  <2>6. ASSUME NEW p \in Pools PROVE Now(p) /\ (venue[p] # "soroswap" => Leads(p))
    <3>1. NoNewer(store, Over(direct.values, T), p)
      BY <1>7, <1>8, <2>2, <2>3, NoNewerIs
    <3>2. venue[p] # "soroswap" => NoNewer(Over(direct.values, T), cache, p)
      BY <1>7, <1>8, <2>2, <2>3, NoNewerIs
    <3> QED BY <1>8, <2>1, <3>1, <3>2
  <2> QED BY <2>5, <2>6
<1>14. CASE DirectWrite
  <2>1. PICK S : /\ store' = Over(store, Only(direct.values, S)) /\ UNCHANGED cache
                 /\ n = "share" /\ r = direct.read /\ v = direct.values
    BY <1>14 DEF DirectWrite, DirectStates, adapters, r, v, n
  <2>2. Only(direct.values, S) \in Values /\ Real(Only(direct.values, S))
    BY <1>7, RealIs
  <2>3. Real(store')
    BY <1>7, <2>1, <2>2, RealIs
  <2>4. ASSUME NEW p \in Pools
        PROVE \A u \in Values : NoNewer(store, u, p) /\ NoNewer(direct.values, u, p) => NoNewer(store', u, p)
    BY <1>7, <2>1, <2>2, NoNewerIs
  <2>5. \A p \in Pools : NoNewer(direct.values, direct.values, p)
    BY <1>7, NoNewerIs
  <2> QED BY <1>7, <1>8, <2>1, <2>3, <2>4, <2>5
<1> QED BY <1>9, <1>10, <1>11, <1>12, <1>13, <1>14

LEMMA OrderedKept ==
  ASSUME Sane, Alone, AllReal, Ordered, scenario.loops = {}, Next, NEW w \in Workers, Workers = {w}
  PROVE AllReal' /\ Ordered'
<1> USE KnownTypes, Setting
<1>1. UNCHANGED scenario
  BY SameScenario
<1>2. CASE (\E pools \in SUBSET Pools : CloseLedger(pools)) \/ PollBegin \/ PollEvents \/ PollFails
  <2>1. /\ UNCHANGED <<store, cache, sink, task, direct>>
        /\ UNCHANGED events \/ \E pools \in SUBSET Pools : CloseLedger(pools)
    BY <1>2 DEF CloseLedger, PollBegin, PollEvents, PollFails, chain, adapters, pipeline
  <2>2. \A u \in Values : Real(u) => Real(u)'
    BY <1>1, <2>1, RealStays
  <2>3. Pools' = Pools /\ venue' = venue
    BY <1>1, Fixed
  <2>4. AllReal'
    BY <2>1, <2>2 DEF AllReal, TaskStates, DirectStates
  <2>5. Ordered'
    BY <2>1, <2>3 DEF Ordered, TasksOrdered, DirectOrdered, CacheLeads
  <2> QED BY <2>4, <2>5
<1>3. CASE ~ (\E pools \in SUBSET Pools : CloseLedger(pools)) /\ ~ (PollBegin \/ PollEvents \/ PollFails)
  BY <1>1, <1>3, OrderedByTasks, OrderedByRefresh, OnlyTheWatcher DEF Watch
<1> QED BY <1>2, <1>3

\* A step of the writers writes nothing older than what is stored.
LEMMA WritesForward ==
  ASSUME Sane, Alone, Ordered, scenario.loops = {}, Next, NEW p \in Pools
  PROVE store[p] # None /\ store'[p] # None => store'[p] >= store[p]
<1> USE KnownTypes, Setting
<1>1. \A u \in Values : u[p] \in Int
  BY Deployed DEF Values, Ledgers, None
<1>2. CASE UNCHANGED store
  BY <1>1, <1>2
<1>3. CASE SinkWrite
  <2>1. sink # <<>> /\ store' = Over(store, sink[1]) /\ 1 \in DOMAIN sink
    BY <1>3 DEF SinkWrite
  <2> QED BY <1>1, <2>1 DEF Ordered, TasksOrdered, NoNewer, Over
<1>4. CASE DirectWrite
  <2>1. PICK S : store' = Over(store, Only(direct.values, S))
    BY <1>4 DEF DirectWrite
  <2>2. direct.values \in Values
    BY DEF DirectStates
  <2> QED BY <1>1, <2>1, <2>2 DEF Ordered, DirectOrdered, NoNewer, Over, Only
<1>5. UNCHANGED store \/ SinkWrite \/ DirectWrite
  BY OnlyTheWatcher DEF Watch, Work, Write, CloseLedger, PollBegin, PollEvents, PollFails, DirectStart, DirectRead,
     DirectReadFails, DirectApply, DirectExport, DirectShare, Take, Fetch, FetchFails, ApplyFetched, ExportFetched,
     Send, SinkFails
<1> QED BY <1>2, <1>3, <1>4, <1>5

THEOREM StoreGoesForward ==
  ASSUME NEW w \in Workers, Workers = {w}
  PROVE Spec => StoreNeverGoesBack
<1> DEFINE Inv == Sane /\ WritersInOrder
<1>1. Init => Inv
  <2> SUFFICES ASSUME Init PROVE Inv
    OBVIOUS
  <2>1. Sane
    BY SaneAtFirst
  <2> USE <2>1, KnownTypes, Setting
  <2>2. Alone
    BY DEF Init, Alone, NoSweep, NoDisc, NoDump, NoTask
  <2>3. \A p \in Pools : LastTouch(p) = 0
    BY LastTouchIs DEF Init, ledger
  <2>4. AllReal
    BY <2>3 DEF Init, AllReal, Real, Nothing, None, NoTask, NoDirect
  <2>5. Ordered
    BY DEF Init, Ordered, TasksOrdered, DirectOrdered, CacheLeads, NoNewer, Nothing, NoTask, NoDirect
  <2> QED BY <2>2, <2>4, <2>5 DEF WritersInOrder
<1>2. Inv /\ [Next]_vars => Inv'
  <2> SUFFICES ASSUME Inv, [Next]_vars PROVE Inv'
    OBVIOUS
  <2>1. Sane'
    BY TypesKept, MatchedKept, WatcherKept DEF Sane
  <2>2. UNCHANGED scenario
    BY SameScenario
  <2>3. CASE Next
    <3>1. ASSUME scenario.loops = {} PROVE Alone' /\ AllReal' /\ Ordered'
      BY <2>3, <3>1, AloneKept, OrderedKept DEF WritersInOrder
    <3> QED BY <2>1, <2>2, <3>1 DEF WritersInOrder
  <2>4. CASE UNCHANGED vars
    BY <2>1, <2>4 DEF vars, chain, adapters, pipeline, sweeper, WritersInOrder, Alone, AllReal, Real, Ordered,
       TasksOrdered, DirectOrdered, CacheLeads, venue, Pools, LastTouch, TouchedIn, ledger, NoDirect, NoTask, Nothing
  <2> QED BY <2>3, <2>4
<1>3. Inv /\ [Next]_vars =>
        [scenario.loops = {} =>
          \A p \in Pools : store[p] # None /\ store'[p] # None => store'[p] >= store[p]]_vars
  BY WritesForward DEF WritersInOrder
<1> QED BY <1>1, <1>2, <1>3, PTL DEF Spec, StoreNeverGoesBack
=============================================================================

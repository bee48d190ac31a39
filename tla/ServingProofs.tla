----------------------------- MODULE ServingProofs -----------------------------
(***************************************************************************)
(* Proofs about what the site is served and shows: the snapshots that are  *)
(* published and reloaded, the swap form and the balances beside it, the   *)
(* trade tables the indexer fills, and the lists of swaps that are read    *)
(* from them.  Each part has its own specification and shares no state     *)
(* with the others.                                                        *)
(***************************************************************************)
EXTENDS SnapshotReload, SwapCard, AccountBalances, TradeIndexer, SwapHistory,
        FiniteSetTheorems, SequenceTheorems, TLAPS

-----------------------------------------------------------------------------
(***************************************************************************)
(* The publication and the reload of snapshots, for any number of          *)
(* discoveries, any retention and any number of lost connections and       *)
(* failed loads.                                                           *)
(*                                                                         *)
(* Both properties speak of positions in the order of publication.  They   *)
(* rest on every version being published once (the worker names each       *)
(* snapshot after a millisecond of its own), on the store retaining the    *)
(* latest KeepLatest of them, and on the reloader never reading a version  *)
(* older than the one it serves.                                           *)
(***************************************************************************)

(***************************************************************************)
(* The inductive invariant of the reload                                   *)
(***************************************************************************)

Stages == {"none", "collected", "built", "stored", "published", "done"}
Job == [stage: Stages, version: {0} \cup Versions, enriched: BOOLEAN]
Announcement == [kind: {Healthy, Degraded, "version"}, version: {0} \cup Versions]

\* TypeOK, by the process that keeps the variables.
WorkerTypes == jobs \in [Topologies -> Job] /\ clock \in {0} \cup Versions
StoreTypes ==
    /\ backend \in Backends /\ current \in {0} \cup Versions
    /\ data \in [Versions -> {0} \cup Topologies]
    /\ versions \in Seq(Versions) /\ published \in Seq(Versions)
ListenTypes == listening \in BOOLEAN /\ wire \in Seq(Versions) /\ drops \in 0..MaxDrops
ReaderTypes ==
    /\ mode \in {"PollingFallback", "PubSubHealthy"}
    /\ reader \in [pc: {"wait", "load", "data"}, version: {0} \cup Versions]
    /\ served \in [version: {0} \cup Versions, topology: {0} \cup Topologies]
    /\ errors \in 0..MaxErrors
SharedTypes == events \in Seq(Announcement) /\ missed \in BOOLEAN

\* The topologies a snapshot was built from, and those built a second time.
Built == {t \in Topologies : jobs[t].stage \notin {"none", "collected"}}
BuiltAgain == {t \in Topologies : jobs[t].enriched}

\* Every build takes a millisecond of its own, and what a task has built but not
\* published nobody has published.
VersionsAreFresh ==
    /\ \A t \in Topologies :
          jobs[t].stage \in {"none", "collected", "published"} => ~jobs[t].enriched
    /\ clock = Cardinality(Built) + Cardinality(BuiltAgain)
    /\ \A t \in Topologies : jobs[t].stage = "built" =>
          /\ jobs[t].version \in 1..clock
          /\ \A i \in DOMAIN published : published[i] # jobs[t].version
    /\ \A t, u \in Topologies :
          (/\ jobs[t].stage = "built" /\ jobs[u].stage = "built"
           /\ jobs[t].version = jobs[u].version) => t = u
    /\ \A i \in DOMAIN published : published[i] <= clock

\* What waits to be announced has a version.
StoredIsNamed ==
    \A t \in Topologies : jobs[t].stage = "stored" => jobs[t].version \in Versions

PublishedOnce ==
    \A i, j \in DOMAIN published : published[i] = published[j] => i = j

CurrentIsLast ==
    current = IF published = <<>> THEN 0 ELSE published[Len(published)]

\* The redis store holds the latest publications, KeepLatest of them when there
\* are as many.
LatestRetained ==
    /\ Len(versions) <= Len(published)
    /\ Len(versions) <= KeepLatest
    /\ Len(versions) < Len(published) => Len(versions) = KeepLatest
    /\ \A i \in 1..Len(versions) :
          /\ versions[i] = published[Len(published) - Len(versions) + i]
          /\ data[versions[i]] # 0

\* What is served was published, and what is being read not before it.
ReaderFollows ==
    /\ served.version # 0 => \E i \in DOMAIN published : published[i] = served.version
    /\ reader.pc = "data" =>
          /\ backend = "redis"
          /\ \E i \in DOMAIN published :
                /\ published[i] = reader.version
                /\ served.version # 0 => \E j \in 1..i : published[j] = served.version

ReloadInv ==
    /\ TypeOK
    /\ VersionsAreFresh
    /\ StoredIsNamed
    /\ PublishedOnce
    /\ CurrentIsLast
    /\ backend = "redis" => LatestRetained
    /\ ReaderFollows

-----------------------------------------------------------------------------
(***************************************************************************)
(* Counting the builds                                                     *)
(***************************************************************************)

\* There are at most MaxDiscoveries topologies of any sort, and one more is one more.
LEMMA OneMore ==
    ASSUME NEW S \in SUBSET Topologies, NEW t \in Topologies
    PROVE  /\ Cardinality(S) \in 0..MaxDiscoveries
           /\ t \notin S => Cardinality(S \cup {t}) = Cardinality(S) + 1
<1>1. IsFiniteSet(Topologies) /\ Cardinality(Topologies) = MaxDiscoveries
  <2>1. MaxDiscoveries \in Nat
    BY ReloadAssumption DEF ReloadAssumption
  <2>2. IsFiniteSet(1..MaxDiscoveries) /\ Cardinality(1..MaxDiscoveries) = MaxDiscoveries
    BY <2>1, FS_Interval
  <2> QED BY <2>2 DEF Topologies
<1>2. IsFiniteSet(S) /\ Cardinality(S) <= MaxDiscoveries
  BY <1>1, FS_Subset
<1>3. Cardinality(S) \in Nat
  BY <1>2, FS_CardinalityType
<1>4. t \notin S => Cardinality(S \cup {t}) = Cardinality(S) + 1
  BY <1>2, FS_AddElement
<1>5. MaxDiscoveries \in Nat
  BY ReloadAssumption DEF ReloadAssumption
<1> QED BY <1>2, <1>3, <1>4, <1>5

\* A build names its snapshot after the next millisecond, and there are enough
\* versions for the builds there can be.
LEMMA NextMillisecond ==
    ASSUME VersionsAreFresh, NEW t \in Topologies,
           \/ Built' = Built \cup {t} /\ t \notin Built /\ BuiltAgain' = BuiltAgain
           \/ BuiltAgain' = BuiltAgain \cup {t} /\ t \notin BuiltAgain /\ Built' = Built
    PROVE  /\ clock \in Nat /\ clock + 1 \in Versions
           /\ clock + 1 = Cardinality(Built') + Cardinality(BuiltAgain')
<1> DEFINE b == Cardinality(Built)
           e == Cardinality(BuiltAgain)
           bb == Cardinality(Built')
           ee == Cardinality(BuiltAgain')
<1>1. /\ Built \in SUBSET Topologies /\ BuiltAgain \in SUBSET Topologies
      /\ Built' \in SUBSET Topologies /\ BuiltAgain' \in SUBSET Topologies
  BY DEF Built, BuiltAgain, Topologies
<1>2. b \in 0..MaxDiscoveries /\ e \in 0..MaxDiscoveries
  BY <1>1, OneMore
<1>3. bb \in 0..MaxDiscoveries /\ ee \in 0..MaxDiscoveries
  BY <1>1, OneMore
<1>4. (bb = b + 1 /\ ee = e) \/ (bb = b /\ ee = e + 1)
  <2>1. CASE Built' = Built \cup {t} /\ t \notin Built /\ BuiltAgain' = BuiltAgain
    BY <1>1, <2>1, OneMore
  <2>2. CASE BuiltAgain' = BuiltAgain \cup {t} /\ t \notin BuiltAgain /\ Built' = Built
    BY <1>1, <2>2, OneMore
  <2> QED BY <2>1, <2>2
<1>5. clock = b + e /\ MaxDiscoveries \in Nat
  BY ReloadAssumption DEF ReloadAssumption, VersionsAreFresh
<1> HIDE DEF b, e, bb, ee
<1>6. clock \in Nat /\ clock + 1 \in 1..(2 * MaxDiscoveries) /\ clock + 1 = bb + ee
  BY <1>2, <1>3, <1>4, <1>5
<1> QED BY <1>6 DEF bb, ee, Versions

-----------------------------------------------------------------------------
(***************************************************************************)
(* The steps of the worker                                                 *)
(***************************************************************************)

LEMMA JobFields ==
    ASSUME NEW j \in Job
    PROVE  /\ j.stage \in Stages /\ j.version \in {0} \cup Versions
           /\ j.enriched \in BOOLEAN
BY DEF Job

\* A task that builds nothing and publishes nothing new keeps versions fresh.
LEMMA MovingOnKeepsFresh ==
    ASSUME TypeOK, VersionsAreFresh, NEW t \in Topologies,
           NEW from \in Stages, NEW to \in {"collected", "stored", "published", "done"},
           jobs[t].stage = from, jobs' = [jobs EXCEPT ![t].stage = to],
           from = "none" <=> to = "collected", from # "collected",
           to = "published" => ~jobs[t].enriched,
           UNCHANGED <<clock, published>>
    PROVE  VersionsAreFresh'
<1>1. jobs \in [Topologies -> Job]
  BY DEF TypeOK, Job, Stages
<1>2. /\ jobs'[t].stage = to /\ jobs'[t].version = jobs[t].version
      /\ jobs'[t].enriched = jobs[t].enriched
      /\ \A u \in Topologies : u # t => jobs'[u] = jobs[u]
  BY <1>1 DEF Job
<1>3. Built' = Built /\ BuiltAgain' = BuiltAgain
  BY <1>2 DEF Built, BuiltAgain, Stages
<1>4. \A u \in Topologies : jobs'[u].stage = "built" => jobs[u].stage = "built" /\ jobs'[u] = jobs[u]
  BY <1>2
<1>5. jobs'[t].stage \in {"none", "collected", "published"} => ~jobs'[t].enriched
  BY <1>2 DEF VersionsAreFresh
<1> QED BY <1>2, <1>3, <1>4, <1>5 DEF VersionsAreFresh

\* A build, by the discovery or by the enrichment, keeps versions fresh.
LEMMA BuildingKeepsFresh ==
    ASSUME TypeOK, VersionsAreFresh, NEW t \in Topologies, NEW again \in BOOLEAN,
           jobs[t].stage = IF again THEN "published" ELSE "collected",
           NEW b, jobs' = [jobs EXCEPT ![t] = b],
           b.stage = "built", b.version = clock + 1, b.enriched = again,
           clock + 1 \in Versions => b \in Job,
           clock' = clock + 1, published' = published
    PROVE  VersionsAreFresh' /\ jobs' \in [Topologies -> Job] /\ clock' \in Versions
<1>1. jobs \in [Topologies -> Job] /\ published \in Seq(Versions)
  BY DEF TypeOK, Job, Stages
<1>2. /\ jobs'[t].stage = "built" /\ jobs'[t].version = clock + 1
      /\ jobs'[t].enriched = again
      /\ \A u \in Topologies : u # t => jobs'[u] = jobs[u]
  BY <1>1
<1>3. ~jobs[t].enriched
  BY DEF VersionsAreFresh
<1>4. \/ Built' = Built \cup {t} /\ t \notin Built /\ BuiltAgain' = BuiltAgain
      \/ BuiltAgain' = BuiltAgain \cup {t} /\ t \notin BuiltAgain /\ Built' = Built
  <2>1. CASE again
    <3>1. Built' = Built /\ BuiltAgain' = BuiltAgain \cup {t} /\ t \notin BuiltAgain
      BY <1>2, <1>3, <2>1 DEF Built, BuiltAgain
    <3> QED BY <3>1
  <2>2. CASE ~again
    <3>1. Built' = Built \cup {t} /\ t \notin Built /\ BuiltAgain' = BuiltAgain
      BY <1>2, <1>3, <2>2 DEF Built, BuiltAgain
    <3> QED BY <3>1
  <2> QED BY <2>1, <2>2
<1>5. /\ clock \in Nat /\ clock + 1 \in Versions
      /\ clock' = Cardinality(Built') + Cardinality(BuiltAgain')
  BY <1>4, NextMillisecond
<1>6. jobs' \in [Topologies -> Job]
  <2>1. b \in Job
    BY <1>5
  <2>2. jobs' = [jobs EXCEPT ![t] = b] /\ t \in Topologies
    OBVIOUS
  <2> QED BY ONLY <1>1, <2>1, <2>2
<1>7. \A i \in DOMAIN published : published[i] \in Nat /\ published[i] <= clock
  <2>1. MaxDiscoveries \in Nat
    BY ReloadAssumption DEF ReloadAssumption
  <2>2. \A i \in DOMAIN published : published[i] \in Versions
    BY <1>1
  <2> QED BY <2>1, <2>2 DEF VersionsAreFresh, Versions
<1>8. \A u \in Topologies : u # t /\ jobs'[u].stage = "built" =>
        /\ jobs'[u].version \in 1..clock
        /\ \A i \in DOMAIN published : published[i] # jobs'[u].version
  BY <1>2 DEF VersionsAreFresh
<1>9. \A u \in Topologies : jobs'[u].stage = "built" =>
        /\ jobs'[u].version \in 1..clock'
        /\ \A i \in DOMAIN published : published[i] # jobs'[u].version
  BY <1>2, <1>5, <1>7, <1>8
<1>10. \A u, w \in Topologies :
         (/\ jobs'[u].stage = "built" /\ jobs'[w].stage = "built"
          /\ jobs'[u].version = jobs'[w].version) => u = w
  <2>1. \A u \in Topologies : u # t /\ jobs'[u].stage = "built" => jobs'[u].version # clock + 1
    BY <1>5, <1>8
  <2> QED BY <1>2, <2>1 DEF VersionsAreFresh
<1>11. \A i \in DOMAIN published' : published'[i] <= clock'
  BY <1>5, <1>7
<1>12. \A u \in Topologies :
         jobs'[u].stage \in {"none", "collected", "published"} => ~jobs'[u].enriched
  BY <1>2 DEF VersionsAreFresh
<1> QED BY <1>5, <1>6, <1>9, <1>10, <1>11, <1>12 DEF VersionsAreFresh

\* A publication adds a version that was not published before.
LEMMA PublishingKeepsFresh ==
    ASSUME TypeOK, VersionsAreFresh, PublishedOnce, NEW t \in Topologies,
           jobs[t].stage = "built", NEW to \in {"stored", "published", "done"},
           jobs' = [jobs EXCEPT ![t].stage = to],
           to = "published" => ~jobs[t].enriched,
           clock' = clock, published' = Append(published, jobs[t].version)
    PROVE  VersionsAreFresh' /\ PublishedOnce'
<1> DEFINE v == jobs[t].version
           n == Len(published)
<1>1. jobs \in [Topologies -> Job] /\ published \in Seq(Versions) /\ clock \in Nat
  <2>1. jobs \in [Topologies -> Job] /\ published \in Seq(Versions)
    BY DEF TypeOK, Job, Stages
  <2>2. clock \in {0} \cup Versions /\ Versions \subseteq Nat
    BY ReloadAssumption DEF TypeOK, Versions, ReloadAssumption
  <2> QED BY <2>1, <2>2
<1>2. /\ jobs'[t].stage = to /\ jobs'[t].version = v
      /\ jobs'[t].enriched = jobs[t].enriched
      /\ \A u \in Topologies : u # t => jobs'[u] = jobs[u]
  BY <1>1 DEF Job
<1>3. Built' = Built /\ BuiltAgain' = BuiltAgain
  BY <1>2 DEF Built, BuiltAgain
<1>4. v \in 1..clock /\ v \in Versions /\ \A i \in DOMAIN published : published[i] # v
  BY <1>1, JobFields DEF VersionsAreFresh, Versions
<1> HIDE DEF v
<1>5. /\ n \in Nat /\ DOMAIN published = 1..n /\ DOMAIN published' = 1..(n + 1)
      /\ published'[n + 1] = v
      /\ \A i \in 1..n : published'[i] = published[i]
  BY <1>1, <1>4 DEF v
<1> HIDE DEF n
<1>6. \A u \in Topologies : jobs'[u].stage = "built" =>
        u # t /\ jobs[u].stage = "built" /\ jobs'[u] = jobs[u] /\ jobs[u].version # v
  BY <1>2 DEF VersionsAreFresh, v
<1>7. \A u \in Topologies : jobs'[u].stage = "built" =>
        /\ jobs'[u].version \in 1..clock'
        /\ \A i \in DOMAIN published' : published'[i] # jobs'[u].version
  BY <1>5, <1>6 DEF VersionsAreFresh
<1>8. \A i \in DOMAIN published' : published'[i] <= clock'
  BY <1>4, <1>5 DEF VersionsAreFresh
<1>9. PublishedOnce'
  BY <1>4, <1>5 DEF PublishedOnce
<1>10. \A u \in Topologies :
         jobs'[u].stage \in {"none", "collected", "published"} => ~jobs'[u].enriched
  BY <1>2 DEF VersionsAreFresh
<1> QED BY <1>3, <1>6, <1>7, <1>8, <1>9, <1>10 DEF VersionsAreFresh

-----------------------------------------------------------------------------
(***************************************************************************)
(* The store                                                               *)
(***************************************************************************)

\* A version the list does not hold goes to its end, and what is beyond
\* KeepLatest goes at the front.
LEMMA RetainedIsTheEnd ==
    ASSUME TypeOK, NEW v \in Versions, \A i \in 1..Len(versions) : versions[i] # v,
           NEW n, n = Len(versions) + 1,
           NEW cut, cut = IF n > KeepLatest THEN n - KeepLatest ELSE 0
    PROVE  /\ Retained(v) \in Seq(Versions)
           /\ Len(Retained(v)) = n - cut
           /\ \A i \in 1..(n - cut) :
                 Retained(v)[i] = IF i + cut = n THEN v ELSE versions[i + cut]
<1> DEFINE all == Append(versions, v)
           first == IF Len(all) > KeepLatest THEN Len(all) - KeepLatest + 1 ELSE 1
<1>1. versions \in Seq(Versions) /\ KeepLatest \in Nat \ {0}
  BY ReloadAssumption DEF TypeOK, ReloadAssumption
<1>2. RemoveFirst(versions, v) = versions
  BY DEF RemoveFirst
<1>3. Retained(v) = SubSeq(all, first, Len(all))
  BY <1>2 DEF Retained
<1>4. /\ all \in Seq(Versions) /\ Len(all) = n
      /\ n \in Nat \ {0} /\ cut \in 0..(n - 1) /\ first = cut + 1
      /\ \A i \in 1..n : all[i] = IF i = n THEN v ELSE versions[i]
  BY <1>1
<1> HIDE DEF all, first
<1>5. \A i \in first..n : all[i] \in Versions
  BY <1>4
<1>6. /\ SubSeq(all, first, n) \in Seq(Versions)
      /\ Len(SubSeq(all, first, n)) = n - cut
      /\ \A i \in 1..(n - cut) : SubSeq(all, first, n)[i] = all[i + cut]
  <2>1. first \in Int /\ n \in Int
    BY <1>4
  <2>2. /\ SubSeq(all, first, n) \in Seq(Versions)
        /\ Len(SubSeq(all, first, n)) = IF first <= n THEN n - first + 1 ELSE 0
        /\ \A i \in 1..(n - first + 1) : SubSeq(all, first, n)[i] = all[first + i - 1]
    BY <1>5, <2>1, SubSeqProperties
  <2>3. n - first + 1 = n - cut /\ first <= n
    BY <1>4
  <2>4. \A i \in 1..(n - cut) : first + i - 1 = i + cut
    BY <1>4
  <2> QED BY <2>2, <2>3, <2>4
<1>7. \A i \in 1..(n - cut) : i + cut \in 1..n
  BY <1>4
<1>8. Retained(v) = SubSeq(all, first, n)
  BY <1>3, <1>4
<1>9. \A i \in 1..(n - cut) : all[i + cut] = IF i + cut = n THEN v ELSE versions[i + cut]
  BY <1>4, <1>7
<1> QED BY <1>6, <1>8, <1>9

\* A publication to the redis store: the version joins the latest ones.
LEMMA PublishingRetains ==
    ASSUME TypeOK, PublishedOnce, LatestRetained, NEW v \in Versions, NEW topology \in Topologies,
           \A i \in DOMAIN published : published[i] # v,
           PublishRedis(v, topology)
    PROVE  /\ LatestRetained'
           /\ versions' \in Seq(Versions)
           /\ data' \in [Versions -> {0} \cup Topologies]
<1> DEFINE l == Len(versions)
           n == l + 1
           cut == IF n > KeepLatest THEN n - KeepLatest ELSE 0
           p == Len(published)
<1>1. /\ versions \in Seq(Versions) /\ published \in Seq(Versions)
      /\ KeepLatest \in Nat \ {0} /\ data \in [Versions -> {0} \cup Topologies]
  BY ReloadAssumption DEF TypeOK, ReloadAssumption
<1>2. /\ l \in Nat /\ p \in Nat /\ l <= p /\ l <= KeepLatest
      /\ l < p => l = KeepLatest
  BY <1>1 DEF LatestRetained
<1>3. \A i \in 1..l : versions[i] = published[p - l + i] /\ data[versions[i]] # 0
  BY DEF LatestRetained
<1>4. \A i \in 1..l : versions[i] # v
  <2>1. \A i \in 1..l : p - l + i \in DOMAIN published
    BY <1>1, <1>2
  <2> QED BY <1>3, <2>1
<1>5. /\ versions' = Retained(v)
      /\ published' = Append(published, v)
      /\ data' = [u \in Versions |-> IF u = v THEN topology
                        ELSE IF u \in ToSet(versions) \ ToSet(Retained(v)) THEN 0 ELSE data[u]]
  BY DEF PublishRedis
<1>6. /\ Retained(v) \in Seq(Versions)
      /\ Len(Retained(v)) = n - cut
      /\ \A i \in 1..(n - cut) :
            Retained(v)[i] = IF i + cut = n THEN v ELSE versions[i + cut]
  BY <1>4, RetainedIsTheEnd
<1>7. /\ Len(published') = p + 1 /\ published'[p + 1] = v
      /\ \A i \in 1..p : published'[i] = published[i]
  BY <1>1, <1>5
<1> HIDE DEF l, p
<1>8. /\ n \in Nat \ {0} /\ cut \in {0, 1} /\ n - cut <= KeepLatest /\ n - cut \in Nat
      /\ n - cut <= p + 1
      /\ n - cut < p + 1 => n - cut = KeepLatest
  <2>1. KeepLatest \in Nat \ {0}
    BY <1>1
  <2>2. CASE n > KeepLatest
    BY ONLY <1>2, <2>1, <2>2
  <2>3. CASE ~(n > KeepLatest)
    BY ONLY <1>2, <2>1, <2>3
  <2> QED BY <2>2, <2>3
<1>9. \A i \in 1..(n - cut) : versions'[i] = published'[p + 1 - (n - cut) + i]
  <2> SUFFICES ASSUME NEW i \in 1..(n - cut)
               PROVE  versions'[i] = published'[p + 1 - (n - cut) + i]
    OBVIOUS
  <2>1. versions'[i] = IF i + cut = n THEN v ELSE versions[i + cut]
    BY <1>5, <1>6
  <2> HIDE DEF cut
  <2>2. CASE i + cut = n
    <3>1. p + 1 - (n - cut) + i = p + 1
      BY ONLY <1>2, <1>8, <2>2, i \in 1..(n - cut)
    <3> QED BY <1>7, <2>1, <2>2, <3>1
  <2>3. CASE i + cut # n
    <3>1. /\ i + cut \in 1..l
          /\ p + 1 - (n - cut) + i = p - l + (i + cut)
          /\ p - l + (i + cut) \in 1..p
      BY ONLY <1>2, <1>8, <2>3, i \in 1..(n - cut)
    <3> QED BY <1>3, <1>7, <2>1, <2>3, <3>1
  <2> QED BY <2>2, <2>3
<1>10. \A i \in 1..(n - cut) : data'[versions'[i]] # 0
  <2> SUFFICES ASSUME NEW i \in 1..(n - cut)
               PROVE  data'[versions'[i]] # 0
    OBVIOUS
  <2>1. i \in DOMAIN Retained(v) /\ Retained(v)[i] \in Versions
    BY <1>6, <1>8
  <2>2. Retained(v)[i] \in ToSet(Retained(v))
    BY <2>1 DEF ToSet
  <2>3. 0 \notin Topologies
    BY DEF Topologies
  <2>4. CASE i + cut = n
    BY <1>5, <1>6, <2>1, <2>3, <2>4
  <2>5. CASE i + cut # n
    <3>1. i + cut \in 1..l /\ Retained(v)[i] = versions[i + cut]
      BY <1>2, <1>6, <1>8, <2>5
    <3>2. data[Retained(v)[i]] # 0 /\ Retained(v)[i] # v
      BY <1>3, <1>4, <3>1
    <3> QED BY <1>5, <2>1, <2>2, <3>2
  <2> QED BY <2>4, <2>5
<1>11. data' \in [Versions -> {0} \cup Topologies]
  BY <1>1, <1>5
<1>12. LatestRetained'
  <2>1. Len(versions') = n - cut /\ Len(published') = p + 1
    BY <1>5, <1>6, <1>7
  <2>2. n - cut <= p + 1 /\ n - cut <= KeepLatest /\ (n - cut < p + 1 => n - cut = KeepLatest)
    BY <1>8
  <2> HIDE DEF n, cut
  <2>3. /\ Len(versions') <= Len(published') /\ Len(versions') <= KeepLatest
        /\ Len(versions') < Len(published') => Len(versions') = KeepLatest
    BY <2>1, <2>2
  <2>4. ASSUME NEW i \in 1..Len(versions')
        PROVE  /\ versions'[i] = published'[Len(published') - Len(versions') + i]
               /\ data'[versions'[i]] # 0
    <3>1. i \in 1..(n - cut)
      BY <2>1, <2>4
    <3>2. versions'[i] = published'[p + 1 - (n - cut) + i] /\ data'[versions'[i]] # 0
      BY <1>9, <1>10, <3>1
    <3>3. Len(published') - Len(versions') + i = p + 1 - (n - cut) + i
      BY <1>2, <1>8, <2>1
    <3> QED BY <3>2, <3>3
  <2> QED BY <2>3, <2>4 DEF LatestRetained
<1> QED BY <1>5, <1>6, <1>11, <1>12

\* What a publication leaves of the order of publications, and of what is read.
LEMMA PublishingKeepsReading ==
    ASSUME TypeOK, ReaderFollows, NEW v \in Versions,
           current' = v, published' = Append(published, v),
           UNCHANGED <<served, reader, backend>>
    PROVE  CurrentIsLast' /\ ReaderFollows' /\ published' \in Seq(Versions)
<1>1. published \in Seq(Versions)
  BY DEF TypeOK
<1>2. /\ Len(published) \in Nat /\ DOMAIN published = 1..Len(published)
      /\ published' \in Seq(Versions) /\ published' # <<>>
      /\ Len(published') = Len(published) + 1 /\ DOMAIN published' = 1..(Len(published) + 1)
      /\ published'[Len(published) + 1] = v
      /\ \A i \in 1..Len(published) : published'[i] = published[i]
  BY <1>1
<1>3. CurrentIsLast'
  BY <1>2 DEF CurrentIsLast
<1>4. ASSUME served.version # 0
      PROVE  \E i \in DOMAIN published' : published'[i] = served.version
  <2>1. PICK i \in DOMAIN published : published[i] = served.version
    BY <1>4 DEF ReaderFollows
  <2> QED BY <1>2, <2>1
<1>5. ASSUME reader.pc = "data"
      PROVE  /\ backend = "redis"
             /\ \E i \in DOMAIN published' :
                   /\ published'[i] = reader.version
                   /\ served.version # 0 => \E j \in 1..i : published'[j] = served.version
  <2>1. PICK i \in DOMAIN published :
               /\ published[i] = reader.version
               /\ served.version # 0 => \E j \in 1..i : published[j] = served.version
    BY <1>5 DEF ReaderFollows
  <2>2. i \in DOMAIN published' /\ 1..i \subseteq 1..Len(published)
    BY <1>2, <2>1
  <2>3. published'[i] = reader.version
    BY <1>2, <2>1
  <2>4. ASSUME served.version # 0
        PROVE  \E j \in 1..i : published'[j] = served.version
    <3>1. PICK j \in 1..i : published[j] = served.version
      BY <2>1, <2>4
    <3> QED BY <1>2, <2>2, <3>1
  <2> QED BY <1>5, <2>2, <2>3, <2>4 DEF ReaderFollows
<1> QED BY <1>2, <1>3, <1>4, <1>5 DEF ReaderFollows

-----------------------------------------------------------------------------
(***************************************************************************)
(* The invariant, step by step                                             *)
(***************************************************************************)

\* The type invariant, taken apart and put together again.
LEMMA TypeParts ==
    /\ TypeOK => WorkerTypes /\ StoreTypes /\ ListenTypes /\ ReaderTypes /\ SharedTypes
    /\ WorkerTypes' /\ StoreTypes' /\ ListenTypes' /\ ReaderTypes' /\ SharedTypes' => TypeOK'
BY DEF TypeOK, WorkerTypes, StoreTypes, ListenTypes, ReaderTypes, SharedTypes, Job, Stages, Announcement

\* The reloader begins with nothing published and nothing served.
LEMMA InitReload == Init => ReloadInv
<1> SUFFICES ASSUME Init PROVE ReloadInv
  OBVIOUS
<1> USE ReloadAssumption DEF ReloadAssumption
<1>1. TypeOK
  <2>1. jobs \in [Topologies -> Job]
    BY DEF Init, Job, Stages
  <2>2. events \in Seq(Announcement)
    <3>1. [kind |-> Healthy, version |-> 0] \in Announcement
      BY DEF Announcement
    <3>2. CASE backend = "memory"
      <4>1. events = <<[kind |-> Healthy, version |-> 0]>>
        BY <3>2 DEF Init
      <4> QED BY <3>1, <4>1
    <3>3. CASE backend # "memory"
      BY <3>3 DEF Init
    <3> QED BY <3>2, <3>3
  <2>3. /\ backend \in Backends /\ clock \in {0} /\ current \in {0}
        /\ data \in [Versions -> {0} \cup Topologies]
        /\ listening \in BOOLEAN /\ missed \in BOOLEAN
    BY DEF Init
  <2>5. versions \in Seq(Versions) /\ published \in Seq(Versions) /\ wire \in Seq(Versions)
    BY DEF Init
  <2>4. /\ mode \in {"PollingFallback", "PubSubHealthy"}
        /\ reader \in [pc: {"wait", "load", "data"}, version: {0} \cup Versions]
        /\ served \in [version: {0} \cup Versions, topology: {0} \cup Topologies]
        /\ drops \in 0..MaxDrops /\ errors \in 0..MaxErrors
    BY DEF Init
  <2> QED BY <2>1, <2>2, <2>3, <2>4, <2>5 DEF TypeOK, Job, Stages, Announcement
<1>2. Built = {} /\ BuiltAgain = {}
  BY DEF Init, Built, BuiltAgain
<1>3. Cardinality({}) = 0
  BY FS_EmptySet
<1>4. VersionsAreFresh
  BY <1>2, <1>3 DEF Init, VersionsAreFresh
<1>5. StoredIsNamed /\ PublishedOnce /\ CurrentIsLast /\ LatestRetained /\ ReaderFollows
  BY DEF Init, StoredIsNamed, PublishedOnce, CurrentIsLast, LatestRetained, ReaderFollows
<1> QED BY <1>1, <1>4, <1>5 DEF ReloadInv

\* The listener, and the reloader until it reads a version: nothing is built,
\* published or served.
LEMMA ListeningKeepsInv ==
    ASSUME ReloadInv, UNCHANGED <<jobs, clock, storeVars, served>>, TypeOK',
           reader'.pc = "data" => reader' = reader
    PROVE  ReloadInv'
<1>1. VersionsAreFresh'
  BY DEF ReloadInv, VersionsAreFresh, Built, BuiltAgain, storeVars
<1>2. StoredIsNamed' /\ PublishedOnce' /\ CurrentIsLast'
  BY DEF ReloadInv, StoredIsNamed, PublishedOnce, CurrentIsLast, storeVars
<1>3. backend' = "redis" => LatestRetained'
  BY DEF ReloadInv, LatestRetained, storeVars
<1>4. ReaderFollows'
  BY DEF ReloadInv, ReaderFollows, storeVars
<1> QED BY <1>1, <1>2, <1>3, <1>4 DEF ReloadInv

\* The worker's steps that publish nothing leave the store and the reader alone.
LEMMA WorkingKeepsInv ==
    ASSUME ReloadInv, UNCHANGED <<storeVars, reader, served>>, TypeOK',
           VersionsAreFresh', StoredIsNamed'
    PROVE  ReloadInv'
<1>1. PublishedOnce' /\ CurrentIsLast'
  BY DEF ReloadInv, PublishedOnce, CurrentIsLast, storeVars
<1>2. backend' = "redis" => LatestRetained'
  BY DEF ReloadInv, LatestRetained, storeVars
<1>3. ReaderFollows'
  BY DEF ReloadInv, ReaderFollows, storeVars
<1> QED BY <1>1, <1>2, <1>3 DEF ReloadInv

\* A task moves on without building or publishing.
LEMMA CollectKeepsInv ==
    ASSUME ReloadInv, NEW t \in Topologies, Collect(t)
    PROVE  ReloadInv'
<1>1. TypeOK /\ VersionsAreFresh /\ StoredIsNamed
  BY DEF ReloadInv
<1>2. /\ jobs[t].stage = "none" /\ jobs' = [jobs EXCEPT ![t].stage = "collected"]
      /\ UNCHANGED <<clock, storeVars, listenVars, events, readerVars, missed>>
  BY DEF Collect
<1>3. VersionsAreFresh'
  BY <1>1, <1>2, MovingOnKeepsFresh DEF storeVars, Stages
<1>4. WorkerTypes /\ StoreTypes /\ ListenTypes /\ ReaderTypes /\ SharedTypes
  BY <1>1, TypeParts
<1>5. WorkerTypes'
  BY <1>2, <1>4 DEF WorkerTypes, Job, Stages
<1>6. StoredIsNamed'
  BY <1>1, <1>2, <1>4 DEF StoredIsNamed, WorkerTypes, Job
<1>7. StoreTypes' /\ ListenTypes' /\ ReaderTypes' /\ SharedTypes'
  BY <1>2, <1>4 DEF StoreTypes, ListenTypes, ReaderTypes, SharedTypes, storeVars, listenVars, readerVars
<1>8. TypeOK'
  BY <1>5, <1>7, TypeParts
<1> QED BY <1>2, <1>3, <1>6, <1>8, WorkingKeepsInv DEF readerVars

LEMMA BuildKeepsInv ==
    ASSUME ReloadInv, NEW t \in Topologies, Build(t) \/ Enrich(t)
    PROVE  ReloadInv'
<1>1. TypeOK /\ VersionsAreFresh /\ StoredIsNamed
  BY DEF ReloadInv
<1>2. WorkerTypes /\ StoreTypes /\ ListenTypes /\ ReaderTypes /\ SharedTypes
  BY <1>1, TypeParts
<1>3. \E again \in BOOLEAN : \E b :
        /\ jobs[t].stage = IF again THEN "published" ELSE "collected"
        /\ jobs' = [jobs EXCEPT ![t] = b]
        /\ b.stage = "built" /\ b.version = clock + 1 /\ b.enriched = again
        /\ clock + 1 \in Versions => b \in Job
  <2>1. CASE Build(t)
    <3> DEFINE b == [jobs[t] EXCEPT !.stage = "built", !.version = clock + 1]
    <3>1. jobs[t].stage = "collected" /\ jobs[t].enriched = FALSE /\ jobs[t] \in Job
      BY <1>1, <1>2, <2>1 DEF Build, VersionsAreFresh, WorkerTypes, Job
    <3>2. b.stage = "built" /\ b.version = clock + 1 /\ b.enriched = FALSE
      BY <3>1 DEF Job
    <3>3. clock + 1 \in Versions => b \in Job
      BY <3>1 DEF Job, Stages
    <3>4. jobs' = [jobs EXCEPT ![t] = b]
      BY <2>1 DEF Build
    <3> HIDE DEF b
    <3> QED BY <3>1, <3>2, <3>3, <3>4
  <2>2. CASE Enrich(t)
    <3> DEFINE b == [stage |-> "built", version |-> clock + 1, enriched |-> TRUE]
    <3>1. b.stage = "built" /\ b.version = clock + 1 /\ b.enriched = TRUE
      OBVIOUS
    <3>2. clock + 1 \in Versions => b \in Job
      BY DEF Job, Stages
    <3>3. jobs[t].stage = "published" /\ jobs' = [jobs EXCEPT ![t] = b]
      BY <2>2 DEF Enrich
    <3> HIDE DEF b
    <3> QED BY <3>1, <3>2, <3>3
  <2> QED BY <2>1, <2>2
<1>4. /\ clock' = clock + 1
      /\ UNCHANGED <<storeVars, listenVars, events, readerVars, missed>>
  BY DEF Build, Enrich
<1>5. VersionsAreFresh' /\ jobs' \in [Topologies -> Job] /\ clock' \in Versions
  BY <1>1, <1>3, <1>4, BuildingKeepsFresh DEF storeVars
<1>6. StoredIsNamed'
  BY <1>1, <1>2, <1>3 DEF StoredIsNamed, WorkerTypes
<1>7. WorkerTypes' /\ StoreTypes' /\ ListenTypes' /\ ReaderTypes' /\ SharedTypes'
  BY <1>2, <1>4, <1>5 DEF WorkerTypes, StoreTypes, ListenTypes, ReaderTypes, SharedTypes, storeVars, listenVars, readerVars
<1>8. TypeOK'
  BY <1>7, TypeParts
<1> QED BY <1>4, <1>5, <1>6, <1>8, WorkingKeepsInv DEF readerVars

LEMMA PublishKeepsInv ==
    ASSUME ReloadInv, NEW t \in Topologies, Publish(t)
    PROVE  ReloadInv'
<1> DEFINE v == jobs[t].version
           to == IF backend = "redis" THEN AfterPublish(t) ELSE "stored"
<1>1. /\ TypeOK /\ VersionsAreFresh /\ StoredIsNamed /\ PublishedOnce /\ ReaderFollows
      /\ backend = "redis" => LatestRetained
  BY DEF ReloadInv
<1>2. WorkerTypes /\ StoreTypes /\ ListenTypes /\ ReaderTypes /\ SharedTypes
  BY <1>1, TypeParts
<1>3. /\ jobs[t].stage = "built"
      /\ UNCHANGED <<clock, listening, drops, events, readerVars, backend>>
      /\ published' = Append(published, v) /\ current' = v
      /\ jobs' = [jobs EXCEPT ![t].stage = to]
      /\ backend = "redis" => PublishRedis(v, t)
      /\ backend # "redis" => StoreMemory(v, t)
  BY DEF Publish, PublishRedis, StoreMemory
<1>4. v \in 1..clock /\ v \in Versions /\ \A i \in DOMAIN published : published[i] # v
  <2>1. v \in 1..clock /\ \A i \in DOMAIN published : published[i] # v
    BY <1>1, <1>3 DEF VersionsAreFresh
  <2>2. jobs[t] \in Job
    BY <1>2 DEF WorkerTypes
  <2>3. v \in {0} \cup Versions /\ MaxDiscoveries \in Nat /\ clock \in Nat
    BY <1>2, <2>2, JobFields, ReloadAssumption DEF WorkerTypes, Versions, ReloadAssumption
  <2> QED BY <2>1, <2>3
<1>5. to \in {"stored", "published", "done"} /\ (to = "published" => ~jobs[t].enriched)
  BY DEF AfterPublish
<1> HIDE DEF v, to
<1>6. VersionsAreFresh' /\ PublishedOnce'
  BY <1>1, <1>3, <1>5, PublishingKeepsFresh DEF v
<1>7. CurrentIsLast' /\ ReaderFollows' /\ published' \in Seq(Versions)
  BY <1>1, <1>3, <1>4, PublishingKeepsReading DEF readerVars
<1>8. /\ versions' \in Seq(Versions) /\ data' \in [Versions -> {0} \cup Topologies]
      /\ backend' = "redis" => LatestRetained'
  <2>1. CASE backend = "redis"
    BY <1>1, <1>3, <1>4, <2>1, PublishingRetains
  <2>2. CASE backend # "redis"
    <3>1. versions' = <<v>> /\ data' = [u \in Versions |-> IF u = v THEN t ELSE 0]
      BY <1>3, <2>2 DEF StoreMemory
    <3> QED BY <1>3, <1>4, <2>2, <3>1
  <2> QED BY <2>1, <2>2
<1>9. StoredIsNamed'
  BY <1>1, <1>2, <1>3, <1>4 DEF StoredIsNamed, WorkerTypes, Job, v
<1>10. WorkerTypes'
  BY <1>2, <1>3, <1>5 DEF WorkerTypes, Job, Stages
<1>11. wire' \in Seq(Versions) /\ missed' \in BOOLEAN
  <2>1. missed' = missed \/ missed' = (missed \/ ~listening)
    BY <1>3 DEF PublishRedis, StoreMemory
  <2>2. missed' \in BOOLEAN
    BY <1>2, <2>1, Zenon DEF SharedTypes
  <2>3. wire' = wire \/ wire' = Append(wire, v)
    BY <1>3 DEF PublishRedis, StoreMemory
  <2> QED BY <1>2, <1>4, <2>2, <2>3 DEF ListenTypes
<1>12. StoreTypes' /\ ListenTypes' /\ ReaderTypes' /\ SharedTypes'
  BY <1>2, <1>3, <1>4, <1>7, <1>8, <1>11 DEF StoreTypes, ListenTypes, ReaderTypes, SharedTypes, readerVars
<1>13. TypeOK'
  BY <1>10, <1>12, TypeParts
<1> QED BY <1>6, <1>7, <1>8, <1>9, <1>13 DEF ReloadInv

\* A publication that was stored is announced, or one fails.
LEMMA AnnounceKeepsInv ==
    ASSUME ReloadInv, NEW t \in Topologies, Announce(t) \/ PublishFails(t)
    PROVE  ReloadInv'
<1>1. TypeOK /\ VersionsAreFresh /\ StoredIsNamed
  BY DEF ReloadInv
<1>2. WorkerTypes /\ StoreTypes /\ ListenTypes /\ ReaderTypes /\ SharedTypes
  BY <1>1, TypeParts
<1>3. \E from \in {"built", "stored"}, to \in {"published", "done"} :
        /\ jobs[t].stage = from /\ jobs' = [jobs EXCEPT ![t].stage = to]
        /\ to = "published" => ~jobs[t].enriched
  BY DEF Announce, PublishFails, AfterPublish
<1>4. UNCHANGED <<clock, storeVars, listening, drops, events, readerVars>>
  BY DEF Announce, PublishFails, listenVars
<1>5. VersionsAreFresh'
  <2>1. PICK from \in {"built", "stored"}, to \in {"published", "done"} :
          /\ jobs[t].stage = from /\ jobs' = [jobs EXCEPT ![t].stage = to]
          /\ to = "published" => ~jobs[t].enriched
    BY <1>3
  <2>2. from \in Stages /\ UNCHANGED <<clock, published>>
    BY <1>4 DEF Stages, storeVars
  <2> QED BY <1>1, <2>1, <2>2, MovingOnKeepsFresh
<1>6. WorkerTypes' /\ StoredIsNamed'
  BY <1>1, <1>2, <1>3, <1>4 DEF WorkerTypes, StoredIsNamed, Job, Stages
<1>7. wire' \in Seq(Versions) /\ missed' \in BOOLEAN
  <2>1. missed' = missed \/ missed' = (missed \/ jobs[t].version # current)
    BY DEF Announce, PublishFails
  <2>2. missed' \in BOOLEAN
    BY <1>2, <2>1, Zenon DEF SharedTypes
  <2>3. CASE Announce(t)
    <3>1. wire' = <<jobs[t].version>> /\ jobs[t].version \in Versions
      BY <1>1, <2>3 DEF Announce, StoredIsNamed
    <3> QED BY <2>2, <3>1
  <2>4. CASE PublishFails(t)
    BY <1>2, <2>2, <2>4 DEF PublishFails, listenVars, ListenTypes
  <2> QED BY <2>3, <2>4
<1>8. StoreTypes' /\ ListenTypes' /\ ReaderTypes' /\ SharedTypes'
  BY <1>2, <1>4, <1>7 DEF StoreTypes, ListenTypes, ReaderTypes, SharedTypes, storeVars, readerVars
<1>9. TypeOK'
  BY <1>6, <1>8, TypeParts
<1> QED BY <1>4, <1>5, <1>6, <1>9, WorkingKeepsInv DEF readerVars

\* The steps that only carry announcements, or only wake the reloader.
LEMMA CarryingKeepsInv ==
    ASSUME ReloadInv,
           Subscribe \/ Forward \/ Drop \/ PollTick \/ ReceiveEvent \/ LoadError
    PROVE  ReloadInv'
<1>1. WorkerTypes /\ StoreTypes /\ ListenTypes /\ ReaderTypes /\ SharedTypes
  BY TypeParts DEF ReloadInv
<1>2. UNCHANGED <<workerVars, storeVars, served>>
  BY DEF Subscribe, Forward, Drop, PollTick, ReceiveEvent, LoadError, readerVars
<1>3. WorkerTypes' /\ StoreTypes'
  BY <1>1, <1>2 DEF WorkerTypes, StoreTypes, workerVars, storeVars
<1>4. ListenTypes'
  <2>1. listening' \in BOOLEAN
    BY <1>1 DEF Subscribe, Forward, Drop, PollTick, ReceiveEvent, LoadError, listenVars, ListenTypes
  <2>2. drops' = drops \/ (drops' = drops + 1 /\ drops < MaxDrops)
    BY DEF Subscribe, Forward, Drop, PollTick, ReceiveEvent, LoadError, listenVars
  <2>3. wire' = wire \/ wire' = <<>> \/ (wire' = Tail(wire) /\ wire # <<>>)
    BY DEF Subscribe, Forward, Drop, PollTick, ReceiveEvent, LoadError, listenVars
  <2>4. MaxDrops \in Nat
    BY ReloadAssumption DEF ReloadAssumption
  <2>5. drops' \in 0..MaxDrops
    <3>1. drops \in 0..MaxDrops
      BY <1>1 DEF ListenTypes
    <3> QED BY ONLY <2>2, <2>4, <3>1
  <2>6. wire' \in Seq(Versions)
    <3>1. wire \in Seq(Versions)
      BY <1>1 DEF ListenTypes
    <3>2. wire # <<>> => Tail(wire) \in Seq(Versions)
      BY ONLY <3>1
    <3>3. <<>> \in Seq(Versions)
      OBVIOUS
    <3> QED BY ONLY <2>3, <3>1, <3>2, <3>3
  <2> QED BY <2>1, <2>5, <2>6 DEF ListenTypes
<1>5. events' \in Seq(Announcement)
  <2>1. \A v \in {0} \cup Versions : /\ Event(Healthy, v) \in Announcement
                                     /\ Event(Degraded, v) \in Announcement
                                     /\ Event("version", v) \in Announcement
    BY DEF Announcement, Event
  <2>2. wire # <<>> => Head(wire) \in {0} \cup Versions
    BY <1>1 DEF ListenTypes
  <2>3. \/ events' = events
        \/ events' = Tail(events) /\ events # <<>>
        \/ \E e \in Announcement : events' = Append(events, e)
    <3>1. CASE Subscribe \/ Drop
      BY <2>1, <3>1 DEF Subscribe, Drop
    <3>2. CASE Forward
      BY <2>1, <2>2, <3>2 DEF Forward
    <3>3. CASE PollTick \/ ReceiveEvent \/ LoadError
      BY <3>3 DEF PollTick, ReceiveEvent, LoadError
    <3> QED BY <3>1, <3>2, <3>3
  <2> QED BY <1>1, <2>3 DEF SharedTypes
<1>6. missed' \in BOOLEAN
  <2>1. missed' = missed \/ missed' = TRUE \/ missed' = (missed \/ wire # <<>>)
    BY DEF Subscribe, Forward, Drop, PollTick, ReceiveEvent, LoadError
  <2> QED BY <1>1, <2>1, Zenon DEF SharedTypes
<1>7. /\ reader' \in [pc: {"wait", "load", "data"}, version: {0} \cup Versions]
      /\ (reader'.pc = "data" => reader' = reader)
  <2>1. \/ reader' = reader \/ reader' = [reader EXCEPT !.pc = "load"]
        \/ reader' = [pc |-> "wait", version |-> 0]
    BY DEF Subscribe, Forward, Drop, PollTick, ReceiveEvent, LoadError, readerVars
  <2> QED BY <1>1, <2>1 DEF ReaderTypes
<1>8. mode' \in {"PollingFallback", "PubSubHealthy"} /\ errors' \in 0..MaxErrors
  <2>1. errors' = errors \/ (errors' = errors + 1 /\ errors < MaxErrors)
    BY DEF Subscribe, Forward, Drop, PollTick, ReceiveEvent, LoadError, readerVars
  <2>2. mode' = mode \/ \E kind : mode' = NextMode(kind)
    BY DEF Subscribe, Forward, Drop, PollTick, ReceiveEvent, LoadError, readerVars
  <2>3. MaxErrors \in Nat
    BY ReloadAssumption DEF ReloadAssumption
  <2>4. errors' \in 0..MaxErrors
    BY <1>1, <2>1, <2>3 DEF ReaderTypes
  <2>5. mode' \in {"PollingFallback", "PubSubHealthy"}
    BY <1>1, <2>2 DEF ReaderTypes, NextMode
  <2> QED BY <2>4, <2>5
<1>9. TypeOK'
  BY <1>1, <1>2, <1>3, <1>4, <1>5, <1>6, <1>7, <1>8, TypeParts DEF ReaderTypes, SharedTypes
<1> QED BY <1>2, <1>7, <1>9, ListeningKeepsInv DEF workerVars

\* Where a published version stands is where it was published.
LEMMA PositionOf ==
    ASSUME PublishedOnce, NEW i \in DOMAIN published
    PROVE  Position(published[i]) = i
BY DEF PublishedOnce, Position

\* What the reloader reads next it reads in the order of publication: the
\* current version is the last one.
LEMMA ReadingMovesForward ==
    ASSUME ReloadInv, LoadCurrent \/ LoadData
    PROVE  /\ ReaderFollows'
           /\ ReaderTypes' /\ SharedTypes'
           /\ UNCHANGED <<workerVars, storeVars, listenVars>>
           /\ served' # served /\ served.version # 0
                 => Position(served'.version) > Position(served.version)
<1>1. WorkerTypes /\ StoreTypes /\ ListenTypes /\ ReaderTypes /\ SharedTypes
  BY TypeParts DEF ReloadInv
<1>2. PublishedOnce /\ CurrentIsLast /\ ReaderFollows
  BY DEF ReloadInv
<1>3. /\ UNCHANGED <<workerVars, storeVars, listenVars, events, mode, errors>>
      /\ UNCHANGED <<published, backend>>
  BY DEF LoadCurrent, LoadData, storeVars
<1>4. SharedTypes'
  <2>1. missed' = missed \/ missed' = TRUE \/ missed' = FALSE
    BY DEF LoadCurrent, LoadData
  <2> QED BY <1>1, <1>3, <2>1 DEF SharedTypes
<1>5. DOMAIN published = 1..Len(published) /\ Len(published) \in Nat
      /\ (current # 0 => /\ Len(published) \in DOMAIN published
                         /\ published[Len(published)] = current)
  BY <1>1, <1>2 DEF StoreTypes, CurrentIsLast
<1>6. ASSUME NEW v, NEW i \in DOMAIN published, published[i] = v, Install(v),
             served.version # 0 => \E j \in 1..i : published[j] = served.version
      PROVE  /\ ReaderFollows'
             /\ served' \in [version: {0} \cup Versions, topology: {0} \cup Topologies]
             /\ reader' \in [pc: {"wait", "load", "data"}, version: {0} \cup Versions]
             /\ served' # served /\ served.version # 0
                   => Position(served'.version) > Position(served.version)
  <2>1. v \in Versions /\ data[v] \in {0} \cup Topologies
    BY <1>1, <1>6 DEF StoreTypes
  <2>2. reader' = [pc |-> "wait", version |-> 0]
    BY <1>6 DEF Install
  <2>3. \/ served' = served
        \/ served' = [version |-> v, topology |-> data[v]] /\ served.version # v
    BY <1>6 DEF Install, ShouldReload
  <2>4. ReaderFollows'
    BY <1>2, <1>3, <1>6, <2>2, <2>3 DEF ReaderFollows
  <2>5. ASSUME served' # served, served.version # 0
        PROVE  Position(served'.version) > Position(served.version)
    <3>1. PICK j \in 1..i : published[j] = served.version
      BY <1>6, <2>5
    <3>2. served'.version = v /\ j # i /\ j \in DOMAIN published
      BY <1>5, <1>6, <2>3, <2>5, <3>1
    <3>3. Position(v) = i /\ Position(served.version) = j
      BY <1>2, <1>6, <3>1, <3>2, PositionOf
    <3> QED BY <1>5, <3>2, <3>3
  <2> QED BY <1>1, <2>1, <2>2, <2>3, <2>4, <2>5 DEF ReaderTypes
<1>7. CASE LoadCurrent
  <2>1. served.version # 0 => \E j \in 1..Len(published) : published[j] = served.version
    BY <1>2, <1>5 DEF ReaderFollows
  <2>2. CASE current = 0
    <3>1. served' = served /\ reader' = [reader EXCEPT !.pc = "wait"]
      BY <1>7, <2>2 DEF LoadCurrent
    <3> QED BY <1>1, <1>2, <1>3, <1>4, <3>1 DEF ReaderFollows, ReaderTypes
  <2>3. CASE current # 0 /\ backend = "redis"
    <3>1. served' = served /\ reader' = [pc |-> "data", version |-> current]
      BY <1>7, <2>3 DEF LoadCurrent
    <3>2. ReaderFollows'
      BY <1>2, <1>3, <1>5, <2>1, <2>3, <3>1 DEF ReaderFollows
    <3> QED BY <1>1, <1>3, <1>4, <3>1, <3>2 DEF ReaderTypes, StoreTypes
  <2>4. CASE current # 0 /\ backend # "redis"
    <3>1. Install(current)
      BY <1>7, <2>4 DEF LoadCurrent
    <3> QED BY <1>1, <1>3, <1>4, <1>5, <1>6, <2>1, <2>4, <3>1 DEF ReaderTypes
  <2> QED BY <2>2, <2>3, <2>4
<1>8. CASE LoadData
  <2>1. PICK i \in DOMAIN published :
               /\ published[i] = reader.version
               /\ served.version # 0 => \E j \in 1..i : published[j] = served.version
    BY <1>2, <1>8 DEF LoadData, ReaderFollows
  <2>2. CASE Install(reader.version)
    BY <1>1, <1>3, <1>4, <1>6, <2>1, <2>2 DEF ReaderTypes
  <2>3. CASE ~Install(reader.version)
    <3>1. served' = served /\ reader' = [pc |-> "wait", version |-> 0]
      BY <1>8, <2>3 DEF LoadData
    <3> QED BY <1>1, <1>2, <1>3, <1>4, <3>1 DEF ReaderFollows, ReaderTypes
  <2> QED BY <2>2, <2>3
<1> QED BY <1>7, <1>8

LEMMA ReadingKeepsInv ==
    ASSUME ReloadInv, LoadCurrent \/ LoadData
    PROVE  ReloadInv'
<1>1. /\ ReaderFollows' /\ ReaderTypes' /\ SharedTypes'
      /\ UNCHANGED <<workerVars, storeVars, listenVars>>
  BY ReadingMovesForward
<1>2. WorkerTypes /\ StoreTypes /\ ListenTypes
  BY TypeParts DEF ReloadInv
<1>3. TypeOK'
  BY <1>1, <1>2, TypeParts DEF WorkerTypes, StoreTypes, ListenTypes, workerVars, storeVars, listenVars
<1>4. VersionsAreFresh' /\ StoredIsNamed' /\ PublishedOnce' /\ CurrentIsLast'
  BY <1>1 DEF ReloadInv, VersionsAreFresh, StoredIsNamed, PublishedOnce, CurrentIsLast,
              Built, BuiltAgain, workerVars, storeVars
<1>5. backend' = "redis" => LatestRetained'
  BY <1>1 DEF ReloadInv, LatestRetained, storeVars
<1> QED BY <1>1, <1>3, <1>4, <1>5 DEF ReloadInv

LEMMA StepReload == ReloadInv /\ [Next]_vars => ReloadInv'
<1> SUFFICES ASSUME ReloadInv, [Next]_vars PROVE ReloadInv'
  OBVIOUS
<1>1. CASE Next
  BY <1>1, CollectKeepsInv, BuildKeepsInv, PublishKeepsInv, AnnounceKeepsInv,
     CarryingKeepsInv, ReadingKeepsInv DEF Next, Worker, Listener, Reloader
<1>2. CASE UNCHANGED vars
  <2>1. WorkerTypes /\ StoreTypes /\ ListenTypes /\ ReaderTypes /\ SharedTypes
    BY TypeParts DEF ReloadInv
  <2>2. UNCHANGED <<workerVars, storeVars, listenVars, events, readerVars, missed>>
    BY <1>2 DEF vars
  <2>3. TypeOK'
    BY <2>1, <2>2, TypeParts DEF WorkerTypes, StoreTypes, ListenTypes, ReaderTypes, SharedTypes,
       workerVars, storeVars, listenVars, readerVars
  <2> QED BY <2>2, <2>3, ListeningKeepsInv DEF workerVars, readerVars
<1> QED BY <1>1, <1>2

\* The inductive invariant holds in every reachable state.
LEMMA SpecReload == Spec => []ReloadInv
BY InitReload, StepReload, PTL DEF Spec

-----------------------------------------------------------------------------
(***************************************************************************)
(* The theorems on the reload                                              *)
(***************************************************************************)

\* Every variable of the worker, the store, the listener and the reloader keeps
\* its type, whatever is published, lost or loaded
\* (crates/market-snapshot/src/store.rs, crates/api-server/src/state.rs).
THEOREM SnapshotTypeCorrect == Spec => []TypeOK
BY SpecReload, PTL DEF ReloadInv

\* A load between its two reads finds its version gone only if at least
\* KeepLatest publications overtook it: the script that deletes what it no
\* longer lists cannot touch anything younger (load_current_snapshot in store.rs).
THEOREM LoadsFailOnlyWhenOutrun == Spec => []LoadFailsOnlyWhenOutrun
<1>1. ReloadInv => LoadFailsOnlyWhenOutrun
  <2> SUFFICES ASSUME ReloadInv, reader.pc = "data", data[reader.version] = 0
               PROVE  Len(published) - Position(reader.version) >= KeepLatest
    BY DEF LoadFailsOnlyWhenOutrun
  <2>1. PICK i \in DOMAIN published : published[i] = reader.version
    BY DEF ReloadInv, ReaderFollows
  <2>2. Position(reader.version) = i
    BY <2>1, PositionOf DEF ReloadInv
  <2>3. LatestRetained
    BY DEF ReloadInv, ReaderFollows
  <2> DEFINE l == Len(versions)
             p == Len(published)
  <2>4. /\ l \in Nat /\ p \in Nat /\ KeepLatest \in Nat /\ i \in 1..p
    BY TypeParts, ReloadAssumption DEF ReloadInv, StoreTypes, ReloadAssumption
  <2>5. /\ l <= p
        /\ l < p => l = KeepLatest
        /\ \A k \in 1..l : published[p - l + k] = versions[k] /\ data[versions[k]] # 0
    BY <2>3 DEF LatestRetained
  <2> HIDE DEF l, p
  <2>6. i <= p - l
    <3> SUFFICES ASSUME i > p - l PROVE FALSE
      BY <2>4
    <3>1. i - (p - l) \in 1..l /\ p - l + (i - (p - l)) = i
      BY <2>4, <2>5
    <3>2. data[published[i]] # 0
      BY <2>5, <3>1
    <3> QED BY <2>1, <3>2
  <2>7. p - i >= KeepLatest
    BY <2>4, <2>5, <2>6
  <2> QED BY <2>2, <2>7 DEF p
<1> QED BY <1>1, SpecReload, PTL

\* The API never goes back to a snapshot published before the one it serves,
\* in either deployment and whatever is lost on the way (the reload loop of
\* crates/api-server/src/state.rs).
THEOREM ServingMovesForward == Spec => ServedMovesForward
<1> DEFINE Forward_ == served' # served /\ served.version # 0
                          => Position(served'.version) > Position(served.version)
<1>1. ReloadInv /\ [Next]_vars => [Forward_]_vars
  <2> SUFFICES ASSUME ReloadInv, Next, served' # served
               PROVE  Forward_
    BY DEF vars, readerVars
  <2>1. LoadCurrent \/ LoadData
    BY DEF Next, Worker, Listener, Reloader, Collect, Build, Enrich, Publish, Announce, PublishFails,
           Subscribe, Forward, Drop, PollTick, ReceiveEvent, LoadError, readerVars
  <2> QED BY <2>1, ReadingMovesForward
<1> QED BY <1>1, SpecReload, PTL DEF Spec, ServedMovesForward

-----------------------------------------------------------------------------
(***************************************************************************)
(* The swap form                                                           *)
(***************************************************************************)
Forms == [pair : Tokens \X Tokens, amount : Nat, limits : Limits]
TxStatuses == {"built", "signed", "sent", "queued", "refused", "success", "failed"}
Tx == [quote : Forms \union {NoQuote}, amount : Nat, seq : Nat,
       status : TxStatuses, valid : BOOLEAN]
Swap == [pc : {"idle", "balance", "sign", "submit", "sent", "confirm"},
         quote : Forms \union {NoQuote}, amount : Nat, tx : Nat]
Known == 0 .. Len(txs)

\* What the form and its quote are.
FormTypes ==
  /\ form \in Forms
  /\ link \in {<<>>} \union Tokens \X Tokens
  /\ quote \in Forms \union {NoQuote}
  /\ request = NoQuote \/ request \in [of : Forms, silent : BOOLEAN]

\* What is tracked.
TrackTypes ==
  /\ view \in Mounts /\ storage \in BOOLEAN
  /\ txs \in Seq(Tx) /\ landed \in Nat
  /\ swap \in [Mounts -> Swap]
  /\ pending \in [Mounts -> Known] /\ checking \in [Mounts -> Known]
  /\ kept \in Known
  /\ result \in [tx : Known, success : BOOLEAN]

\* A quote is for the pair of the form ...
QuoteOfForm == quote # NoQuote => quote.pair = form.pair

\* ... and what is under way for the amount of its quote.
SwapsOfQuotes ==
  /\ \A m \in Mounts : swap[m].pc = "balance" => swap[m].quote.amount = swap[m].amount
  /\ \A t \in DOMAIN txs : txs[t].quote.amount = txs[t].amount

\* How far a swap has got tells how far its transaction has, and no other swap
\* has that one.
SwapsFollow ==
  /\ \A m \in Mounts :
       /\ swap[m].pc \in {"sign", "submit", "sent", "confirm"} => swap[m].tx \in DOMAIN txs
       /\ swap[m].pc = "sign" => txs[swap[m].tx].status = "built"
       /\ swap[m].pc = "submit" => txs[swap[m].tx].status = "signed"
       /\ swap[m].tx \in Known
       /\ m > view => swap[m].pc = "idle"
  /\ \A m, n \in Mounts : swap[m].tx # 0 /\ swap[m].tx = swap[n].tx => m = n

\* From the signature on a transaction may be executed one day.
Live(t) == txs[t].status \in {"signed", "sent", "queued"}

Tracked ==
  /\ swap[view].pc \in {"balance", "sign"} => pending[view] = 0
  /\ \A t \in DOMAIN txs : Live(t) /\ t \notin loose =>
       pending[view] = t /\ (storage => kept = t)
  /\ ~storage => kept = 0

\* What the page says of a transaction is true, and there is such a transaction.
ResultTold == ResultIsTrue /\ (result # NoResult => result.tx \in DOMAIN txs)

\* What is not about the form.
TrackInv ==
  /\ TrackTypes /\ SwapsOfQuotes /\ SwapsFollow /\ Tracked
  /\ ResultTold

CardInv == FormTypes /\ QuoteOfForm /\ TrackInv

LEMMA CardStarts == CardInit => CardInv
<1> SUFFICES ASSUME CardInit PROVE CardInv
  OBVIOUS
<1>1. /\ MaxMounts \in Nat \ {0} /\ 1 \in Mounts
      /\ FirstPair \in Tokens \X Tokens
  BY CardAssumption DEF CardAssumption, Mounts
<1>2. FormTypes /\ QuoteOfForm
  BY <1>1 DEF CardInit, FormTypes, QuoteOfForm, Forms, Pairs
<1>3. txs = <<>> /\ Len(txs) = 0 /\ DOMAIN txs = {} /\ Known = {0}
  BY DEF CardInit, Known
<1>4. TrackTypes
  BY <1>1, <1>3 DEF CardInit, TrackTypes, Swap, Idle, NoResult
<1>5. SwapsOfQuotes /\ SwapsFollow /\ Tracked /\ ResultTold
  BY <1>1, <1>3 DEF CardInit, SwapsOfQuotes, SwapsFollow, Tracked, ResultTold, ResultIsTrue, Idle
<1> QED BY <1>2, <1>4, <1>5 DEF CardInv, TrackInv

\* Steps of the form leave alone what is tracked, and the other way round.
LEMMA TrackingUntouched ==
  ASSUME TrackInv, UNCHANGED <<view, storage, tracking>>
  PROVE TrackInv'
<1>1. /\ view' = view /\ storage' = storage /\ txs' = txs /\ landed' = landed /\ swap' = swap
      /\ pending' = pending /\ checking' = checking /\ kept' = kept /\ result' = result
      /\ loose' = loose
  BY DEF tracking
<1>2. TrackTypes' /\ SwapsOfQuotes'
  BY <1>1 DEF TrackInv, TrackTypes, SwapsOfQuotes, Known
<1>3. SwapsFollow' /\ Tracked' /\ ResultTold'
  BY <1>1 DEF TrackInv, SwapsFollow, Tracked, ResultTold, ResultIsTrue, Known, Live
<1> QED BY <1>2, <1>3 DEF TrackInv

LEMMA FormUntouched ==
  ASSUME FormTypes, QuoteOfForm, UNCHANGED <<form, link, quote, request>>
  PROVE FormTypes' /\ QuoteOfForm'
BY DEF FormTypes, QuoteOfForm

LEMMA LoadTypes ==
  ASSUME FormTypes, NEW silent \in BOOLEAN, Load(silent)
  PROVE request' \in [of : Forms, silent : BOOLEAN]
BY DEF Load, FormTypes

\* An edit leaves no quote for another pair.
LEMMA EditKeeps ==
  ASSUME FormTypes, QuoteOfForm, NEW f \in Forms, NEW q, Edited(f, q),
         q = NoQuote \/ (q = quote /\ f.pair = form.pair),
         link' = link,
         request' = request \/ request' \in [of : Forms, silent : BOOLEAN]
  PROVE FormTypes' /\ QuoteOfForm'
<1>1. form' = f /\ (quote' = NoQuote \/ quote' = q)
  BY DEF Edited
<1>2. FormTypes'
  BY <1>1 DEF FormTypes
<1>3. QuoteOfForm'
  BY <1>1 DEF QuoteOfForm
<1> QED BY <1>2, <1>3

LEMMA FormFields ==
  ASSUME NEW f \in Forms
  PROVE /\ f.pair \in Tokens \X Tokens /\ f.amount \in Nat /\ f.limits \in Limits
        /\ \A a \in Nat : [f EXCEPT !.amount = a] \in Forms /\ [f EXCEPT !.amount = a].pair = f.pair
        /\ \A l \in Limits : [f EXCEPT !.limits = l] \in Forms /\ [f EXCEPT !.limits = l].pair = f.pair
        /\ \A p \in Tokens \X Tokens : [f EXCEPT !.pair = p] \in Forms
        /\ \A p \in Tokens \X Tokens, a \in Nat : [f EXCEPT !.pair = p, !.amount = a] \in Forms
BY DEF Forms

\* The steps that only concern the form and its quote.
FormStep ==
  \/ TypeAmount \/ ChangeSettings \/ ChooseToken \/ ChoosePercent \/ FollowLink
  \/ DebounceFires \/ Refresh \/ Answer

LEMMA FormStepKeeps ==
  ASSUME CardInv, FormStep
  PROVE FormTypes' /\ QuoteOfForm' /\ UNCHANGED <<view, storage, tracking>>
<1>1. FormTypes /\ QuoteOfForm /\ form \in Forms /\ Amounts \subseteq Nat
  BY CardAssumption DEF CardInv, FormTypes, CardAssumption
<1>2. CASE TypeAmount
  <2>1. PICK a \in Amounts \union {0} :
          /\ Edited([form EXCEPT !.amount = a], quote)
          /\ UNCHANGED <<link, loading, request, quotes>>
    BY <1>2 DEF TypeAmount
  <2>2. [form EXCEPT !.amount = a] \in Forms /\ [form EXCEPT !.amount = a].pair = form.pair
    <3>1. a \in Nat
      BY <1>1
    <3> QED BY <1>1, <3>1, FormFields
  <2>3. FormTypes' /\ QuoteOfForm'
    BY <1>1, <2>1, <2>2, EditKeeps
  <2> QED BY <2>1, <2>3 DEF Edited
<1>3. CASE ChangeSettings
  <2>1. PICK l \in Limits :
          /\ Edited([form EXCEPT !.limits = l], quote)
          /\ UNCHANGED <<link, loading, request, quotes>>
    BY <1>3 DEF ChangeSettings
  <2>2. [form EXCEPT !.limits = l] \in Forms /\ [form EXCEPT !.limits = l].pair = form.pair
    BY <1>1, FormFields
  <2>3. FormTypes' /\ QuoteOfForm'
    BY <1>1, <2>1, <2>2, EditKeeps
  <2> QED BY <2>1, <2>3 DEF Edited
<1>4. CASE ChooseToken
  <2>1. PICK i \in {1, 2}, t \in Tokens :
          /\ Edited([form EXCEPT !.pair = Chosen(form.pair, i, t),
                                 !.amount = IF i = 1 THEN 0 ELSE @], NoQuote)
          /\ UNCHANGED <<link, loading, request, quotes>>
    BY <1>4 DEF ChooseToken
  <2>2. Chosen(form.pair, i, t) \in Tokens \X Tokens
    <3>1. form.pair \in Tokens \X Tokens
      BY <1>1, FormFields
    <3>2. PICK x, y \in Tokens : form.pair = <<x, y>>
      BY <3>1
    <3> QED BY <3>2 DEF Chosen
  <2> DEFINE f == [form EXCEPT !.pair = Chosen(form.pair, i, t),
                               !.amount = IF i = 1 THEN 0 ELSE @]
  <2>3. f \in Forms
    BY <1>1, <2>2 DEF Forms
  <2>4. Edited(f, NoQuote)
    BY <2>1
  <2> HIDE DEF f
  <2>5. FormTypes' /\ QuoteOfForm'
    BY <1>1, <2>1, <2>3, <2>4, EditKeeps
  <2> QED BY <2>4, <2>5 DEF Edited
<1>5. CASE ChoosePercent
  <2>1. PICK a \in Amounts :
          /\ Edited([form EXCEPT !.amount = a], NoQuote)
          /\ IF a = form.amount THEN Load(FALSE) ELSE UNCHANGED <<loading, request, quotes>>
          /\ UNCHANGED link
    BY <1>5 DEF ChoosePercent
  <2>2. [form EXCEPT !.amount = a] \in Forms
    BY <1>1, FormFields
  <2>3. request' = request \/ request' \in [of : Forms, silent : BOOLEAN]
    BY <1>1, <2>1, LoadTypes
  <2>4. FormTypes' /\ QuoteOfForm'
    BY <1>1, <2>1, <2>2, <2>3, EditKeeps
  <2> QED BY <2>1, <2>4 DEF Edited
<1>6. CASE FollowLink
  <2>1. /\ link \in Tokens \X Tokens /\ link' = <<>> /\ request' = request
        /\ \/ form' = [form EXCEPT !.pair = link] /\ quote' = NoQuote
           \/ form' = form /\ quote' = quote
        /\ UNCHANGED <<view, storage, tracking>>
    BY <1>1, <1>6 DEF FollowLink, FormTypes
  <2>2. form' \in Forms
    BY <1>1, <2>1, FormFields
  <2> QED BY <1>1, <2>1, <2>2 DEF FormTypes, QuoteOfForm
<1>7. CASE DebounceFires
  <2>1. Load(FALSE) /\ UNCHANGED <<form, link, quote, view, storage, tracking>>
    BY <1>7 DEF DebounceFires
  <2>2. request' \in [of : Forms, silent : BOOLEAN]
    BY <1>1, <2>1, LoadTypes
  <2> QED BY <1>1, <2>1, <2>2 DEF FormTypes, QuoteOfForm
<1>8. CASE Refresh
  <2>1. Load(TRUE) /\ UNCHANGED <<form, link, quote, view, storage, tracking>>
    BY <1>8 DEF Refresh
  <2>2. request' \in [of : Forms, silent : BOOLEAN]
    BY <1>1, <2>1, LoadTypes
  <2> QED BY <1>1, <2>1, <2>2 DEF FormTypes, QuoteOfForm
<1>9. CASE Answer
  <2>1. /\ request' = NoQuote /\ UNCHANGED <<form, link, view, storage, tracking>>
        /\ \/ request.of = form /\ quote' = Quoted(request.of)
           \/ quote' = NoQuote
           \/ quote' = quote
    BY <1>9 DEF Answer, Counts
  <2>2. request.of = form /\ quote' = Quoted(request.of) =>
          quote' \in Forms /\ quote'.pair = form.pair
    BY <1>1, FormFields DEF Quoted, Forms
  <2> QED BY <1>1, <2>1, <2>2 DEF FormTypes, QuoteOfForm
<1> QED BY <1>2, <1>3, <1>4, <1>5, <1>6, <1>7, <1>8, <1>9 DEF FormStep

\* A swap goes on waiting, or ends; a transaction is the same as before.
Quieter ==
  \A n \in Mounts : \/ swap'[n] = swap[n]
                    \/ swap'[n] = Idle
                    \/ swap[n].pc = "sent" /\ swap'[n] = [swap[n] EXCEPT !.pc = "confirm"]

LEMMA QuieterKeeps ==
  ASSUME TrackInv, Quieter, txs' = txs, view' \in Mounts, view' >= view
  PROVE /\ SwapsOfQuotes' /\ SwapsFollow'
        /\ swap'[view'].pc \in {"balance", "sign"} => view' = view /\ swap'[view] = swap[view]
<1>1. /\ swap \in [Mounts -> Swap] /\ view \in Mounts /\ SwapsOfQuotes /\ SwapsFollow
      /\ Mounts \subseteq Nat /\ Len(txs) \in Nat
  BY LenProperties DEF TrackInv, TrackTypes, Mounts
<1>2. ASSUME NEW n \in Mounts
      PROVE /\ swap[n] \in Swap
            /\ swap'[n].pc \in {swap[n].pc, "idle", "confirm"}
            /\ swap'[n].pc = "confirm" => swap[n].pc \in {"sent", "confirm"}
            /\ swap'[n].tx \in {0, swap[n].tx}
            /\ swap'[n].pc # "idle" => swap'[n].tx = swap[n].tx
            /\ swap'[n].pc = "balance" => swap'[n] = swap[n]
            /\ swap'[n].pc = "sign" => swap'[n] = swap[n]
  <2>1. swap[n] \in Swap
    BY <1>1
  <2>2. CASE swap'[n] = swap[n]
    BY <2>1, <2>2
  <2>3. CASE swap'[n] = Idle
    BY <2>1, <2>3 DEF Idle
  <2>4. CASE swap[n].pc = "sent" /\ swap'[n] = [swap[n] EXCEPT !.pc = "confirm"]
    <3>1. swap'[n].pc = "confirm" /\ swap'[n].tx = swap[n].tx
      BY <2>1, <2>4 DEF Swap
    <3> QED BY <2>1, <2>4, <3>1
  <2> QED BY <2>2, <2>3, <2>4 DEF Quieter
<1>3. SwapsOfQuotes'
  BY <1>1, <1>2 DEF SwapsOfQuotes
<1>4. SwapsFollow'
  <2>1. ASSUME NEW n \in Mounts
        PROVE /\ swap'[n].pc \in {"sign", "submit", "sent", "confirm"} => swap'[n].tx \in DOMAIN txs
              /\ swap'[n].pc = "sign" => txs[swap'[n].tx].status = "built"
              /\ swap'[n].pc = "submit" => txs[swap'[n].tx].status = "signed"
              /\ swap'[n].tx \in Known
              /\ n > view' => swap'[n].pc = "idle"
    <3>1. n > view' => n > view
      BY <1>1
    <3> QED BY <1>1, <1>2, <3>1 DEF SwapsFollow, Known
  <2>2. ASSUME NEW n \in Mounts, NEW o \in Mounts, swap'[n].tx # 0, swap'[n].tx = swap'[o].tx
        PROVE n = o
    <3>1. swap[n].tx = swap'[n].tx /\ swap[o].tx = swap'[o].tx
      BY <1>2, <2>2
    <3> QED BY <1>1, <2>2, <3>1 DEF SwapsFollow
  <2> QED BY <2>1, <2>2 DEF SwapsFollow, Known
<1>5. swap'[view'].pc \in {"balance", "sign"} => view' = view /\ swap'[view] = swap[view]
  <2>1. view' # view => swap[view'].pc = "idle"
    BY <1>1 DEF SwapsFollow
  <2> QED BY <1>1, <1>2, <2>1
<1> QED BY <1>3, <1>4, <1>5

\* A transaction the network has decided, or refused.
Outcome(t, success) ==
  /\ t \in DOMAIN txs /\ success \in BOOLEAN
  /\ txs[t].status \in IF success THEN {"success"} ELSE {"failed", "refused"}

\* The page forgets nothing but a transaction that has had its outcome, which it
\* shows, or nothing at all.
LEMMA SettleKeeps ==
  ASSUME TrackInv, NEW m \in Mounts,
         UNCHANGED <<view, storage, txs, landed, loose>>,
         swap' \in [Mounts -> Swap], Quieter,
         checking' \in [Mounts -> Known],
         \/ UNCHANGED <<pending, kept, result>>
         \/ \E t, success : Outcome(t, success) /\ Finish(m, t, success)
  PROVE TrackInv'
<1>1. /\ TrackTypes /\ Tracked /\ ResultTold /\ view \in Mounts
      /\ Mounts \subseteq Nat /\ DOMAIN txs = 1 .. Len(txs) /\ Len(txs) \in Nat
  BY LenProperties DEF TrackInv, TrackTypes, Mounts
<1>2. /\ SwapsOfQuotes' /\ SwapsFollow'
      /\ swap'[view].pc \in {"balance", "sign"} => swap[view].pc \in {"balance", "sign"}
  BY <1>1, QuieterKeeps
<1>3. CASE UNCHANGED <<pending, kept, result>>
  <2>1. TrackTypes'
    BY <1>1, <1>3 DEF TrackTypes, Known
  <2>2. Tracked' /\ ResultTold'
    BY <1>1, <1>2, <1>3 DEF Tracked, ResultTold, ResultIsTrue, Live
  <2> QED BY <1>2, <2>1, <2>2 DEF TrackInv
<1>4. CASE \E t, success : Outcome(t, success) /\ Finish(m, t, success)
  <2>1. PICK t, success : Outcome(t, success) /\ Finish(m, t, success)
    BY <1>4
  <2>2. /\ pending \in [Mounts -> Known] /\ kept \in Known /\ pending[m] = t
        /\ pending' = [pending EXCEPT ![m] = 0]
        /\ kept' = Cleared(t)
        /\ \/ m = view /\ result' = [tx |-> t, success |-> success]
           \/ m # view /\ result' = result
    BY <1>1, <2>1 DEF Finish, TrackTypes
  <2>3. /\ t \in 1 .. Len(txs) /\ t \in Known /\ t # 0 /\ 0 \in Known /\ ~Live(t)
        /\ success \in BOOLEAN
    BY <1>1, <2>1 DEF Outcome, Known, Live
  <2>4. pending' \in [Mounts -> Known] /\ kept' \in Known /\ kept' \in {0, kept}
    BY <2>2, <2>3 DEF Cleared
  <2>5. result' \in [tx : Known, success : BOOLEAN]
    BY <1>1, <2>2, <2>3 DEF TrackTypes
  <2>6. TrackTypes'
    BY <1>1, <2>4, <2>5 DEF TrackTypes, Known
  <2>7. Tracked'
    <3>1. swap'[view].pc \in {"balance", "sign"} => pending'[view] = 0
      BY <1>1, <1>2, <2>2 DEF Tracked
    <3>2. ASSUME NEW u \in DOMAIN txs, Live(u), u \notin loose
          PROVE pending'[view] = u /\ (storage => kept' = u)
      <4>1. pending[view] = u /\ (storage => kept = u) /\ u # t
        BY <1>1, <2>3, <3>2 DEF Tracked
      <4>2. m # view
        BY <2>2, <4>1
      <4> QED BY <1>1, <2>2, <4>1, <4>2 DEF Cleared
    <3>3. ~storage => kept' = 0
      BY <1>1, <2>4 DEF Tracked
    <3> QED BY <3>1, <3>2, <3>3 DEF Tracked, Live
  <2>8. ResultTold'
    BY <1>1, <2>1, <2>2 DEF ResultTold, ResultIsTrue, Outcome, NoResult
  <2> QED BY <1>2, <2>6, <2>7, <2>8 DEF TrackInv
<1> QED BY <1>3, <1>4

\* What the steps of a swap start from.
LEMMA AtHand ==
  ASSUME TrackInv
  PROVE /\ TrackTypes /\ SwapsOfQuotes /\ SwapsFollow /\ Tracked /\ ResultTold
        /\ view \in Mounts /\ Mounts \subseteq Nat
        /\ Len(txs) \in Nat /\ DOMAIN txs = 1 .. Len(txs) /\ DOMAIN txs \subseteq Known
        /\ \A t \in DOMAIN txs : txs[t] \in Tx
        /\ swap \in [Mounts -> Swap] /\ \A m \in Mounts : swap[m] \in Swap
        /\ pending \in [Mounts -> Known] /\ checking \in [Mounts -> Known] /\ kept \in Known
        /\ 0 \in Known /\ 0 \notin DOMAIN txs
        /\ Idle \in Swap
<1>1. /\ TrackTypes /\ SwapsOfQuotes /\ SwapsFollow /\ Tracked /\ ResultTold
      /\ Mounts \subseteq Nat
  BY DEF TrackInv, Mounts
<1>2. txs \in Seq(Tx)
  BY <1>1 DEF TrackTypes
<1>3. /\ Len(txs) \in Nat /\ DOMAIN txs = 1 .. Len(txs) /\ DOMAIN txs \subseteq Known
      /\ 0 \in Known /\ 0 \notin DOMAIN txs
  BY <1>2, LenProperties DEF Known
<1>4. \A t \in DOMAIN txs : txs[t] \in Tx
  BY <1>2, <1>3, ElementOfSeq
<1>5. Idle \in Swap
  BY DEF Idle, Swap
<1> QED BY <1>1, <1>3, <1>4, <1>5 DEF TrackTypes

LEMMA ClickKeeps ==
  ASSUME CardInv, Click
  PROVE CardInv'
<1>1. FormTypes /\ QuoteOfForm /\ TrackInv /\ form.amount \in Nat
  BY FormFields DEF CardInv, FormTypes
<1>2. CASE stale /\ Load(FALSE) /\ UNCHANGED <<form, link, quote, stale, debounce, edits, tracking>>
  <2>1. request' \in [of : Forms, silent : BOOLEAN]
    BY <1>1, <1>2, LoadTypes
  <2>2. FormTypes' /\ QuoteOfForm'
    BY <1>1, <1>2, <2>1 DEF FormTypes, QuoteOfForm
  <2>3. TrackInv'
    BY <1>1, <1>2, TrackingUntouched DEF Click
  <2> QED BY <2>2, <2>3 DEF CardInv
<1>3. CASE /\ ~stale /\ IsOfAmount(quote, form.amount)
           /\ swap' = [swap EXCEPT ![view] =
                [pc |-> "balance", quote |-> quote, amount |-> form.amount, tx |-> 0]]
           /\ result' = NoResult
           /\ UNCHANGED <<asking, pending, checking, kept, txs, landed, loose>>
  <2> DEFINE begun == [pc |-> "balance", quote |-> quote, amount |-> form.amount, tx |-> 0]
  <2>1. FormTypes' /\ QuoteOfForm'
    BY <1>1, <1>3, FormUntouched DEF asking
  <2>2. /\ view' = view /\ storage' = storage /\ txs' = txs /\ landed' = landed
        /\ pending' = pending /\ checking' = checking /\ kept' = kept /\ loose' = loose
        /\ pending[view] = 0
    BY <1>3 DEF Click, Enabled
  <2>3. begun \in Swap /\ begun.quote.amount = begun.amount /\ begun.tx = 0 /\ begun.pc = "balance"
    BY <1>1, <1>3 DEF Swap, FormTypes, IsOfAmount
  <2>4. swap' = [swap EXCEPT ![view] = begun] /\ result' = NoResult
    BY <1>3
  <2> HIDE DEF begun
  <2>5. \A m \in Mounts : swap'[m] = IF m = view THEN begun ELSE swap[m]
    BY <1>1, <2>4, AtHand
  <2>6. TrackTypes'
    BY <1>1, <2>2, <2>3, <2>4, AtHand DEF TrackTypes, Known, NoResult
  <2>7. SwapsOfQuotes'
    BY <1>1, <2>2, <2>3, <2>5, AtHand DEF SwapsOfQuotes
  <2>8. SwapsFollow'
    <3>1. \A m \in Mounts :
            /\ swap'[m].pc \in {"sign", "submit", "sent", "confirm"} => swap'[m].tx \in DOMAIN txs
            /\ swap'[m].pc = "sign" => txs[swap'[m].tx].status = "built"
            /\ swap'[m].pc = "submit" => txs[swap'[m].tx].status = "signed"
            /\ swap'[m].tx \in Known
            /\ m > view => swap'[m].pc = "idle"
      BY <1>1, <2>3, <2>5, AtHand DEF SwapsFollow
    <3>2. \A m, n \in Mounts : swap'[m].tx # 0 /\ swap'[m].tx = swap'[n].tx => m = n
      BY <1>1, <2>3, <2>5, AtHand DEF SwapsFollow
    <3> QED BY <2>2, <3>1, <3>2 DEF SwapsFollow, Known
  <2>9. Tracked' /\ ResultTold'
    BY <1>1, <2>2, <2>4, AtHand DEF Tracked, ResultTold, ResultIsTrue, Live
  <2> QED BY <2>1, <2>6, <2>7, <2>8, <2>9 DEF CardInv, TrackInv
<1>4. CASE /\ result' = NoResult
           /\ UNCHANGED <<asking, swap, pending, checking, kept, txs, landed, loose>>
  <2>1. FormTypes' /\ QuoteOfForm'
    BY <1>1, <1>4, FormUntouched DEF asking
  <2>2. view' = view /\ storage' = storage
    BY DEF Click
  <2>3. TrackTypes' /\ ResultTold'
    BY <1>1, <1>4, <2>2, AtHand DEF TrackTypes, ResultTold, ResultIsTrue, NoResult, Known
  <2>4. SwapsOfQuotes' /\ SwapsFollow' /\ Tracked'
    BY <1>1, <1>4, <2>2, AtHand DEF SwapsOfQuotes, SwapsFollow, Tracked, Live, Known
  <2> QED BY <2>1, <2>3, <2>4 DEF CardInv, TrackInv
<1> QED BY <1>2, <1>3, <1>4 DEF Click

LEMMA BuildKeeps ==
  ASSUME TrackInv, NEW m \in Mounts, BuildTx(m)
  PROVE TrackInv'
<1>1. /\ UNCHANGED <<view, storage, pending, checking, kept, result, landed, loose>>
      /\ swap[m].pc = "balance" /\ swap[m] \in Swap
  BY AtHand DEF BuildTx
<1>2. CASE Ends(m) /\ UNCHANGED txs
  <2>1. swap' = [swap EXCEPT ![m] = Idle] /\ txs' = txs
    BY <1>2 DEF Ends
  <2>2. swap' \in [Mounts -> Swap] /\ Quieter
    BY <2>1, AtHand DEF Quieter
  <2> QED BY <1>1, <2>1, <2>2, AtHand, SettleKeeps
<1>3. CASE /\ txs' = Append(txs, [quote |-> swap[m].quote, amount |-> swap[m].amount,
                                  seq |-> landed + 1, status |-> "built", valid |-> TRUE])
           /\ swap' = [swap EXCEPT ![m].pc = "sign", ![m].tx = Len(txs) + 1]
  <2> DEFINE tx == [quote |-> swap[m].quote, amount |-> swap[m].amount,
                    seq |-> landed + 1, status |-> "built", valid |-> TRUE]
             n == Len(txs) + 1
  <2>1. tx \in Tx /\ tx.status = "built" /\ tx.quote.amount = tx.amount
    <3>1. swap[m].quote \in Forms \union {NoQuote} /\ swap[m].amount \in Nat
      BY <1>1 DEF Swap
    <3>2. landed + 1 \in Nat /\ swap[m].quote.amount = swap[m].amount
      BY <1>1, AtHand DEF TrackTypes, SwapsOfQuotes
    <3> QED BY <3>1, <3>2 DEF Tx, TxStatuses
  <2>2. txs' = Append(txs, tx)
    BY <1>3
  <2> HIDE DEF tx
  <2>3. /\ txs' \in Seq(Tx) /\ Len(txs') = n /\ txs'[n] = tx /\ n \in Nat \ {0}
        /\ \A t \in DOMAIN txs : txs'[t] = txs[t]
    BY <2>1, <2>2, AtHand, AppendProperties DEF TrackTypes
  <2>4. /\ DOMAIN txs' = DOMAIN txs \union {n} /\ n \notin Known
        /\ Known' = Known \union {n}
    BY <2>3, AtHand, LenProperties DEF Known
  <2>5. /\ swap' \in [Mounts -> Swap]
        /\ \A o \in Mounts : IF o = m THEN swap'[o].pc = "sign" /\ swap'[o].tx = n
                                      ELSE swap'[o] = swap[o]
    <3>1. swap' = [swap EXCEPT ![m] = [swap[m] EXCEPT !.pc = "sign", !.tx = n]]
      BY <1>3, AtHand
    <3>2. [swap[m] EXCEPT !.pc = "sign", !.tx = n] \in Swap
      BY <1>1, <2>3 DEF Swap
    <3>3. /\ [swap[m] EXCEPT !.pc = "sign", !.tx = n].pc = "sign"
          /\ [swap[m] EXCEPT !.pc = "sign", !.tx = n].tx = n
      BY <1>1 DEF Swap
    <3> QED BY <3>1, <3>2, <3>3, AtHand
  <2> HIDE DEF n
  <2>6. TrackTypes'
    <3>1. result \in [tx : Known, success : BOOLEAN]
      BY AtHand DEF TrackTypes
    <3>2. result' \in [tx : Known', success : BOOLEAN]
      BY <1>1, <2>4, <3>1
    <3> QED BY <1>1, <2>3, <2>4, <2>5, <3>2, AtHand DEF TrackTypes
  <2>7. SwapsOfQuotes'
    BY <2>1, <2>3, <2>4, <2>5, AtHand DEF SwapsOfQuotes
  <2>8. SwapsFollow'
    <3>1. ASSUME NEW o \in Mounts
          PROVE /\ swap'[o].pc \in {"sign", "submit", "sent", "confirm"} => swap'[o].tx \in DOMAIN txs'
                /\ swap'[o].pc = "sign" => txs'[swap'[o].tx].status = "built"
                /\ swap'[o].pc = "submit" => txs'[swap'[o].tx].status = "signed"
                /\ swap'[o].tx \in Known'
                /\ o > view' => swap'[o].pc = "idle"
      <4>1. CASE o = m
        BY <1>1, <2>1, <2>3, <2>4, <2>5, <4>1, AtHand DEF SwapsFollow
      <4>2. CASE o # m
        BY <1>1, <2>3, <2>4, <2>5, <4>2, AtHand DEF SwapsFollow
      <4> QED BY <4>1, <4>2
    <3>2. \A o \in Mounts : o # m => swap'[o].tx \in Known /\ swap'[o].tx = swap[o].tx
      BY <2>5, AtHand DEF SwapsFollow
    <3>3. \A o, q \in Mounts : swap'[o].tx # 0 /\ swap'[o].tx = swap'[q].tx => o = q
      BY <2>4, <2>5, <3>2, AtHand DEF SwapsFollow
    <3> QED BY <3>1, <3>3 DEF SwapsFollow
  <2>9. Tracked' /\ ResultTold'
    <3>1. swap'[view'].pc \in {"balance", "sign"} => pending'[view'] = 0
      BY <1>1, <2>5, AtHand DEF Tracked
    <3>2. \A t \in DOMAIN txs' : Live(t)' => t \in DOMAIN txs /\ Live(t)
      BY <2>1, <2>3, <2>4 DEF Live
    <3>3. Tracked'
      BY <1>1, <3>1, <3>2, AtHand DEF Tracked
    <3> QED BY <1>1, <2>3, <2>4, <3>3, AtHand DEF ResultTold, ResultIsTrue
  <2> QED BY <2>6, <2>7, <2>8, <2>9 DEF TrackInv
<1> QED BY <1>2, <1>3 DEF BuildTx

\* A transaction whose status, and validity, change: the others stay as they are.
LEMMA StatusChanges ==
  ASSUME TrackInv, NEW t \in DOMAIN txs, NEW status \in TxStatuses, NEW valid \in BOOLEAN,
         \/ txs' = [txs EXCEPT ![t].status = status]
         \/ txs' = [txs EXCEPT ![t].status = status, ![t].valid = valid]
  PROVE /\ txs' \in Seq(Tx) /\ Len(txs') = Len(txs) /\ DOMAIN txs' = DOMAIN txs /\ Known' = Known
        /\ txs'[t].status = status
        /\ \A u \in DOMAIN txs : u # t => txs'[u] = txs[u]
        /\ SwapsOfQuotes => \A u \in DOMAIN txs : txs'[u].quote.amount = txs'[u].amount
<1>1. txs \in Seq(Tx) /\ txs[t] \in Tx /\ DOMAIN txs = 1 .. Len(txs) /\ Len(txs) \in Nat
  BY AtHand DEF TrackTypes
<1>2. PICK tx \in Tx : /\ txs' = [txs EXCEPT ![t] = tx] /\ tx.status = status
                       /\ tx.quote = txs[t].quote /\ tx.amount = txs[t].amount
  <2>1. CASE txs' = [txs EXCEPT ![t].status = status]
    <3> DEFINE tx == [txs[t] EXCEPT !.status = status]
    <3>1. tx \in Tx /\ tx.status = status /\ tx.quote = txs[t].quote /\ tx.amount = txs[t].amount
      BY <1>1 DEF Tx
    <3> QED BY <1>1, <2>1, <3>1
  <2>2. CASE txs' = [txs EXCEPT ![t].status = status, ![t].valid = valid]
    <3> DEFINE tx == [txs[t] EXCEPT !.status = status, !.valid = valid]
    <3>1. tx \in Tx /\ tx.status = status /\ tx.quote = txs[t].quote /\ tx.amount = txs[t].amount
      BY <1>1 DEF Tx
    <3>2. txs' = [txs EXCEPT ![t] = tx]
      BY <1>1, <2>2
    <3> QED BY <3>1, <3>2
  <2> QED BY <2>1, <2>2
<1>3. /\ txs' \in Seq(Tx) /\ Len(txs') = Len(txs) /\ DOMAIN txs' = DOMAIN txs
      /\ txs'[t] = tx /\ \A u \in DOMAIN txs : u # t => txs'[u] = txs[u]
  BY <1>1, <1>2, ExceptSeq
<1>4. SwapsOfQuotes => \A u \in DOMAIN txs : txs'[u].quote.amount = txs'[u].amount
  BY <1>2, <1>3 DEF SwapsOfQuotes
<1> QED BY <1>2, <1>3, <1>4 DEF Known

\* The transaction of a swap and those of the others.
LEMMA OwnTx ==
  ASSUME TrackInv, NEW m \in Mounts, swap[m].pc \in {"sign", "submit", "sent", "confirm"}
  PROVE /\ swap[m].tx \in DOMAIN txs /\ swap[m].tx # 0
        /\ \A n \in Mounts : n # m => swap[n].tx # swap[m].tx
BY AtHand DEF SwapsFollow

\* A swap goes a step on: the others, and the transactions, stay as they are.
LEMMA GotoIs ==
  ASSUME TrackInv, NEW m \in Mounts, NEW place \in {"submit", "sent", "confirm"}, Goto(m, place)
  PROVE /\ swap' \in [Mounts -> Swap]
        /\ swap'[m].pc = place /\ swap'[m].tx = swap[m].tx
        /\ \A n \in Mounts : n # m => swap'[n] = swap[n]
<1> DEFINE s == [swap[m] EXCEPT !.pc = place]
<1>1. s \in Swap /\ s.pc = place /\ s.tx = swap[m].tx
  BY AtHand DEF Swap
<1>2. swap' = [swap EXCEPT ![m] = s]
  BY DEF Goto
<1> HIDE DEF s
<1> QED BY <1>1, <1>2, AtHand

\* The rest of what a swap keeps when it goes on and only its transaction changes.
LEMMA GoesOn ==
  ASSUME TrackInv, NEW m \in Mounts, swap[m].pc \in {"sign", "submit"},
         NEW place \in {"submit", "sent"}, Goto(m, place),
         NEW status \in TxStatuses, NEW valid \in BOOLEAN,
         \/ txs' = [txs EXCEPT ![swap[m].tx].status = status]
         \/ txs' = [txs EXCEPT ![swap[m].tx].status = status, ![swap[m].tx].valid = valid],
         place = "submit" => status = "signed",
         UNCHANGED <<view, storage, result, landed, checking>>,
         pending' \in [Mounts -> Known], kept' \in Known
  PROVE TrackTypes' /\ SwapsOfQuotes' /\ SwapsFollow' /\ ResultTold'
<1> DEFINE t == swap[m].tx
<1>1. /\ t \in DOMAIN txs /\ t # 0
      /\ \A n \in Mounts : n # m => swap[n].tx # t
  BY OwnTx
<1>2. /\ txs' \in Seq(Tx) /\ Len(txs') = Len(txs) /\ DOMAIN txs' = DOMAIN txs /\ Known' = Known
      /\ txs'[t].status = status /\ \A u \in DOMAIN txs : u # t => txs'[u] = txs[u]
      /\ \A u \in DOMAIN txs : txs'[u].quote.amount = txs'[u].amount
  BY <1>1, StatusChanges, AtHand
<1>3. /\ swap' \in [Mounts -> Swap] /\ swap'[m].pc = place /\ swap'[m].tx = t
      /\ \A n \in Mounts : n # m => swap'[n] = swap[n]
  BY GotoIs
<1>4. txs[t].status \in {"built", "signed"}
  BY AtHand DEF SwapsFollow
<1> HIDE DEF t
<1>5. TrackTypes'
  BY <1>2, <1>3, AtHand DEF TrackTypes
<1>6. SwapsOfQuotes'
  <2>1. \A n \in Mounts : swap'[n].pc = "balance" => swap'[n].quote.amount = swap'[n].amount
    <3>1. SwapsOfQuotes
      BY AtHand
    <3>2. \A n \in Mounts : swap'[n].pc = "balance" => swap'[n] = swap[n]
      BY <1>3
    <3> QED BY <3>1, <3>2 DEF SwapsOfQuotes
  <2> QED BY <1>2, <2>1 DEF SwapsOfQuotes
<1>7. SwapsFollow'
  <2>1. ASSUME NEW n \in Mounts
        PROVE /\ swap'[n].pc \in {"sign", "submit", "sent", "confirm"} => swap'[n].tx \in DOMAIN txs'
              /\ swap'[n].pc = "sign" => txs'[swap'[n].tx].status = "built"
              /\ swap'[n].pc = "submit" => txs'[swap'[n].tx].status = "signed"
              /\ swap'[n].tx \in Known'
              /\ n > view' => swap'[n].pc = "idle"
    <3>1. CASE n = m
      <4>1. ~(m > view)
        BY AtHand DEF SwapsFollow
      <4> QED BY <1>1, <1>2, <1>3, <3>1, <4>1, AtHand
    <3>2. CASE n # m
      BY <1>1, <1>2, <1>3, <3>2, AtHand DEF SwapsFollow
    <3> QED BY <3>1, <3>2
  <2>2. \A n \in Mounts : swap'[n].tx = swap[n].tx
    BY <1>3 DEF t
  <2>3. \A n, o \in Mounts : swap'[n].tx # 0 /\ swap'[n].tx = swap'[o].tx => n = o
    BY <2>2, AtHand DEF SwapsFollow
  <2> QED BY <2>1, <2>3 DEF SwapsFollow
<1>8. ResultTold'
  <2>1. result # NoResult => result.tx # t
    BY <1>4, AtHand DEF ResultTold, ResultIsTrue
  <2> QED BY <1>2, <2>1, AtHand DEF ResultTold, ResultIsTrue, NoResult
<1> QED BY <1>5, <1>6, <1>7, <1>8

LEMMA SignKeeps ==
  ASSUME TrackInv, NEW m \in Mounts, Sign(m)
  PROVE TrackInv'
<1>1. /\ UNCHANGED <<view, storage, checking, result, landed>>
      /\ swap[m].pc = "sign"
  BY DEF Sign
<1>2. CASE Ends(m) /\ UNCHANGED <<txs, pending, kept, loose>>
  <2>1. swap' = [swap EXCEPT ![m] = Idle] /\ txs' = txs
    BY <1>2 DEF Ends
  <2>2. swap' \in [Mounts -> Swap] /\ Quieter
    BY <2>1, AtHand DEF Quieter
  <2>3. UNCHANGED <<view, storage, txs, landed, loose>> /\ UNCHANGED <<pending, kept, result>>
        /\ checking' \in [Mounts -> Known]
    BY <1>1, <1>2, AtHand
  <2> QED BY <2>2, <2>3, SettleKeeps
<1>3. CASE \E valid \in BOOLEAN :
             /\ txs' = [txs EXCEPT ![swap[m].tx].status = "signed", ![swap[m].tx].valid = valid]
             /\ pending' = [pending EXCEPT ![m] = swap[m].tx]
             /\ kept' = Kept(swap[m].tx)
             /\ loose' = IF m = view THEN loose ELSE loose \union {swap[m].tx, kept}
             /\ Goto(m, "submit")
  <2> DEFINE t == swap[m].tx
  <2>1. PICK valid \in BOOLEAN :
             txs' = [txs EXCEPT ![swap[m].tx].status = "signed", ![swap[m].tx].valid = valid]
    BY <1>3
  <2>2. /\ pending' = [pending EXCEPT ![m] = t] /\ kept' = Kept(t)
        /\ loose' = IF m = view THEN loose ELSE loose \union {t, kept}
        /\ Goto(m, "submit")
    BY <1>3
  <2>3. "signed" \in TxStatuses
    BY DEF TxStatuses
  <2>4. t \in DOMAIN txs /\ t \in Known /\ t # 0
    BY <1>1, OwnTx, AtHand
  <2>5. /\ DOMAIN txs' = DOMAIN txs
        /\ \A u \in DOMAIN txs : u # t => txs'[u] = txs[u]
    BY <2>1, <2>3, <2>4, StatusChanges
  <2>6. swap'[m].pc = "submit" /\ \A n \in Mounts : n # m => swap'[n] = swap[n]
    BY <2>2, GotoIs
  <2>7. pending' \in [Mounts -> Known] /\ kept' \in Known /\ (~storage => kept' = kept)
        /\ (storage => kept' = t)
    BY <2>2, <2>4, AtHand DEF Kept
  <2>8. TrackTypes' /\ SwapsOfQuotes' /\ SwapsFollow' /\ ResultTold'
    BY <1>1, <2>1, <2>2, <2>3, <2>7, GoesOn
  <2> HIDE DEF t
  <2>9. Tracked'
    <3>1. CASE m = view
      <4>1. pending[view] = 0
        BY <1>1, <3>1, AtHand DEF Tracked
      <4>2. \A u \in DOMAIN txs : ~(Live(u) /\ u \notin loose)
        BY <4>1, AtHand DEF Tracked
      <4>3. loose' = loose /\ pending'[view] = t /\ swap'[view].pc = "submit"
        BY <2>2, <2>6, <3>1, AtHand
      <4>4. ASSUME NEW u \in DOMAIN txs', Live(u)', u \notin loose'
            PROVE u = t
        BY <2>5, <4>2, <4>3, <4>4 DEF Live
      <4> QED BY <1>1, <2>7, <4>3, <4>4, AtHand DEF Tracked
    <3>2. CASE m # view
      <4>1. loose' = loose \union {t, kept} /\ pending'[view] = pending[view] /\ swap'[view] = swap[view]
        BY <2>2, <2>6, <3>2, AtHand
      <4>2. ASSUME NEW u \in DOMAIN txs', Live(u)', u \notin loose'
            PROVE pending'[view] = u /\ (storage => kept' = u)
        <5>1. u # t /\ u # kept /\ u \notin loose /\ u \in DOMAIN txs /\ Live(u)
          BY <2>5, <4>1, <4>2 DEF Live
        <5>2. pending[view] = u /\ (storage => kept = u)
          BY <5>1, AtHand DEF Tracked
        <5> QED BY <4>1, <5>1, <5>2
      <4> QED BY <1>1, <2>7, <4>1, <4>2, AtHand DEF Tracked
    <3> QED BY <3>1, <3>2
  <2> QED BY <2>8, <2>9 DEF TrackInv
<1> QED BY <1>2, <1>3 DEF Sign

LEMMA BroadcastKeeps ==
  ASSUME TrackInv, NEW m \in Mounts, Broadcast(m)
  PROVE TrackInv'
<1>1. /\ UNCHANGED <<view, storage, pending, checking, kept, result, landed, loose>>
      /\ swap[m].pc = "submit" /\ Goto(m, "sent")
  BY DEF Broadcast
<1> DEFINE t == swap[m].tx
<1>2. PICK status \in {"refused", "sent", "queued"} : txs' = [txs EXCEPT ![swap[m].tx].status = status]
  BY DEF Broadcast, OfficialRpc, ApiServer
<1>3. status \in TxStatuses
  BY DEF TxStatuses
<1>4. t \in DOMAIN txs /\ txs[t].status = "signed"
  BY <1>1, OwnTx, AtHand DEF SwapsFollow
<1>5. /\ DOMAIN txs' = DOMAIN txs
      /\ \A u \in DOMAIN txs : u # t => txs'[u] = txs[u]
  BY <1>2, <1>3, <1>4, StatusChanges
<1>6. TrackTypes' /\ SwapsOfQuotes' /\ SwapsFollow' /\ ResultTold'
  BY <1>1, <1>2, <1>3, GoesOn, AtHand
<1>7. swap'[view].pc \in {"balance", "sign"} => swap[view].pc \in {"balance", "sign"}
  BY <1>1, GotoIs, AtHand
<1>8. \A u \in DOMAIN txs' : Live(u)' => u \in DOMAIN txs /\ Live(u)
  BY <1>4, <1>5 DEF Live
<1>9. Tracked'
  BY <1>1, <1>7, <1>8, AtHand DEF Tracked
<1> QED BY <1>6, <1>9 DEF TrackInv

LEMMA LandKeeps ==
  ASSUME TrackInv, Land
  PROVE TrackInv'
<1>1. UNCHANGED <<view, storage, swap, pending, checking, kept, result, loose>>
  BY DEF Land
<1>2. PICK t \in DOMAIN txs, status \in {"success", "failed"} :
        /\ txs[t].status = "queued" /\ txs' = [txs EXCEPT ![t].status = status]
        /\ landed' = landed + 1
  BY DEF Land
<1>3. status \in TxStatuses
  BY DEF TxStatuses
<1>4. /\ txs' \in Seq(Tx) /\ DOMAIN txs' = DOMAIN txs /\ Known' = Known
      /\ txs'[t].status = status
      /\ \A u \in DOMAIN txs : u # t => txs'[u] = txs[u]
      /\ \A u \in DOMAIN txs : txs'[u].quote.amount = txs'[u].amount
  BY <1>2, <1>3, StatusChanges, AtHand
<1>5. TrackTypes' /\ SwapsOfQuotes'
  BY <1>1, <1>2, <1>4, AtHand DEF TrackTypes, SwapsOfQuotes
<1>6. SwapsFollow'
  BY <1>1, <1>2, <1>4, AtHand DEF SwapsFollow
<1>7. Tracked'
  <2>1. \A u \in DOMAIN txs' : Live(u)' => u \in DOMAIN txs /\ Live(u)
    BY <1>2, <1>4 DEF Live
  <2> QED BY <1>1, <2>1, AtHand DEF Tracked
<1>8. ResultTold'
  <2>1. result # NoResult => result.tx # t
    BY <1>2, AtHand DEF ResultTold, ResultIsTrue
  <2> QED BY <1>1, <1>4, <2>1, AtHand DEF ResultTold, ResultIsTrue, NoResult
<1> QED BY <1>5, <1>6, <1>7, <1>8 DEF TrackInv

\* A look at a transaction forgets nothing unless it has had its outcome.
LEMMA LookUpSettles ==
  ASSUME TrackInv, NEW m \in Mounts, NEW t \in Known, LookUp(m, t),
         t # 0 \/ pending[m] # 0
  PROVE \/ UNCHANGED <<pending, kept, result>>
        \/ \E u, success : Outcome(u, success) /\ Finish(m, u, success)
<1>1. PICK status \in Statuses(t) :
        IF status \in Final THEN Finish(m, t, status = "success")
        ELSE UNCHANGED <<pending, kept, result, stale>>
  BY DEF LookUp
<1>2. CASE status \notin Final
  BY <1>1, <1>2
<1>3. CASE status \in Final
  <2>1. Finish(m, t, status = "success") /\ pending[m] = t
    BY <1>1, <1>3 DEF Finish
  <2>2. t \in DOMAIN txs
    BY <2>1, AtHand DEF Known
  <2>3. txs[t].status = status /\ status \in {"success", "failed"}
    BY <1>1, <1>3 DEF Statuses, Final
  <2>4. Outcome(t, status = "success")
    <3>1. CASE status = "success"
      BY <2>2, <2>3, <3>1 DEF Outcome
    <3>2. CASE status = "failed"
      BY <2>2, <2>3, <3>2 DEF Outcome
    <3> QED BY <2>3, <3>1, <3>2
  <2> QED BY <2>1, <2>4
<1> QED BY <1>2, <1>3

LEMMA EndsIs ==
  ASSUME TrackInv, NEW m \in Mounts, Ends(m)
  PROVE swap' \in [Mounts -> Swap] /\ Quieter
BY AtHand DEF Ends, Quieter

\* The steps that look at what became of a transaction.
LEMMA LookKeeps ==
  ASSUME TrackInv, NEW m \in Mounts, Submitted(m) \/ Confirm(m) \/ Checked(m)
  PROVE TrackInv'
<1>1. UNCHANGED <<view, storage, txs, landed, loose>>
  BY DEF Submitted, Confirm, Checked
<1>2. CASE Submitted(m)
  <2> DEFINE t == swap[m].tx
  <2>1. /\ swap[m].pc = "sent" /\ t \in DOMAIN txs
        /\ checking' = checking /\ checking' \in [Mounts -> Known]
    BY <1>2, OwnTx, AtHand DEF Submitted
  <2>2. CASE Goto(m, "confirm") /\ UNCHANGED <<pending, kept, result>>
    <3>1. swap' \in [Mounts -> Swap]
      BY <2>2, GotoIs
    <3>2. swap' = [swap EXCEPT ![m] = [swap[m] EXCEPT !.pc = "confirm"]]
      BY <2>2 DEF Goto
    <3>3. Quieter
      BY <2>1, <3>2, AtHand DEF Quieter
    <3> QED BY <1>1, <2>1, <2>2, <3>1, <3>3, SettleKeeps
  <2>3. CASE txs[t].status = "refused" /\ Ends(m) /\ Finish(m, t, FALSE)
    <3>1. Outcome(t, FALSE)
      BY <2>1, <2>3 DEF Outcome
    <3> QED BY <1>1, <2>1, <2>3, <3>1, EndsIs, SettleKeeps
  <2>4. CASE Ends(m) /\ UNCHANGED <<pending, kept, result>>
    BY <1>1, <2>1, <2>4, EndsIs, SettleKeeps
  <2> QED BY <1>2, <2>2, <2>3, <2>4 DEF Submitted
<1>3. CASE Confirm(m)
  <2>1. /\ swap[m].tx \in DOMAIN txs /\ swap[m].tx \in Known /\ swap[m].tx # 0
        /\ LookUp(m, swap[m].tx) /\ Ends(m)
        /\ checking' \in [Mounts -> Known]
    BY <1>3, OwnTx, AtHand DEF Confirm
  <2>2. \/ UNCHANGED <<pending, kept, result>>
        \/ \E u, success : Outcome(u, success) /\ Finish(m, u, success)
    BY <2>1, LookUpSettles
  <2> QED BY <1>1, <2>1, <2>2, EndsIs, SettleKeeps
<1>4. CASE Checked(m)
  <2>1. /\ checking[m] \in Known /\ checking[m] # 0 /\ LookUp(m, checking[m])
        /\ swap' = swap
    BY <1>4, AtHand DEF Checked
  <2>2. checking' = [checking EXCEPT ![m] = 0] /\ checking' \in [Mounts -> Known]
    BY <1>4, AtHand DEF Checked
  <2>3. \/ UNCHANGED <<pending, kept, result>>
        \/ \E u, success : Outcome(u, success) /\ Finish(m, u, success)
    BY <2>1, LookUpSettles
  <2>4. swap' \in [Mounts -> Swap] /\ Quieter
    BY <2>1, AtHand DEF Quieter
  <2> QED BY <1>1, <2>2, <2>3, <2>4, SettleKeeps
<1> QED BY <1>2, <1>3, <1>4

LEMMA CheckKeeps ==
  ASSUME TrackInv, Check
  PROVE TrackInv'
<1>1. /\ UNCHANGED <<view, storage, txs, landed, loose>> /\ UNCHANGED <<pending, kept, result>>
      /\ swap' = swap /\ checking' = [checking EXCEPT ![view] = pending[view]]
  BY DEF Check
<1>2. view \in Mounts /\ swap' \in [Mounts -> Swap] /\ Quieter /\ checking' \in [Mounts -> Known]
  BY <1>1, AtHand DEF Quieter
<1> QED BY <1>1, <1>2, SettleKeeps

LEMMA StopKeeps ==
  ASSUME TrackInv, StopTracking
  PROVE TrackInv'
<1>1. /\ UNCHANGED <<view, storage, swap, checking, result, txs, landed>>
      /\ pending' = [pending EXCEPT ![view] = 0] /\ kept' = Cleared(pending[view])
      /\ loose' = loose \union {pending[view]}
  BY DEF StopTracking
<1>2. TrackTypes' /\ kept' \in {0, kept} /\ pending'[view] = 0
  BY <1>1, AtHand DEF TrackTypes, Known, Cleared
<1>3. SwapsOfQuotes' /\ SwapsFollow' /\ ResultTold'
  BY <1>1, AtHand DEF SwapsOfQuotes, SwapsFollow, ResultTold, ResultIsTrue, Known
<1>4. Tracked'
  <2>1. ASSUME NEW t \in DOMAIN txs', Live(t)', t \notin loose'
        PROVE FALSE
    BY <1>1, <2>1, AtHand DEF Tracked, Live
  <2> QED BY <1>1, <1>2, <2>1, AtHand DEF Tracked
<1> QED BY <1>2, <1>3, <1>4 DEF TrackInv

\* Another instance of the form tracks what the storage holds.
LEMMA MountKeeps ==
  ASSUME CardInv, Reload \/ TurnAway
  PROVE CardInv'
<1>1. FormTypes /\ QuoteOfForm /\ TrackInv
  BY DEF CardInv
<1>2. /\ Mount
      /\ \/ swap' = [m \in Mounts |-> Idle] /\ checking' = [m \in Mounts |-> 0]
            /\ pending' = [m \in Mounts |-> IF m = view' THEN kept ELSE 0]
         \/ swap' = swap /\ checking' = checking /\ pending' = [pending EXCEPT ![view'] = kept]
  BY DEF Reload, TurnAway
<1>3. /\ view < MaxMounts /\ view' = view + 1
      /\ form' = [form EXCEPT !.amount = 0] /\ quote' = NoQuote /\ request' = NoQuote
      /\ result' = NoResult /\ link' = link
      /\ loose' = IF storage THEN loose ELSE loose \union {pending[view]}
      /\ storage' = storage /\ kept' = kept /\ txs' = txs /\ landed' = landed
  BY <1>2 DEF Mount
<1>4. FormTypes' /\ QuoteOfForm'
  BY <1>1, <1>3, FormFields DEF FormTypes, QuoteOfForm
<1>5. view' \in Mounts /\ view' >= view /\ view' # view
  BY <1>1, <1>3, AtHand, CardAssumption DEF Mounts, CardAssumption
<1>6. swap' \in [Mounts -> Swap] /\ Quieter /\ checking' \in [Mounts -> Known]
  BY <1>1, <1>2, AtHand DEF Quieter
<1>7. pending' \in [Mounts -> Known] /\ pending'[view'] = kept
  BY <1>1, <1>2, <1>5, AtHand
<1>8. TrackTypes'
  BY <1>1, <1>3, <1>5, <1>6, <1>7, AtHand DEF TrackTypes, Known, NoResult
<1>9. SwapsOfQuotes' /\ SwapsFollow' /\ swap'[view'].pc \notin {"balance", "sign"}
  BY <1>1, <1>3, <1>5, <1>6, QuieterKeeps
<1>10. ResultTold'
  BY <1>3 DEF ResultTold, ResultIsTrue
<1>11. Tracked'
  <2>1. ASSUME NEW t \in DOMAIN txs', Live(t)', t \notin loose'
        PROVE pending'[view'] = t /\ (storage' => kept' = t)
    <3>1. /\ t \in DOMAIN txs /\ Live(t) /\ t \notin loose
          /\ storage \/ t # pending[view]
      BY <1>3, <2>1 DEF Live
    <3>2. pending[view] = t /\ (storage => kept = t)
      BY <1>1, <3>1, AtHand DEF Tracked
    <3> QED BY <1>3, <1>7, <3>1, <3>2
  <2> QED BY <1>1, <1>3, <1>9, <2>1, AtHand DEF Tracked
<1> QED BY <1>4, <1>8, <1>9, <1>10, <1>11 DEF CardInv, TrackInv

LEMMA CardStepKeeps ==
  ASSUME CardInv, [CardNext]_cardvars
  PROVE CardInv'
<1>1. FormTypes /\ QuoteOfForm /\ TrackInv
  BY DEF CardInv
<1>2. CASE UNCHANGED cardvars
  <2>1. UNCHANGED <<view, storage, tracking>> /\ UNCHANGED <<form, link, quote, request>>
    BY <1>2 DEF cardvars, asking
  <2> QED BY <1>1, <2>1, TrackingUntouched, FormUntouched DEF CardInv
<1>3. CASE FormStep
  BY <1>1, <1>3, FormStepKeeps, TrackingUntouched DEF CardInv
<1>4. CASE Click
  BY <1>4, ClickKeeps
<1>5. ASSUME NEW m \in Mounts, BuildTx(m) \/ Sign(m) \/ Broadcast(m) \/ Submitted(m)
                                \/ Confirm(m) \/ Checked(m)
      PROVE CardInv'
  <2>1. TrackInv'
    BY <1>1, <1>5, BuildKeeps, SignKeeps, BroadcastKeeps, LookKeeps
  <2>2. UNCHANGED <<form, link, quote, request>>
    BY <1>5 DEF BuildTx, Sign, Broadcast, Submitted, Confirm, Checked, asking
  <2> QED BY <1>1, <2>1, <2>2, FormUntouched DEF CardInv
<1>6. CASE Check \/ StopTracking \/ Land
  <2>1. TrackInv'
    BY <1>1, <1>6, CheckKeeps, StopKeeps, LandKeeps
  <2>2. UNCHANGED <<form, link, quote, request>>
    BY <1>6 DEF Check, StopTracking, Land, asking
  <2> QED BY <1>1, <2>1, <2>2, FormUntouched DEF CardInv
<1>7. CASE Reload \/ TurnAway
  BY <1>7, MountKeeps
<1> QED BY <1>2, <1>3, <1>4, <1>5, <1>6, <1>7 DEF CardNext, FormStep

LEMMA CardAlways == CardSpec => []CardInv
BY CardStarts, CardStepKeeps, PTL DEF CardSpec

(***************************************************************************)
(* However often the form is edited, quotes asked for and the page left    *)
(* and reloaded, and however late the answers are: a transaction is built  *)
(* from a quote for the amount the user saw when he clicked (loadQuote,    *)
(* handleSwap).                                                            *)
(***************************************************************************)
THEOREM SwapsOfTheirQuotes == CardSpec => []SwapsMatchQuotes
<1>1. CardInv => SwapsMatchQuotes
  BY DEF CardInv, TrackInv, QuoteOfForm, SwapsOfQuotes, SwapsMatchQuotes
<1> QED BY <1>1, CardAlways, PTL

(***************************************************************************)
(* Whatever answers get lost and whenever the page is reloaded: a signed   *)
(* transaction that may still be executed is the one the page tracks, and  *)
(* what the page says of one is what became of it (handleSwap,             *)
(* checkPending, savePendingSwap).                                         *)
(***************************************************************************)
THEOREM SwapsAreTracked == CardSpec => []OutcomesAreTracked
<1>1. CardInv => OutcomesAreTracked
  BY DEF CardInv, TrackInv, Tracked, Live, ResultTold, OutcomesAreTracked,
         NothingRepeatedBlindly, Undecided
<1> QED BY <1>1, CardAlways, PTL

-----------------------------------------------------------------------------
(***************************************************************************)
(* The cached balances                                                     *)
(***************************************************************************)

\* A cached balance is of the account the caches were emptied for, or of the one
\* the wallet has turned to since, whose effect is still to come; a batch under
\* way is of the former.
BalancesInv ==
  /\ address \in Accounts \union {NoOne} /\ owner \in Accounts \union {NoOne}
  /\ balances \in [Assets -> Accounts \union {NoOne}]
  /\ \A t \in Assets : balances[t] \in {NoOne, owner, address}
  /\ batch \in [of : Accounts \union {NoOne}, stage : {"none", "common", "catalog"}]
  /\ batch # NoBatch => batch.of = owner
  /\ \A task \in lazy : task.of \in Accounts /\ task.token \in Assets

LEMMA BalancesKeep ==
  ASSUME BalancesInv, [BalancesNext]_bvars
  PROVE BalancesInv'
<1>1. CASE UNCHANGED <<address, owner, balances, batch, lazy>>
  BY <1>1 DEF BalancesInv, NoBatch
<1>2. CASE Switch
  BY <1>2 DEF Switch, BalancesInv, NoBatch, caches
<1>3. CASE Effect
  BY <1>3 DEF Effect, BalancesInv, NoBatch, Empty
<1>4. CASE RefreshAll
  BY <1>4 DEF RefreshAll, BalancesInv, NoBatch, caches
<1>5. CASE Received
  <2>1. PICK found \in SUBSET Scope(batch.stage) :
          balances' = [t \in Assets |->
            IF t \in found THEN batch.of
            ELSE IF batch.stage = "common" \/ t \notin Common THEN NoOne ELSE balances[t]]
    BY <1>5 DEF Received
  <2>2. /\ UNCHANGED <<address, owner, lazy>> /\ batch # NoBatch
        /\ batch' \in {NoBatch, [batch EXCEPT !.stage = "catalog"]}
    BY <1>5 DEF Received
  <2>3. batch.of = owner
    BY <2>2 DEF BalancesInv
  <2>4. /\ batch' \in [of : Accounts \union {NoOne}, stage : {"none", "common", "catalog"}]
        /\ batch' # NoBatch => batch'.of = owner
    BY <2>2, <2>3 DEF BalancesInv, NoBatch
  <2>5. /\ balances' \in [Assets -> Accounts \union {NoOne}]
        /\ \A t \in Assets : balances'[t] \in {NoOne, owner, address}
    BY <2>1, <2>3 DEF BalancesInv
  <2> QED BY <2>2, <2>4, <2>5 DEF BalancesInv, NoBatch
<1>6. CASE Failed
  BY <1>6 DEF Failed, BalancesInv, NoBatch, Empty
<1>7. CASE Ensure
  <2>1. PICK t \in Assets :
          lazy' = lazy \union {[of |-> address, token |-> t, saw |-> t \in told[address]]}
    BY <1>7 DEF Ensure
  <2>2. address \in Accounts /\ UNCHANGED <<address, owner, balances, batch>>
    BY <1>7 DEF Ensure, BalancesInv, caches
  <2> QED BY <2>1, <2>2 DEF BalancesInv, NoBatch
<1>8. CASE Ensured
  <2>1. PICK task \in lazy :
          /\ lazy' = lazy \ {task}
          /\ \/ Wanted(task.of) /\ balances' = [balances EXCEPT ![task.token] = task.of]
             \/ UNCHANGED caches
          /\ UNCHANGED <<address, owner, batch>>
    BY <1>8 DEF Ensured
  <2>2. task.of \in Accounts /\ task.token \in Assets
    BY DEF BalancesInv
  <2>3. /\ balances' \in [Assets -> Accounts \union {NoOne}]
        /\ \A t \in Assets : balances'[t] \in {NoOne, owner, address}
    BY <2>1, <2>2 DEF BalancesInv, Wanted, caches
  <2> QED BY <2>1, <2>3 DEF BalancesInv, NoBatch
<1>9. CASE AddTrustline \/ Mark \/ CatchUp \/ UNCHANGED bvars
  BY <1>1, <1>9 DEF AddTrustline, Mark, CatchUp, bvars, caches
<1> QED BY <1>2, <1>3, <1>4, <1>5, <1>6, <1>7, <1>8, <1>9 DEF BalancesNext

(***************************************************************************)
(* Whenever the wallet changes the account, and whatever readings are under*)
(* way, in whichever order they are answered: a balance on the page is one *)
(* of the account on the page (account-balances-context.tsx).              *)
(***************************************************************************)
THEOREM BalancesOfTheirAccount == BalancesSpec => []BalancesAreOwn
<1>1. BalancesInit => BalancesInv
  BY DEF BalancesInit, BalancesInv, Empty, NoBatch
<1>2. BalancesInv => BalancesAreOwn
  BY DEF BalancesInv, BalancesAreOwn, Shown, Empty
<1> QED BY <1>1, <1>2, BalancesKeep, PTL DEF BalancesSpec

-----------------------------------------------------------------------------
(***************************************************************************)
(* The trade tables                                                        *)
(***************************************************************************)
Leg == [at : Nat, amount : Nat, actual : BOOLEAN, out : BOOLEAN]
Sources(p) == IF p = "repair" THEN {"legs", "reasons"} ELSE {"events", "envelope"}
Record == [tx : TradeTxs, src : {"legs", "reasons", "events", "envelope"}]

TradeTypes ==
  /\ rows \in [TradeTxs -> Row \union {NoRow}]
  /\ legs \in [TradeTxs -> Seq(Leg)]
  /\ saved \in BOOLEAN
  /\ pc \in [Procs -> {"down", "row", "read", "delete", "summary", "legs"}]
  /\ todo \in [Procs -> Seq(Record)]
  /\ mem \in [Procs -> Seq(Leg)]

\* A process that rewrites the legs of a transaction.
At(p, t) == pc[p] \notin {"down", "row"} /\ Current(p).tx = t

\* Who is amid a transaction has a row for it, so has a repair for all it reads
\* again; the status of a row is the chain's.
RowsKnown ==
  /\ \A p \in Procs : pc[p] \notin {"down", "row"} =>
       todo[p] # <<>> /\ rows[Current(p).tx] # NoRow
  /\ \A p \in Procs : \A i \in DOMAIN todo[p] : todo[p][i].src \in Sources(p)
  /\ \A i \in DOMAIN todo["repair"] : rows[todo["repair"][i].tx] # NoRow
  /\ \A t \in TradeTxs : rows[t] # NoRow => rows[t].status = Chain(t)

\* From place n on the legs are the steps of the chain.
Fit(steps, t, n) ==
  \A i \in DOMAIN steps : /\ steps[i].at = Hops(t)[n + i].at
                          /\ steps[i].amount = Hops(t)[n + i].amount
                          /\ steps[i].actual

\* The legs of a transaction as the events, or an earlier record, had them.
Due == {t \in TradeTxs \ spoilt : Ok(t)}

Rewriting(p, t) == At(p, t) /\ pc[p] \in {"delete", "summary", "legs"}
Inserting(p, t) == At(p, t) /\ pc[p] \in {"summary", "legs"}

\* What a process that rewrites the legs of a transaction has in hand.
InHand(p, t) ==
  /\ pc[p] = "delete" =>
       /\ mem[p] = legs[t]
       /\ Current(p).src # "events" => Len(legs[t]) = Len(Hops(t))
  /\ pc[p] = "summary" => legs[t] = <<>>
  /\ pc[p] \in {"summary", "legs"} =>
       /\ Len(legs[t]) + Len(mem[p]) = Len(Hops(t))
       /\ Fit(mem[p], t, Len(legs[t]))

\* The legs are the first steps of the chain, and one process at most has the
\* rest of them.
Sound(t) ==
  /\ rows[t] # NoRow => rows[t].out
  /\ Len(legs[t]) <= Len(Hops(t)) /\ Fit(legs[t], t, 0)
  /\ \A p, q \in Procs : Rewriting(p, t) /\ Rewriting(q, t) => p = q
  /\ \A p \in Procs : At(p, t) => InHand(p, t)

LegsFollow ==
  /\ \A t \in TradeTxs : rows[t] = NoRow => legs[t] = <<>>
  /\ \A t \in Due : Sound(t)

Complete(t) == rows[t] # NoRow /\ Len(legs[t]) = Len(Hops(t))

\* What is missing is being inserted, or the process will come to it; the events
\* come first.
ToCome(p, t) == \E i \in DOMAIN todo[p] : todo[p][i] = [tx |-> t, src |-> "events"]
BeingInserted(t) == \E q \in Procs : Inserting(q, t)
EventsFirst(p) ==
  \A i, j \in DOMAIN todo[p] : i < j /\ todo[p][j].src = "events" => todo[p][i].src = "events"
NothingLeftOut ==
  /\ \A p \in {"live", "backfill"} :
       /\ EventsFirst(p)
       /\ pc[p] # "down" => \A t \in Due : Complete(t) \/ BeingInserted(t) \/ ToCome(p, t)
  /\ saved => \A t \in Due : Complete(t) \/ BeingInserted(t)

KnownInv == TradeTypes /\ RowsKnown

\* The transactions of a range, and any set of them, are finitely many.
LEMMA TradesFinite ==
  /\ IsFiniteSet(TradeTxs) /\ TradeTxs = 1 .. Len(Trades) /\ TradeTxs \subseteq Nat
  /\ \A S \in SUBSET TradeTxs : IsFiniteSet(S) /\ Cardinality(S) \in Nat
<1>1. Len(Trades) \in Nat /\ TradeTxs = 1 .. Len(Trades)
  BY TradeAssumption, LenProperties DEF TradeAssumption, TradeTxs
<1>2. IsFiniteSet(TradeTxs)
  BY <1>1, FS_Interval
<1>3. \A S \in SUBSET TradeTxs : IsFiniteSet(S) /\ Cardinality(S) \in Nat
  BY <1>2, FS_Subset, FS_CardinalityType
<1> QED BY <1>1, <1>2, <1>3

\* Every place of a set has its transaction, and every transaction its place:
\* no two have as many before them.
LEMMA NthIs ==
  ASSUME NEW set \in SUBSET TradeTxs
  PROVE  /\ \A i \in 1 .. Cardinality(set) : Nth(set, i) \in set
         /\ \A t \in set : \E i \in 1 .. Cardinality(set) : Nth(set, i) = t
<1> DEFINE upto(t) == {u \in set : u <= t}
           n == Cardinality(set)
           f == [t \in set |-> Cardinality(upto(t))]
<1>1. IsFiniteSet(set) /\ n \in Nat /\ set \subseteq Nat
  BY TradesFinite
<1>2. IsFiniteSet(1 .. n) /\ Cardinality(1 .. n) = n
  BY <1>1, FS_Interval
<1>3. ASSUME NEW t \in set
      PROVE /\ IsFiniteSet(upto(t)) /\ Cardinality(upto(t)) \in 1 .. n
  <2>1. upto(t) \in SUBSET set /\ upto(t) # {}
    BY <1>1
  <2>2. IsFiniteSet(upto(t)) /\ Cardinality(upto(t)) <= n /\ Cardinality(upto(t)) \in Nat
    BY <1>1, <2>1, FS_Subset, FS_CardinalityType
  <2>3. Cardinality(upto(t)) # 0
    BY <2>1, <2>2, FS_EmptySet
  <2> QED BY <1>1, <2>2, <2>3
<1>4. ASSUME NEW t \in set, NEW u \in set, t < u
      PROVE Cardinality(upto(t)) # Cardinality(upto(u))
  <2>0. \A w \in set : w <= t => w <= u
    BY <1>1, <1>4
  <2>1. upto(t) \in SUBSET upto(u)
    BY <2>0
  <2>2. u \in upto(u) /\ u \notin upto(t)
    BY <1>1, <1>4
  <2>3. IsFiniteSet(upto(u)) /\ (Cardinality(upto(u)) = Cardinality(upto(t)) => upto(u) = upto(t))
    BY <1>3, <2>1, FS_Subset
  <2> QED BY <2>2, <2>3
<1>5. ASSUME NEW t \in set, NEW u \in set, t # u
      PROVE Cardinality(upto(t)) # Cardinality(upto(u))
  BY <1>1, <1>4, <1>5
<1>6. f \in Injection(set, 1 .. n)
  <2>1. f \in [set -> 1 .. n]
    BY <1>3
  <2>2. \A t, u \in set : t # u => f[t] # f[u]
    BY <1>5
  <2> HIDE DEF f
  <2> QED BY <2>1, <2>2 DEF Injection, IsInjective
<1>7. f \in Surjection(set, 1 .. n)
  <2> HIDE DEF f, n
  <2> QED BY <1>1, <1>2, <1>6, FS_Injection DEF n
<1>8. \A i \in 1 .. n : \E t \in set : f[t] = i
  <2> HIDE DEF f, n
  <2> QED BY <1>7 DEF Surjection
<1>9. \A i \in 1 .. n : \E t \in set : Cardinality(upto(t)) = i
  BY <1>8
<1>10. \A i \in 1 .. n : Nth(set, i) \in set /\ Cardinality(upto(Nth(set, i))) = i
  <2> SUFFICES ASSUME NEW i \in 1 .. n
               PROVE Nth(set, i) \in set /\ Cardinality(upto(Nth(set, i))) = i
    OBVIOUS
  <2> QED BY <1>9 DEF Nth
<1>11. ASSUME NEW t \in set PROVE \E i \in 1 .. n : Nth(set, i) = t
  <2> DEFINE i == Cardinality(upto(t))
  <2>1. i \in 1 .. n
    BY <1>3
  <2>2. Nth(set, i) \in set /\ Cardinality(upto(Nth(set, i))) = i
    BY <1>10, <2>1
  <2>3. Nth(set, i) = t
    BY <1>5, <2>2
  <2> QED BY <2>1, <2>3
<1> QED BY <1>10, <1>11

LEMMA RecordsAre ==
  ASSUME NEW set \in SUBSET TradeTxs, NEW src \in {"legs", "reasons", "events", "envelope"}
  PROVE  /\ Records(src, set) \in Seq(Record)
         /\ \A i \in DOMAIN Records(src, set) : /\ Records(src, set)[i].tx \in set
                                                /\ Records(src, set)[i].src = src
         /\ \A t \in set : \E i \in DOMAIN Records(src, set) :
              Records(src, set)[i] = [tx |-> t, src |-> src]
<1> DEFINE n == Cardinality(set)
           e(i) == [tx |-> Nth(set, i), src |-> src]
<1>1. n \in Nat
  BY TradesFinite
<1>2. \A i \in 1 .. n : Nth(set, i) \in set
  BY NthIs
<1>3. \A t \in set : \E i \in 1 .. n : Nth(set, i) = t
  BY NthIs
<1>4. \A i \in 1 .. n : e(i) \in Record
  BY <1>2 DEF Record
<1>5. Records(src, set) = [i \in 1 .. n |-> e(i)]
  BY DEF Records
<1> HIDE DEF n
<1>6. [i \in 1 .. n |-> e(i)] \in Seq(Record)
  <2> HIDE DEF e
  <2> QED BY <1>1, <1>4, IsASeq
<1> QED BY <1>2, <1>3, <1>5, <1>6

LEMMA TradesStart == TradesInit => KnownInv
<1> SUFFICES ASSUME TradesInit PROVE KnownInv
  OBVIOUS
<1>1. <<>> \in Seq(Leg) /\ <<>> \in Seq(Record) /\ DOMAIN <<>> = {}
  OBVIOUS
<1>2. TradeTypes
  BY <1>1 DEF TradesInit, TradeTypes
<1>3. RowsKnown
  BY <1>1 DEF TradesInit, RowsKnown, Procs
<1> QED BY <1>2, <1>3 DEF KnownInv

\* What the steps of a process start from.
LEMMA KnownAtHand ==
  ASSUME KnownInv
  PROVE /\ rows \in [TradeTxs -> Row \union {NoRow}] /\ legs \in [TradeTxs -> Seq(Leg)]
        /\ pc \in [Procs -> {"down", "row", "read", "delete", "summary", "legs"}]
        /\ todo \in [Procs -> Seq(Record)] /\ mem \in [Procs -> Seq(Leg)]
        /\ saved \in BOOLEAN /\ NoRow \notin Row /\ RowsKnown
        /\ \A p \in Procs : \A i \in DOMAIN todo[p] : todo[p][i] \in Record
        /\ \A p \in Procs : todo[p] # <<>> =>
             /\ 1 \in DOMAIN todo[p] /\ Current(p) = todo[p][1]
             /\ Current(p) \in Record /\ Current(p).src \in Sources(p)
             /\ Tail(todo[p]) \in Seq(Record)
             /\ \A i \in DOMAIN Tail(todo[p]) :
                  i + 1 \in DOMAIN todo[p] /\ Tail(todo[p])[i] = todo[p][i + 1]
<1>1. TradeTypes /\ RowsKnown
  BY DEF KnownInv
<1>2. \A p \in Procs : todo[p] \in Seq(Record)
  BY <1>1 DEF TradeTypes
<1>3. ASSUME NEW p \in Procs, NEW i \in DOMAIN todo[p] PROVE todo[p][i] \in Record
  BY <1>2, LenProperties, ElementOfSeq
<1>4. ASSUME NEW p \in Procs, todo[p] # <<>>
      PROVE /\ 1 \in DOMAIN todo[p] /\ Current(p) = todo[p][1]
            /\ Current(p) \in Record /\ Current(p).src \in Sources(p)
            /\ Tail(todo[p]) \in Seq(Record)
            /\ \A i \in DOMAIN Tail(todo[p]) :
                 i + 1 \in DOMAIN todo[p] /\ Tail(todo[p])[i] = todo[p][i + 1]
  <2>1. todo[p] \in Seq(Record) /\ Len(todo[p]) \in Nat \ {0} /\ DOMAIN todo[p] = 1 .. Len(todo[p])
    BY <1>2, <1>4, EmptySeq, LenProperties
  <2>2. 1 \in DOMAIN todo[p] /\ Current(p) = todo[p][1]
    BY <2>1 DEF Current
  <2>3. /\ Tail(todo[p]) \in Seq(Record) /\ Len(Tail(todo[p])) = Len(todo[p]) - 1
        /\ \A i \in 1 .. Len(Tail(todo[p])) : Tail(todo[p])[i] = todo[p][i + 1]
    BY <1>4, <2>1, HeadTailProperties
  <2>4. DOMAIN Tail(todo[p]) = 1 .. Len(Tail(todo[p]))
    BY <2>3, LenProperties
  <2>5. \A i \in DOMAIN Tail(todo[p]) :
          i + 1 \in DOMAIN todo[p] /\ Tail(todo[p])[i] = todo[p][i + 1]
    BY <2>1, <2>3, <2>4
  <2> QED BY <1>1, <1>3, <2>2, <2>3, <2>5 DEF RowsKnown
<1> QED BY <1>1, <1>3, <1>4, TradeAssumption DEF TradeTypes, TradeAssumption

\* A row that is written again is none the poorer.
Remembers(old, new) ==
  /\ new \in Row /\ new.status = old.status
  /\ (old.out => new.out) /\ (old.fee => new.fee)
  /\ Exactness[new.reason] >= Exactness[old.reason]

LEMMA RowsWritten ==
  ASSUME NEW old \in Row, NEW reason \in {"none", "trapped", "code"}, NEW yes \in BOOLEAN,
         NEW fee \in BOOLEAN
  PROVE /\ Remembers(old, old)
        /\ Remembers(old, [old EXCEPT !.reason = Merged(old.reason, reason), !.fee = old.fee \/ yes])
        /\ Remembers(old, [old EXCEPT !.status = old.status, !.reason = Merged(old.reason, reason)])
        /\ Remembers(old, [old EXCEPT !.reason = Refined(old.reason, reason)])
        /\ Remembers(old, [old EXCEPT !.out = old.out \/ yes, !.fee = old.fee \/ fee])
<1>1. /\ old.status \in {"SUCCESS", "FAILED"} /\ old.out \in BOOLEAN /\ old.fee \in BOOLEAN
      /\ old.reason \in {"none", "trapped", "code"}
      /\ old = [status |-> old.status, out |-> old.out, fee |-> old.fee, reason |-> old.reason]
  BY DEF Row
<1>2. /\ Merged(old.reason, reason) \in {"none", "trapped", "code"}
      /\ Exactness[Merged(old.reason, reason)] >= Exactness[old.reason]
      /\ Refined(old.reason, reason) \in {"none", "trapped", "code"}
      /\ Exactness[Refined(old.reason, reason)] >= Exactness[old.reason]
      /\ Exactness[old.reason] >= Exactness[old.reason]
  BY <1>1 DEF Merged, Refined, Exactness
<1>3. Remembers(old, old)
  BY <1>2 DEF Remembers
<1>4. ASSUME NEW out \in BOOLEAN, NEW paid \in BOOLEAN, NEW why \in {"none", "trapped", "code"},
             old.out => out, old.fee => paid, Exactness[why] >= Exactness[old.reason],
             NEW new, new = [old EXCEPT !.out = out, !.fee = paid, !.reason = why]
      PROVE  Remembers(old, new)
  <2>1. new = [status |-> old.status, out |-> out, fee |-> paid, reason |-> why]
    BY <1>1, <1>4
  <2>2. new.status = old.status /\ new.out = out /\ new.fee = paid /\ new.reason = why
    BY <2>1
  <2>3. new \in Row
    BY <1>1, <2>1 DEF Row
  <2> QED BY <1>4, <2>2, <2>3 DEF Remembers
<1>5. Remembers(old, [old EXCEPT !.reason = Merged(old.reason, reason), !.fee = old.fee \/ yes])
  <2> DEFINE new == [old EXCEPT !.reason = Merged(old.reason, reason), !.fee = old.fee \/ yes]
             paid == old.fee \/ yes
  <2>1. new = [old EXCEPT !.out = old.out, !.fee = paid, !.reason = Merged(old.reason, reason)]
    BY <1>1
  <2>2. paid \in BOOLEAN /\ (old.fee => paid)
    OBVIOUS
  <2> HIDE DEF new, paid
  <2> QED BY <1>1, <1>2, <1>4, <2>1, <2>2 DEF new
<1>6. Remembers(old, [old EXCEPT !.status = old.status, !.reason = Merged(old.reason, reason)])
  <2> DEFINE new == [old EXCEPT !.status = old.status, !.reason = Merged(old.reason, reason)]
  <2>1. new = [old EXCEPT !.out = old.out, !.fee = old.fee, !.reason = Merged(old.reason, reason)]
    BY <1>1
  <2> HIDE DEF new
  <2> QED BY <1>1, <1>2, <1>4, <2>1 DEF new
<1>7. Remembers(old, [old EXCEPT !.reason = Refined(old.reason, reason)])
  <2> DEFINE new == [old EXCEPT !.reason = Refined(old.reason, reason)]
  <2>1. new = [old EXCEPT !.out = old.out, !.fee = old.fee, !.reason = Refined(old.reason, reason)]
    BY <1>1
  <2> HIDE DEF new
  <2> QED BY <1>1, <1>2, <1>4, <2>1 DEF new
<1>8. Remembers(old, [old EXCEPT !.out = old.out \/ yes, !.fee = old.fee \/ fee])
  <2> DEFINE new == [old EXCEPT !.out = old.out \/ yes, !.fee = old.fee \/ fee]
             out == old.out \/ yes
             paid == old.fee \/ fee
  <2>1. new = [old EXCEPT !.out = out, !.fee = paid, !.reason = old.reason]
    BY <1>1
  <2>2. out \in BOOLEAN /\ (old.out => out) /\ paid \in BOOLEAN /\ (old.fee => paid)
    OBVIOUS
  <2> HIDE DEF new, out, paid
  <2> QED BY <1>1, <1>2, <1>4, <2>1, <2>2 DEF new
<1> QED BY <1>3, <1>5, <1>6, <1>7, <1>8

\* No step forgets what a row says.
RowsStay ==
  /\ rows' \in [TradeTxs -> Row \union {NoRow}]
  /\ \A t \in TradeTxs : rows[t] # NoRow => rows'[t] # NoRow /\ Remembers(rows[t], rows'[t])
  /\ \A t \in TradeTxs : rows'[t] # NoRow => rows'[t].status = Chain(t)

LEMMA RowsUnchanged ==
  ASSUME KnownInv, rows' = rows
  PROVE RowsStay
<1>1. \A t \in TradeTxs : rows[t] # NoRow => rows[t] \in Row /\ Remembers(rows[t], rows[t])
  BY KnownAtHand, RowsWritten
<1> QED BY <1>1, KnownAtHand DEF RowsStay, RowsKnown

LEMMA RowWritten ==
  ASSUME KnownInv, NEW t \in TradeTxs, NEW new \in Row, rows' = [rows EXCEPT ![t] = new],
         new.status = Chain(t),
         rows[t] # NoRow => Remembers(rows[t], new)
  PROVE RowsStay
<1>1. \A u \in TradeTxs : rows[u] # NoRow => rows[u] \in Row /\ Remembers(rows[u], rows[u])
  BY KnownAtHand, RowsWritten
<1>2. \A u \in TradeTxs : rows'[u] = IF u = t THEN new ELSE rows[u]
  BY KnownAtHand
<1>3. \A u \in TradeTxs : rows[u] # NoRow => rows[u].status = Chain(u)
  BY KnownAtHand DEF RowsKnown
<1>4. rows' \in [TradeTxs -> Row \union {NoRow}]
  BY KnownAtHand
<1> QED BY <1>1, <1>2, <1>3, <1>4, KnownAtHand DEF RowsStay

LEMMA InsertRowStays ==
  ASSUME KnownInv, NEW p \in Procs, InsertRow(p)
  PROVE /\ RowsStay /\ Current(p).tx \in TradeTxs /\ rows'[Current(p).tx] # NoRow
        /\ rows[Current(p).tx] = NoRow =>
             (rows'[Current(p).tx].out <=> Current(p).src # "envelope")
        /\ \A u \in TradeTxs : u # Current(p).tx => rows'[u] = rows[u]
<1> DEFINE t == Current(p).tx
           envelope == Current(p).src = "envelope"
<1>1. t \in TradeTxs
  BY KnownAtHand DEF InsertRow, Record
<1>2. PICK reason \in {"none", "trapped", "code"} :
        rows' = [rows EXCEPT ![t] =
          IF rows[t] = NoRow THEN [status |-> Chain(t), out |-> ~envelope, fee |-> envelope,
                             reason |-> reason]
          ELSE [rows[t] EXCEPT !.reason = Merged(rows[t].reason, reason), !.fee = rows[t].fee \/ envelope]]
  <2>1. Reasons(t) \subseteq {"none", "trapped", "code"}
    BY DEF Reasons
  <2> QED BY <1>1, <2>1, KnownAtHand DEF InsertRow
<1>3. envelope \in BOOLEAN /\ (~envelope) \in BOOLEAN
  OBVIOUS
<1>4. CASE rows[t] = NoRow
  <2> DEFINE new == [status |-> Chain(t), out |-> ~envelope, fee |-> envelope, reason |-> reason]
  <2>1. new \in Row /\ new.status = Chain(t) /\ (new.out <=> ~envelope)
    <3>1. Chain(t) \in {"SUCCESS", "FAILED"}
      BY DEF Chain
    <3> HIDE DEF envelope
    <3> QED BY <1>3, <3>1 DEF Row
  <2>2. rows' = [rows EXCEPT ![t] = new]
    BY <1>2, <1>4
  <2> HIDE DEF new, envelope, t
  <2>3. rows'[t] = new /\ \A u \in TradeTxs : u # t => rows'[u] = rows[u]
    BY <1>1, <2>2, KnownAtHand
  <2>4. RowsStay
    BY <1>1, <1>4, <2>1, <2>2, RowWritten
  <2>5. rows'[t] # NoRow
    BY <2>1, <2>3, KnownAtHand
  <2> QED BY <1>1, <2>1, <2>3, <2>4, <2>5 DEF t, envelope
<1>5. CASE rows[t] # NoRow
  <2> DEFINE new == [rows[t] EXCEPT !.reason = Merged(rows[t].reason, reason), !.fee = rows[t].fee \/ envelope]
  <2>1. rows[t] \in Row /\ rows[t].status = Chain(t)
    BY <1>1, <1>5, KnownAtHand DEF RowsKnown
  <2> HIDE DEF envelope
  <2>2. Remembers(rows[t], new)
    BY <1>3, <2>1, RowsWritten
  <2>3. rows' = [rows EXCEPT ![t] = new]
    BY <1>2, <1>5
  <2> HIDE DEF new, t
  <2>4. rows'[t] = new /\ \A u \in TradeTxs : u # t => rows'[u] = rows[u]
    BY <1>1, <2>3, KnownAtHand
  <2>5. new \in Row /\ new.status = Chain(t)
    BY <2>1, <2>2 DEF Remembers
  <2>6. RowsStay
    BY <1>1, <2>2, <2>3, <2>5, RowWritten
  <2>7. rows'[t] # NoRow
    BY <2>4, <2>5, KnownAtHand
  <2> QED BY <1>1, <1>5, <2>4, <2>6, <2>7 DEF t
<1> QED BY <1>4, <1>5

LEMMA RereadStays ==
  ASSUME KnownInv, NEW p \in Procs, Reread(p)
  PROVE /\ RowsStay /\ p = "repair" /\ Current(p).tx \in TradeTxs /\ rows[Current(p).tx] # NoRow
        /\ \A u \in TradeTxs : rows'[u] = NoRow <=> rows[u] = NoRow
<1> DEFINE t == Current(p).tx
<1>1. /\ t \in TradeTxs /\ p = "repair" /\ todo[p] # <<>>
      /\ 1 \in DOMAIN todo[p] /\ Current(p) = todo[p][1]
  BY KnownAtHand DEF Reread, Record, Sources
<1>2. rows[t] # NoRow /\ rows[t] \in Row /\ rows[t].status = Chain(t)
  BY <1>1, KnownAtHand DEF RowsKnown
<1>3. PICK reason \in {"none", "trapped", "code"} :
        \/ rows' = [rows EXCEPT ![t] = [rows[t] EXCEPT !.status = rows[t].status, !.reason = Merged(rows[t].reason, reason)]]
        \/ rows' = [rows EXCEPT ![t] = [rows[t] EXCEPT !.reason = Refined(rows[t].reason, reason)]]
  <2>1. Reasons(t) \subseteq {"none", "trapped", "code"} /\ Answered(t) \union {rows[t].status} = {rows[t].status}
    BY <1>2 DEF Reasons, Answered
  <2>2. PICK status \in Answered(t) \union {rows[t].status}, reason \in Reasons(t) :
          rows' = [rows EXCEPT ![t] =
            IF Current(p).src = "legs"
              THEN [rows[t] EXCEPT !.status = status, !.reason = Merged(rows[t].reason, reason)]
              ELSE [rows[t] EXCEPT !.reason = Refined(rows[t].reason, reason)]]
    BY Zenon DEF Reread
  <2>3. reason \in {"none", "trapped", "code"} /\ status = rows[t].status
    BY <2>1
  <2>4. CASE Current(p).src = "legs"
    <3>1. rows' = [rows EXCEPT ![t] = [rows[t] EXCEPT !.status = rows[t].status,
                                                      !.reason = Merged(rows[t].reason, reason)]]
      BY <2>2, <2>3, <2>4
    <3> QED BY <2>3, <3>1
  <2>5. CASE Current(p).src # "legs"
    <3>1. rows' = [rows EXCEPT ![t] = [rows[t] EXCEPT !.reason = Refined(rows[t].reason, reason)]]
      BY <2>2, <2>5
    <3> QED BY <2>3, <3>1
  <2> QED BY <2>4, <2>5
<1>4. PICK new : rows' = [rows EXCEPT ![t] = new] /\ Remembers(rows[t], new)
  <2> DEFINE merged == [rows[t] EXCEPT !.status = rows[t].status, !.reason = Merged(rows[t].reason, reason)]
             refined == [rows[t] EXCEPT !.reason = Refined(rows[t].reason, reason)]
  <2>1. Remembers(rows[t], merged) /\ Remembers(rows[t], refined)
    BY <1>2, <1>3, RowsWritten
  <2>2. rows' = [rows EXCEPT ![t] = merged] \/ rows' = [rows EXCEPT ![t] = refined]
    BY <1>3
  <2> HIDE DEF merged, refined
  <2> QED BY <2>1, <2>2, Zenon
<1>5. new \in Row /\ new.status = Chain(t)
  BY <1>2, <1>4 DEF Remembers
<1>6. RowsStay
  BY <1>1, <1>4, <1>5, RowWritten
<1>7. \A u \in TradeTxs : rows'[u] = NoRow <=> rows[u] = NoRow
  BY <1>1, <1>2, <1>4, <1>5, KnownAtHand
<1> QED BY <1>1, <1>2, <1>6, <1>7

LEMMA SummaryStays ==
  ASSUME KnownInv, NEW p \in Procs, Summary(p)
  PROVE /\ RowsStay /\ Current(p).tx \in TradeTxs /\ rows[Current(p).tx] # NoRow
        /\ \A u \in TradeTxs : rows'[u] = NoRow <=> rows[u] = NoRow
<1> DEFINE t == Current(p).tx
<1>0. pc[p] \notin {"down", "row"} /\ RowsKnown
  BY KnownAtHand DEF Summary
<1>a. todo[p] # <<>> /\ rows[t] # NoRow
  BY <1>0 DEF RowsKnown
<1>b. t \in TradeTxs
  BY <1>a, KnownAtHand DEF Record
<1>1. t \in TradeTxs /\ todo[p] # <<>> /\ rows[t] # NoRow /\ rows[t] \in Row /\ rows[t].status = Chain(t)
  BY <1>0, <1>a, <1>b, KnownAtHand DEF RowsKnown
<1>2. PICK yes \in BOOLEAN, fee \in BOOLEAN :
        rows' = [rows EXCEPT ![t] = [rows[t] EXCEPT !.out = rows[t].out \/ yes, !.fee = rows[t].fee \/ fee]]
  <2>1. PICK out \in CASE Current(p).src = "events" -> {TRUE}
                     [] Current(p).src = "envelope" -> {FALSE}
                     [] OTHER -> {FALSE, Ok(t)} :
           rows' = [rows EXCEPT ![t] = [rows[t] EXCEPT !.out = rows[t].out \/ out,
                                                       !.fee = rows[t].fee \/ Current(p).src = "legs"]]
    BY <1>1, KnownAtHand DEF Summary
  <2>2. out \in BOOLEAN
    <3>1. Ok(t) \in BOOLEAN
      <4>1. Trades[t] \in [ok : BOOLEAN, hops : Seq([at : Nat, amount : Nat \ {0}])]
        BY <1>1, TradesFinite, TradeAssumption, ElementOfSeq DEF TradeAssumption
      <4> QED BY <4>1 DEF Ok
    <3> QED BY <2>1, <3>1
  <2>3. (Current(p).src = "legs") \in BOOLEAN
    OBVIOUS
  <2> QED BY <2>1, <2>2, <2>3
<1>3. Remembers(rows[t], [rows[t] EXCEPT !.out = rows[t].out \/ yes, !.fee = rows[t].fee \/ fee])
  BY <1>1, RowsWritten
<1>4. PICK new : rows' = [rows EXCEPT ![t] = new] /\ Remembers(rows[t], new)
  BY <1>2, <1>3
<1>5. new \in Row /\ new.status = Chain(t)
  BY <1>1, <1>4 DEF Remembers
<1>6. RowsStay
  BY <1>1, <1>4, <1>5, RowWritten
<1>7. \A u \in TradeTxs : rows'[u] = NoRow <=> rows[u] = NoRow
  BY <1>1, <1>4, <1>5, KnownAtHand
<1> QED BY <1>1, <1>6, <1>7

LEMMA HopsAre ==
  ASSUME NEW t \in TradeTxs
  PROVE /\ Hops(t) \in Seq([at : Nat, amount : Nat \ {0}]) /\ Ok(t) \in BOOLEAN
        /\ Len(Hops(t)) \in Nat /\ DOMAIN Hops(t) = 1 .. Len(Hops(t))
        /\ \A i \in DOMAIN Hops(t) : Hops(t)[i].at \in Nat /\ Hops(t)[i].amount \in Nat \ {0}
<1>1. Trades[t] \in [ok : BOOLEAN, hops : Seq([at : Nat, amount : Nat \ {0}])]
  BY TradesFinite, TradeAssumption, ElementOfSeq DEF TradeAssumption
<1>2. Hops(t) \in Seq([at : Nat, amount : Nat \ {0}]) /\ Ok(t) \in BOOLEAN
  BY <1>1 DEF Hops, Ok
<1>3. Len(Hops(t)) \in Nat /\ DOMAIN Hops(t) = 1 .. Len(Hops(t))
  BY <1>2, LenProperties
<1>4. ASSUME NEW i \in DOMAIN Hops(t) PROVE Hops(t)[i] \in [at : Nat, amount : Nat \ {0}]
  BY <1>2, <1>3, ElementOfSeq
<1> QED BY <1>2, <1>3, <1>4

\* The legs of a record are steps of the transaction, those of the events with
\* the amounts that moved.
LEMMA ParsedIs ==
  ASSUME NEW t \in TradeTxs, NEW src \in {"legs", "reasons", "events", "envelope"}
  PROVE /\ Parsed(t, src) \in Seq(Leg) /\ Len(Parsed(t, src)) = Len(Hops(t))
        /\ DOMAIN Parsed(t, src) = DOMAIN Hops(t)
        /\ \A i \in DOMAIN Hops(t) :
             /\ Parsed(t, src)[i].at = Hops(t)[i].at
             /\ src = "events" => /\ Parsed(t, src)[i].amount = Hops(t)[i].amount
                                  /\ Parsed(t, src)[i].actual
<1> DEFINE n == Len(Hops(t))
           e(i) == [at |-> Hops(t)[i].at,
                    amount |-> IF src = "events" THEN Hops(t)[i].amount ELSE 0,
                    actual |-> src = "events", out |-> src # "events"]
<1>1. n \in Nat /\ DOMAIN Hops(t) = 1 .. n
  BY HopsAre
<1>2. ASSUME NEW i \in 1 .. n PROVE e(i) \in Leg
  <2>1. Hops(t)[i].at \in Nat /\ Hops(t)[i].amount \in Nat
    BY <1>1, HopsAre
  <2>2. (src = "events") \in BOOLEAN /\ (src # "events") \in BOOLEAN
    OBVIOUS
  <2>3. (IF src = "events" THEN Hops(t)[i].amount ELSE 0) \in Nat
    BY <2>1
  <2> QED BY <2>1, <2>2, <2>3 DEF Leg
<1>3. Parsed(t, src) = [i \in 1 .. n |-> e(i)]
  BY <1>1 DEF Parsed
<1> HIDE DEF n
<1>4. [i \in 1 .. n |-> e(i)] \in Seq(Leg)
  <2> HIDE DEF e
  <2> QED BY <1>1, <1>2, IsASeq
<1>5. Len(Parsed(t, src)) = n
  <2>1. DOMAIN Parsed(t, src) = 1 .. n
    BY <1>3
  <2> QED BY <1>1, <1>3, <1>4, <2>1, LenProperties
<1>6. ASSUME NEW i \in DOMAIN Hops(t)
      PROVE /\ Parsed(t, src)[i].at = Hops(t)[i].at
            /\ src = "events" => /\ Parsed(t, src)[i].amount = Hops(t)[i].amount
                                 /\ Parsed(t, src)[i].actual
  <2>1. Parsed(t, src)[i] = e(i)
    BY <1>1, <1>3 DEF n
  <2>2. e(i).at = Hops(t)[i].at /\ e(i).actual = (src = "events")
        /\ e(i).amount = IF src = "events" THEN Hops(t)[i].amount ELSE 0
    OBVIOUS
  <2> HIDE DEF e
  <2> QED BY <2>1, <2>2
<1>7. DOMAIN Parsed(t, src) = DOMAIN Hops(t)
  <2> HIDE DEF e
  <2> QED BY <1>1, <1>3 DEF n
<1>8. Len(Parsed(t, src)) = Len(Hops(t))
  BY <1>5 DEF n
<1> HIDE DEF e
<1> QED BY <1>3, <1>4, <1>6, <1>7, <1>8

LEMMA EnrichedIs ==
  ASSUME NEW new \in Seq(Leg), NEW old \in Seq(Leg)
  PROVE /\ Enriched(new, old) \in Seq(Leg) /\ Len(Enriched(new, old)) = Len(new)
        /\ DOMAIN Enriched(new, old) = DOMAIN new
<1> DEFINE same(i) == {j \in DOMAIN old : old[j].at = new[i].at /\ Rank(old, j) = Rank(new, i)}
           stored(i) == old[CHOOSE j \in same(i) : TRUE]
           e(i) == IF same(i) = {} THEN new[i]
                   ELSE [new[i] EXCEPT !.amount = IF stored(i).amount # 0 THEN stored(i).amount ELSE new[i].amount,
                                       !.actual = stored(i).actual]
           n == Len(new)
<1>1. n \in Nat /\ DOMAIN new = 1 .. n
  BY LenProperties
<1>2. ASSUME NEW i \in 1 .. n PROVE e(i) \in Leg
  <2>1. new[i] \in Leg
    BY <1>1, ElementOfSeq
  <2>2. CASE same(i) = {}
    BY <2>1, <2>2
  <2>3. CASE same(i) # {}
    <3>1. PICK k : k = CHOOSE j \in same(i) : TRUE
      OBVIOUS
    <3>2. k \in same(i)
      <4> HIDE DEF same
      <4> QED BY <2>3, <3>1
    <3>3. old[k] \in Leg
      BY <3>2, LenProperties, ElementOfSeq
    <3>4. stored(i) \in Leg
      BY <3>1, <3>3
    <3> HIDE DEF same, stored
    <3>5. e(i) = [new[i] EXCEPT !.amount = IF stored(i).amount # 0 THEN stored(i).amount ELSE new[i].amount,
                                !.actual = stored(i).actual]
      BY <2>3
    <3>6. stored(i).amount \in Nat /\ stored(i).actual \in BOOLEAN
      BY <3>4 DEF Leg
    <3>7. new[i].amount \in Nat
      BY <2>1 DEF Leg
    <3>8. (IF stored(i).amount # 0 THEN stored(i).amount ELSE new[i].amount) \in Nat
      BY <3>6, <3>7
    <3> QED BY <2>1, <3>5, <3>6, <3>8 DEF Leg
  <2> QED BY <2>2, <2>3
<1>3. Enriched(new, old) = [i \in 1 .. n |-> e(i)]
  BY <1>1 DEF Enriched
<1> HIDE DEF n, e
<1>4. [i \in 1 .. n |-> e(i)] \in Seq(Leg)
  BY <1>1, <1>2, IsASeq
<1>5. Len(Enriched(new, old)) = n
  <2>1. DOMAIN Enriched(new, old) = 1 .. n
    BY <1>3
  <2> QED BY <1>1, <1>3, <1>4, <2>1, LenProperties
<1> QED BY <1>1, <1>3, <1>4, <1>5 DEF n

\* A process goes to another place and has records left, about rows that are
\* there; the legs are what they may be.
Moved(p, place, new) ==
  /\ new \in Seq(Record)
  /\ \A i \in DOMAIN new : /\ new[i].src \in Sources(p)
                           /\ p = "repair" => rows'[new[i].tx] # NoRow
  /\ place \in {"down", "row", "read", "delete", "summary", "legs"}
  /\ place \notin {"down", "row"} => new # <<>> /\ rows'[Head(new).tx] # NoRow
  /\ pc' = [pc EXCEPT ![p] = place] /\ todo' = [todo EXCEPT ![p] = new]
  /\ legs' \in [TradeTxs -> Seq(Leg)] /\ mem' \in [Procs -> Seq(Leg)] /\ saved' \in BOOLEAN

LEMMA KnownStep ==
  ASSUME KnownInv, RowsStay, NEW p \in Procs, NEW place, NEW new, Moved(p, place, new)
  PROVE  KnownInv'
<1> USE DEF Moved
<1>1. TradeTypes'
  BY KnownAtHand DEF RowsStay, TradeTypes
<1>2. /\ pc'[p] = place /\ todo'[p] = new
      /\ \A q \in Procs : q # p => pc'[q] = pc[q] /\ todo'[q] = todo[q]
  BY KnownAtHand
<1>3. ASSUME NEW q \in Procs, pc'[q] \notin {"down", "row"}
      PROVE  todo'[q] # <<>> /\ rows'[Current(q)'.tx] # NoRow
  <2>1. CASE q = p
    BY <1>2, <1>3, <2>1 DEF Current
  <2>2. CASE q # p
    <3>1. todo[q] # <<>> /\ rows[Current(q).tx] # NoRow
      BY <1>2, <1>3, <2>2, KnownAtHand DEF RowsKnown
    <3>2. Current(q).tx \in TradeTxs
      BY <3>1, KnownAtHand DEF Record
    <3>3. Current(q)' = Current(q)
      BY <1>2, <2>2 DEF Current
    <3> QED BY <1>2, <2>2, <3>1, <3>2, <3>3 DEF RowsStay
  <2> QED BY <2>1, <2>2
<1>4. ASSUME NEW q \in Procs, NEW i \in DOMAIN todo'[q] PROVE todo'[q][i].src \in Sources(q)
  <2>1. CASE q = p
    BY <1>2, <1>4, <2>1
  <2>2. CASE q # p
    BY <1>2, <1>4, <2>2, KnownAtHand DEF RowsKnown
  <2> QED BY <2>1, <2>2
<1>5. ASSUME NEW i \in DOMAIN todo'["repair"] PROVE rows'[todo'["repair"][i].tx] # NoRow
  <2>1. CASE p = "repair"
    BY <1>2, <1>5, <2>1
  <2>2. CASE p # "repair"
    <3>1. todo'["repair"] = todo["repair"] /\ "repair" \in Procs
      BY <1>2, <2>2 DEF Procs
    <3>2. rows[todo["repair"][i].tx] # NoRow /\ todo["repair"][i] \in Record
      BY <1>5, <3>1, KnownAtHand DEF RowsKnown
    <3> QED BY <3>1, <3>2 DEF RowsStay, Record
  <2> QED BY <2>1, <2>2
<1>6. \A t \in TradeTxs : rows'[t] # NoRow => rows'[t].status = Chain(t)
  BY DEF RowsStay
<1>7. RowsKnown'
  <2>1. \A t : Chain(t)' = Chain(t)
    BY DEF Chain, Ok
  <2> QED BY <1>3, <1>4, <1>5, <1>6, <2>1 DEF RowsKnown
<1> QED BY <1>1, <1>7 DEF KnownInv

LEMMA KnownNext ==
  ASSUME KnownInv, [TradesNext]_tradevars
  PROVE  KnownInv' /\ RowsStay
<1> USE DEF Moves, NextRecord
<1>1. /\ \A p \in Procs : /\ todo[p] \in Seq(Record) /\ todo = [todo EXCEPT ![p] = todo[p]]
                          /\ pc = [pc EXCEPT ![p] = pc[p]]
                          /\ \A i \in DOMAIN todo[p] :
                               /\ todo[p][i].src \in Sources(p) /\ todo[p][i] \in Record
                               /\ p = "repair" => rows[todo[p][i].tx] # NoRow
      /\ \A p \in Procs : pc[p] \notin {"down", "row"} =>
           /\ todo[p] # <<>> /\ rows[Current(p).tx] # NoRow /\ Current(p).tx \in TradeTxs
           /\ Current(p).src \in {"legs", "reasons", "events", "envelope"}
  <2>1. \A p \in Procs : \A i \in DOMAIN todo[p] :
          /\ todo[p][i].src \in Sources(p) /\ todo[p][i] \in Record
          /\ p = "repair" => rows[todo[p][i].tx] # NoRow
    BY KnownAtHand DEF RowsKnown
  <2>2. \A p \in Procs : pc[p] \notin {"down", "row"} =>
          todo[p] # <<>> /\ rows[Current(p).tx] # NoRow
    BY KnownAtHand DEF RowsKnown
  <2>3. \A p \in Procs : pc[p] \notin {"down", "row"} =>
          Current(p).tx \in TradeTxs /\ Current(p).src \in {"legs", "reasons", "events", "envelope"}
    BY <2>2, KnownAtHand DEF Record
  <2> QED BY <2>1, <2>2, <2>3, KnownAtHand
\* The records a process has left stay about rows that are there.
<1>2. ASSUME RowsStay, NEW p \in Procs
      PROVE  \A i \in DOMAIN todo[p] : /\ todo[p][i].src \in Sources(p)
                                       /\ p = "repair" => rows'[todo[p][i].tx] # NoRow
  <2>1. ASSUME NEW i \in DOMAIN todo[p] PROVE todo[p][i].tx \in TradeTxs
    BY <1>1 DEF Record
  <2> QED BY <1>1, <1>2, <2>1 DEF RowsStay
<1>3. ASSUME RowsStay, NEW p \in Procs, todo[p] # <<>>
      PROVE  /\ Tail(todo[p]) \in Seq(Record)
             /\ \A i \in DOMAIN Tail(todo[p]) :
                  /\ Tail(todo[p])[i].src \in Sources(p)
                  /\ p = "repair" => rows'[Tail(todo[p])[i].tx] # NoRow
  BY <1>2, <1>3, KnownAtHand
<1>4. ASSUME NEW p \in Procs, Ingest(p) PROVE KnownInv' /\ RowsStay
  <2>1. RowsStay
    BY <1>4, RowsUnchanged DEF Ingest
  <2>2. PICK seen \in SUBSET {t \in TradeTxs : Ok(t)}, envelopes \in {{}, TradeTxs} :
          todo' = [todo EXCEPT ![p] = Records("events", seen) \o Records("envelope", envelopes)]
    BY <1>4 DEF Ingest
  <2> DEFINE new == Records("events", seen) \o Records("envelope", envelopes)
  <2>3. /\ Records("events", seen) \in Seq(Record) /\ Records("envelope", envelopes) \in Seq(Record)
        /\ \A i \in DOMAIN Records("events", seen) : Records("events", seen)[i].src = "events"
        /\ \A i \in DOMAIN Records("envelope", envelopes) : Records("envelope", envelopes)[i].src = "envelope"
    BY RecordsAre
  <2>4. new \in Seq(Record) /\ \A i \in DOMAIN new : new[i].src \in {"events", "envelope"}
    <3> DEFINE a == Records("events", seen)
               b == Records("envelope", envelopes)
    <3> HIDE DEF a, b
    <3>1. a \o b \in Seq(Record) /\ Len(a \o b) = Len(a) + Len(b)
      BY <2>3, ConcatProperties DEF a, b
    <3>2. \A i \in 1 .. Len(a) + Len(b) : (a \o b)[i] = IF i <= Len(a) THEN a[i] ELSE b[i - Len(a)]
      BY <2>3, ConcatProperties DEF a, b
    <3>3. DOMAIN (a \o b) = 1 .. Len(a) + Len(b) /\ DOMAIN a = 1 .. Len(a) /\ DOMAIN b = 1 .. Len(b)
          /\ Len(a) \in Nat /\ Len(b) \in Nat
      BY <2>3, <3>1, LenProperties DEF a, b
    <3>4. ASSUME NEW i \in DOMAIN (a \o b) PROVE (a \o b)[i].src \in {"events", "envelope"}
      <4>1. CASE i <= Len(a)
        BY <2>3, <3>2, <3>3, <4>1 DEF a
      <4>2. CASE ~(i <= Len(a))
        <5>1. i - Len(a) \in DOMAIN b /\ (a \o b)[i] = b[i - Len(a)]
          BY <3>2, <3>3, <4>2
        <5> QED BY <2>3, <5>1 DEF b
      <4> QED BY <4>1, <4>2
    <3> QED BY <3>1, <3>4 DEF a, b
  <2> HIDE DEF new
  <2>5. \A i \in DOMAIN new : new[i].src \in Sources(p) /\ (p = "repair" => rows'[new[i].tx] # NoRow)
    BY <1>4, <2>4 DEF Ingest, Sources
  <2>6. /\ todo' = [todo EXCEPT ![p] = new] /\ pc' = [pc EXCEPT ![p] = "row"]
        /\ legs' = legs /\ mem' = mem /\ saved' = saved
    BY <1>4, <2>2 DEF Ingest, new
  <2>7. Moved(p, "row", new)
    BY <2>4, <2>5, <2>6, KnownAtHand DEF Moved
  <2> QED BY <2>1, <2>7, KnownStep
<1>5. ASSUME Repair PROVE KnownInv' /\ RowsStay
  <2>1. RowsStay
    BY <1>5, RowsUnchanged DEF Repair
  <2>2. PICK src \in {"legs", "reasons"} :
          todo' = [todo EXCEPT !["repair"] =
            Records(src, {t \in TradeTxs : /\ rows[t] # NoRow
                                           /\ src = "reasons" => /\ rows[t].status = "FAILED"
                                                                 /\ rows[t].reason # "code"})]
    BY <1>5 DEF Repair
  <2> DEFINE set == {t \in TradeTxs : /\ rows[t] # NoRow
                                      /\ src = "reasons" => /\ rows[t].status = "FAILED"
                                                            /\ rows[t].reason # "code"}
             new == Records(src, set)
  <2>3. set \in SUBSET TradeTxs /\ \A t \in set : rows'[t] # NoRow
    BY <1>5 DEF Repair
  <2>4. new \in Seq(Record) /\ \A i \in DOMAIN new : new[i].tx \in set /\ new[i].src = src
    <3> HIDE DEF set
    <3> QED BY <2>3, RecordsAre
  <2>5. /\ todo' = [todo EXCEPT !["repair"] = new] /\ pc' = [pc EXCEPT !["repair"] = "row"]
        /\ legs' = legs /\ mem' = mem /\ saved' = saved
    BY <1>5, <2>2 DEF Repair
  <2> HIDE DEF new, set
  <2>6. \A i \in DOMAIN new : new[i].src \in Sources("repair") /\ rows'[new[i].tx] # NoRow
    BY <2>3, <2>4 DEF Sources
  <2>7. "repair" \in Procs
    BY DEF Procs
  <2>8. Moved("repair", "row", new)
    BY <2>4, <2>5, <2>6, KnownAtHand DEF Moved
  <2> QED BY <2>1, <2>7, <2>8, KnownStep
<1>6. ASSUME NEW p \in Procs, Done(p) PROVE KnownInv' /\ RowsStay
  <2>1. RowsStay
    BY <1>6, RowsUnchanged DEF Done
  <2>2. /\ todo' = [todo EXCEPT ![p] = todo[p]] /\ pc' = [pc EXCEPT ![p] = "down"]
        /\ legs' = legs /\ mem' = mem /\ saved' \in BOOLEAN
    BY <1>1, <1>6, KnownAtHand DEF Done
  <2>3. Moved(p, "down", todo[p])
    BY <1>1, <1>2, <2>1, <2>2, KnownAtHand DEF Moved
  <2> QED BY <2>1, <2>3, KnownStep
<1>7. ASSUME NEW p \in Procs, Crash(p) PROVE KnownInv' /\ RowsStay
  <2>1. RowsStay
    BY <1>7, RowsUnchanged DEF Crash
  <2>2. <<>> \in Seq(Record) /\ <<>> \in Seq(Leg) /\ DOMAIN <<>> = {}
    OBVIOUS
  <2>3. /\ todo' = [todo EXCEPT ![p] = <<>>] /\ pc' = [pc EXCEPT ![p] = "down"]
        /\ legs' = legs /\ mem' \in [Procs -> Seq(Leg)] /\ saved' = saved
    BY <1>7, <2>2, KnownAtHand DEF Crash
  <2>4. Moved(p, "down", <<>>)
    BY <2>2, <2>3, KnownAtHand DEF Moved
  <2> QED BY <2>1, <2>4, KnownStep
<1>8. ASSUME NEW p \in Procs, InsertRow(p) PROVE KnownInv' /\ RowsStay
  <2>1. RowsStay /\ Current(p).tx \in TradeTxs /\ rows'[Current(p).tx] # NoRow
    BY <1>8, InsertRowStays
  <2>2. todo[p] # <<>> /\ Current(p).src \in {"legs", "reasons", "events", "envelope"}
    BY <1>8 DEF InsertRow
  <2>3. Parsed(Current(p).tx, Current(p).src) \in Seq(Leg) /\ <<>> \in Seq(Leg)
    BY <2>1, <2>2, ParsedIs
  <2>4. /\ todo' = [todo EXCEPT ![p] = todo[p]]
        /\ legs' = legs /\ mem' \in [Procs -> Seq(Leg)] /\ saved' = saved
    BY <1>1, <1>8, <2>3, KnownAtHand DEF InsertRow
  <2>5. PICK place \in {"legs", "read"} : pc' = [pc EXCEPT ![p] = place]
    BY <1>8 DEF InsertRow
  <2>6. Moved(p, place, todo[p])
    BY <1>1, <1>2, <2>1, <2>2, <2>4, <2>5, KnownAtHand DEF Moved, Current
  <2> QED BY <2>1, <2>6, KnownStep
<1>9. ASSUME NEW p \in Procs, Reread(p) PROVE KnownInv' /\ RowsStay
  <2>1. RowsStay /\ Current(p).tx \in TradeTxs /\ rows'[Current(p).tx] # NoRow
    BY <1>9, RereadStays
  <2>2. todo[p] # <<>> /\ legs' = legs /\ mem' = mem /\ saved' = saved
    BY <1>9 DEF Reread
  <2>3. \/ pc' = [pc EXCEPT ![p] = "read"] /\ todo' = [todo EXCEPT ![p] = todo[p]]
        \/ pc' = [pc EXCEPT ![p] = "row"] /\ todo' = [todo EXCEPT ![p] = Tail(todo[p])]
    BY <1>1, <1>9 DEF Reread
  <2>4. CASE pc' = [pc EXCEPT ![p] = "read"] /\ todo' = [todo EXCEPT ![p] = todo[p]]
    <3>1. Moved(p, "read", todo[p])
      BY <1>1, <1>2, <2>1, <2>2, <2>4, KnownAtHand DEF Moved, Current
    <3> QED BY <2>1, <3>1, KnownStep
  <2>5. CASE pc' = [pc EXCEPT ![p] = "row"] /\ todo' = [todo EXCEPT ![p] = Tail(todo[p])]
    <3>1. Moved(p, "row", Tail(todo[p]))
      BY <1>3, <2>1, <2>2, <2>5, KnownAtHand DEF Moved
    <3> QED BY <2>1, <3>1, KnownStep
  <2> QED BY <2>1, <2>3, <2>4, <2>5
<1>10. ASSUME NEW p \in Procs, ReadLegs(p) PROVE KnownInv' /\ RowsStay
  <2>1. RowsStay
    BY <1>10, RowsUnchanged DEF ReadLegs
  <2>2. todo[p] # <<>> /\ rows'[Head(todo[p]).tx] # NoRow /\ Current(p).tx \in TradeTxs
    BY <1>1, <1>10 DEF ReadLegs, Current
  <2>3. legs[Current(p).tx] \in Seq(Leg)
    BY <2>2, KnownAtHand
  <2>4. /\ pc' = [pc EXCEPT ![p] = "delete"] /\ todo' = [todo EXCEPT ![p] = todo[p]]
        /\ legs' = legs /\ mem' \in [Procs -> Seq(Leg)] /\ saved' = saved
    BY <1>1, <1>10, <2>3, KnownAtHand DEF ReadLegs
  <2>5. Moved(p, "delete", todo[p])
    BY <1>1, <1>2, <2>1, <2>2, <2>4, KnownAtHand DEF Moved
  <2> QED BY <2>1, <2>5, KnownStep
<1>11. ASSUME NEW p \in Procs, Delete(p) PROVE KnownInv' /\ RowsStay
  <2>1. RowsStay
    BY <1>11, RowsUnchanged DEF Delete
  <2>2. /\ todo[p] # <<>> /\ rows'[Head(todo[p]).tx] # NoRow /\ Current(p).tx \in TradeTxs
        /\ Current(p).src \in {"legs", "reasons", "events", "envelope"}
    BY <1>1, <1>11 DEF Delete, Current
  <2>3. Enriched(Parsed(Current(p).tx, Current(p).src), mem[p]) \in Seq(Leg) /\ <<>> \in Seq(Leg)
    BY <2>2, KnownAtHand, ParsedIs, EnrichedIs
  <2>4. /\ pc' = [pc EXCEPT ![p] = "summary"] /\ todo' = [todo EXCEPT ![p] = todo[p]]
        /\ legs' \in [TradeTxs -> Seq(Leg)] /\ mem' \in [Procs -> Seq(Leg)] /\ saved' = saved
    BY <1>1, <1>11, <2>3, KnownAtHand DEF Delete
  <2>5. Moved(p, "summary", todo[p])
    BY <1>1, <1>2, <2>1, <2>2, <2>4, KnownAtHand DEF Moved
  <2> QED BY <2>1, <2>5, KnownStep
<1>12. ASSUME NEW p \in Procs, Summary(p) PROVE KnownInv' /\ RowsStay
  <2>1. RowsStay /\ Current(p).tx \in TradeTxs /\ rows'[Current(p).tx] # NoRow
    BY <1>12, SummaryStays
  <2>2. todo[p] # <<>> /\ rows'[Head(todo[p]).tx] # NoRow
    BY <1>1, <1>12, <2>1 DEF Summary, Current
  <2>4. /\ pc' = [pc EXCEPT ![p] = "legs"] /\ todo' = [todo EXCEPT ![p] = todo[p]]
        /\ legs' = legs /\ mem' = mem /\ saved' = saved
    BY <1>1, <1>12 DEF Summary
  <2>5. Moved(p, "legs", todo[p])
    BY <1>1, <1>2, <2>1, <2>2, <2>4, KnownAtHand DEF Moved
  <2> QED BY <2>1, <2>5, KnownStep
<1>13. ASSUME NEW p \in Procs, InsertLeg(p) PROVE KnownInv' /\ RowsStay
  <2>1. RowsStay
    BY <1>13, RowsUnchanged DEF InsertLeg
  <2>2. todo[p] # <<>> /\ rows'[Head(todo[p]).tx] # NoRow /\ Current(p).tx \in TradeTxs
    BY <1>1, <1>13 DEF InsertLeg, Current
  <2>3. CASE mem[p] # <<>>
    <3>1. Head(mem[p]) \in Leg /\ Tail(mem[p]) \in Seq(Leg)
      BY <2>3, KnownAtHand, HeadTailProperties
    <3>2. Append(legs[Current(p).tx], Head(mem[p])) \in Seq(Leg)
      BY <2>2, <3>1, KnownAtHand, AppendProperties
    <3>3. /\ pc' = [pc EXCEPT ![p] = "legs"] /\ todo' = [todo EXCEPT ![p] = todo[p]]
          /\ legs' \in [TradeTxs -> Seq(Leg)] /\ mem' \in [Procs -> Seq(Leg)] /\ saved' = saved
      <4>1. /\ pc[p] = "legs" /\ pc' = pc /\ todo' = todo /\ saved' = saved
            /\ legs' = [legs EXCEPT ![Current(p).tx] = Append(legs[Current(p).tx], Head(mem[p]))]
            /\ mem' = [mem EXCEPT ![p] = Tail(mem[p])]
        BY <1>13, <2>3 DEF InsertLeg
      <4>2. pc' = [pc EXCEPT ![p] = "legs"] /\ todo' = [todo EXCEPT ![p] = todo[p]]
        BY <4>1, KnownAtHand
      <4>3. legs' \in [TradeTxs -> Seq(Leg)]
        BY <3>2, <4>1, KnownAtHand
      <4>4. mem' \in [Procs -> Seq(Leg)]
        BY <3>1, <4>1, KnownAtHand
      <4> QED BY <4>1, <4>2, <4>3, <4>4
    <3>4. Moved(p, "legs", todo[p])
      BY <1>1, <1>2, <2>1, <2>2, <3>3, KnownAtHand DEF Moved
    <3> QED BY <2>1, <3>4, KnownStep
  <2>4. CASE mem[p] = <<>>
    <3>1. /\ pc' = [pc EXCEPT ![p] = "row"] /\ todo' = [todo EXCEPT ![p] = Tail(todo[p])]
          /\ legs' = legs /\ mem' = mem /\ saved' = saved
      BY <1>13, <2>4 DEF InsertLeg
    <3>2. Moved(p, "row", Tail(todo[p]))
      BY <1>3, <2>1, <2>2, <3>1, KnownAtHand DEF Moved
    <3> QED BY <2>1, <3>2, KnownStep
  <2> QED BY <2>1, <2>3, <2>4
<1>14. CASE UNCHANGED tradevars
  <2>1. RowsStay
    BY <1>14, RowsUnchanged DEF tradevars
  <2>2. /\ "live" \in Procs /\ pc' = [pc EXCEPT !["live"] = pc["live"]]
        /\ todo' = [todo EXCEPT !["live"] = todo["live"]]
        /\ legs' = legs /\ mem' = mem /\ saved' = saved
    BY <1>1, <1>14 DEF tradevars, Procs
  <2>3. pc["live"] \notin {"down", "row"} => todo["live"] # <<>> /\ rows'[Head(todo["live"]).tx] # NoRow
    BY <1>1, <1>14, <2>2 DEF tradevars, Current
  <2>4. Moved("live", pc["live"], todo["live"])
    BY <1>1, <1>2, <2>1, <2>2, <2>3, KnownAtHand DEF Moved
  <2> QED BY <2>1, <2>2, <2>4, KnownStep
<1> QED BY <1>4, <1>5, <1>6, <1>7, <1>8, <1>9, <1>10, <1>11, <1>12, <1>13, <1>14
        DEF TradesNext, Work

(***************************************************************************)
(* Whatever is read again, and whoever reads it, no row loses its status,  *)
(* its output or its fee, and no reason gets less exact.                   *)
(***************************************************************************)
THEOREM NothingForgotten == TradesSpec => NothingKnownIsForgotten
<1>1. KnownInv /\ [TradesNext]_tradevars => KnownInv'
  BY KnownNext
<1>2. ASSUME KnownInv, [TradesNext]_tradevars
      PROVE \A t \in TradeTxs : rows[t] # NoRow =>
              /\ rows'[t] # NoRow
              /\ rows'[t].status = rows[t].status
              /\ (rows[t].out => rows'[t].out) /\ (rows[t].fee => rows'[t].fee)
              /\ Exactness[rows'[t].reason] >= Exactness[rows[t].reason]
  BY <1>2, KnownNext DEF RowsStay, Remembers
<1> QED BY <1>1, <1>2, TradesStart, PTL DEF TradesSpec, NothingKnownIsForgotten

TradesInv == KnownInv /\ LegsFollow /\ NothingLeftOut

\* How many steps like it come before a step tells it from the others like it.
LEMMA RankTells ==
  ASSUME NEW steps, NEW k \in Nat, NEW i \in 1 .. k, NEW j \in 1 .. k,
         steps[i].at = steps[j].at, Rank(steps, i) = Rank(steps, j)
  PROVE  i = j
<1> DEFINE before(m) == {x \in 1 .. m - 1 : steps[x].at = steps[m].at}
<1>1. ASSUME NEW m \in 1 .. k, NEW n \in 1 .. k, m < n, steps[m].at = steps[n].at
      PROVE  Rank(steps, m) # Rank(steps, n)
  <2>1. IsFiniteSet(1 .. n - 1)
    BY FS_Interval
  <2>2. before(n) \in SUBSET (1 .. n - 1) /\ IsFiniteSet(before(n))
    BY <2>1, FS_Subset
  <2>3. before(m) \in SUBSET before(n)
    BY <1>1
  <2>4. m \in before(n) /\ m \notin before(m)
    BY <1>1
  <2>5. Cardinality(before(m)) = Cardinality(before(n)) => before(m) = before(n)
    <3> HIDE DEF before
    <3> QED BY <2>2, <2>3, FS_Subset
  <2> QED BY <2>4, <2>5 DEF Rank
<1>2. i < j \/ j < i \/ i = j
  OBVIOUS
<1> QED BY <1>1, <1>2

\* The place of a step among those like it is the same in the legs as on the chain.
LEMMA RankFits ==
  ASSUME NEW t \in TradeTxs, NEW steps, NEW k \in Nat, k <= Len(Hops(t)),
         \A i \in 1 .. k : steps[i].at = Hops(t)[i].at, NEW j \in 1 .. k
  PROVE  Rank(steps, j) = Rank(Hops(t), j)
<1>1. {x \in 1 .. j - 1 : steps[x].at = steps[j].at}
        = {x \in 1 .. j - 1 : Hops(t)[x].at = Hops(t)[j].at}
  <2>1. \A x \in 1 .. j - 1 : x \in 1 .. k
    OBVIOUS
  <2> QED BY <2>1
<1> QED BY <1>1 DEF Rank

\* Legs that are read again, from whichever record, are the steps of the chain:
\* a leg takes over the amount of the very leg it replaces.
LEMMA EnrichedFits ==
  ASSUME NEW t \in TradeTxs, NEW src \in {"legs", "reasons", "events", "envelope"},
         NEW old \in Seq(Leg), Len(old) <= Len(Hops(t)), Fit(old, t, 0),
         src # "events" => Len(old) = Len(Hops(t))
  PROVE  Fit(Enriched(Parsed(t, src), old), t, 0)
<1> DEFINE new == Parsed(t, src)
           made == Enriched(new, old)
           n == Len(Hops(t))
           same(i) == {j \in DOMAIN old : old[j].at = new[i].at /\ Rank(old, j) = Rank(new, i)}
           stored(i) == old[CHOOSE j \in same(i) : TRUE]
<1>1. /\ n \in Nat /\ DOMAIN new = 1 .. n /\ DOMAIN Hops(t) = 1 .. n
      /\ \A i \in 1 .. n : /\ new[i].at = Hops(t)[i].at
                           /\ src = "events" => new[i].amount = Hops(t)[i].amount /\ new[i].actual
      /\ \A i \in 1 .. n : Hops(t)[i].amount \in Nat \ {0}
      /\ new \in Seq(Leg)
  BY HopsAre, ParsedIs
<1>2. /\ Len(old) \in Nat /\ DOMAIN old = 1 .. Len(old) /\ Len(old) <= n
      /\ \A i \in 1 .. Len(old) : /\ old[i].at = Hops(t)[i].at
                                  /\ old[i].amount = Hops(t)[i].amount /\ old[i].actual
  BY LenProperties DEF Fit
<1>3. DOMAIN made = 1 .. n
  BY <1>1, EnrichedIs
<1> SUFFICES ASSUME NEW i \in 1 .. n
             PROVE /\ made[i].at = Hops(t)[i].at /\ made[i].amount = Hops(t)[i].amount
                   /\ made[i].actual
  <2> HIDE DEF made, n
  <2> SUFFICES ASSUME NEW i \in DOMAIN made
               PROVE /\ made[i].at = Hops(t)[0 + i].at /\ made[i].amount = Hops(t)[0 + i].amount
                     /\ made[i].actual
    BY DEF Fit, made
  <2>1. i \in 1 .. n /\ 0 + i = i
    BY <1>1, <1>3
  <2> QED BY <2>1
<1>4. made[i] = IF same(i) = {} THEN new[i]
                ELSE [new[i] EXCEPT !.amount = IF stored(i).amount # 0 THEN stored(i).amount ELSE new[i].amount,
                                    !.actual = stored(i).actual]
  BY <1>1 DEF Enriched
<1> HIDE DEF new, made, n
<1>5. Rank(new, i) = Rank(Hops(t), i)
  <2>1. n \in Nat /\ n <= Len(Hops(t)) /\ (\A x \in 1 .. n : new[x].at = Hops(t)[x].at)
    BY <1>1 DEF n
  <2> QED BY <2>1, RankFits
<1>6. ASSUME NEW j \in 1 .. Len(old) PROVE Rank(old, j) = Rank(Hops(t), j)
  <2>1. Len(old) \in Nat /\ Len(old) <= Len(Hops(t)) /\ (\A x \in 1 .. Len(old) : old[x].at = Hops(t)[x].at)
    BY <1>2
  <2> QED BY <2>1, RankFits
<1>7. \A j \in same(i) : j = i
  <2> SUFFICES ASSUME NEW j \in same(i) PROVE j = i
    OBVIOUS
  <2>0. j \in DOMAIN old /\ old[j].at = new[i].at /\ Rank(old, j) = Rank(new, i)
    OBVIOUS
  <2> HIDE DEF same
  <2>a. j \in 1 .. Len(old)
    BY <1>2, <2>0
  <2>b. \A a, b \in Nat : a <= b => 1 .. a \subseteq 1 .. b
    OBVIOUS
  <2>1. j \in 1 .. Len(old) /\ j \in 1 .. n /\ old[j].at = new[i].at /\ Rank(old, j) = Rank(new, i)
    BY <1>1, <1>2, <2>0, <2>a, <2>b
  <2>2. Hops(t)[j].at = Hops(t)[i].at /\ Rank(Hops(t), j) = Rank(Hops(t), i)
    BY <1>1, <1>2, <1>5, <1>6, <2>1
  <2> QED BY <1>1, <2>1, <2>2, RankTells
<1>8. i \in 1 .. Len(old) => i \in same(i)
  BY <1>1, <1>2, <1>5, <1>6
<1>9. new[i] \in Leg /\ new[i].at = Hops(t)[i].at
  BY <1>1, ElementOfSeq, LenProperties
<1>10. CASE same(i) = {}
  <2>1. i \notin 1 .. Len(old)
    BY <1>8, <1>10
  <2>2. src = "events"
    BY <1>2, <2>1 DEF n
  <2> QED BY <1>1, <1>4, <1>10, <2>2
<1>11. CASE same(i) # {}
  <2>1. i \in same(i) /\ (CHOOSE j \in same(i) : TRUE) = i
    <3> HIDE DEF same
    <3> QED BY <1>7, <1>11
  <2>2. stored(i) = old[i] /\ i \in 1 .. Len(old)
    <3>1. stored(i) = old[i]
      <4> HIDE DEF same
      <4> QED BY <2>1
    <3>2. i \in DOMAIN old
      BY <2>1
    <3>3. DOMAIN old = 1 .. Len(old)
      BY <1>2
    <3> HIDE DEF same, stored
    <3> QED BY <3>1, <3>2, <3>3
  <2>3. stored(i).amount = Hops(t)[i].amount /\ stored(i).actual /\ stored(i).amount # 0
    <3>1. old[i].amount = Hops(t)[i].amount /\ old[i].actual
      BY <1>2, <2>2
    <3>2. Hops(t)[i].amount # 0
      BY <1>1
    <3> HIDE DEF same, stored
    <3> QED BY <2>2, <3>1, <3>2
  <2> HIDE DEF same, stored
  <2>4. made[i] = [new[i] EXCEPT !.amount = stored(i).amount, !.actual = stored(i).actual]
    BY <1>4, <1>11, <2>3
  <2>5. made[i].at = new[i].at /\ made[i].amount = stored(i).amount /\ made[i].actual = stored(i).actual
    BY <1>9, <2>4 DEF Leg
  <2> QED BY <1>9, <2>3, <2>5
<1> QED BY <1>10, <1>11

\* Only one process takes a step, and nothing spoilt is ever made good.
Alone(p) ==
  /\ \A q \in Procs : q # p => pc'[q] = pc[q] /\ todo'[q] = todo[q] /\ mem'[q] = mem[q]
  /\ spoilt \subseteq spoilt'

LEMMA Alones ==
  ASSUME KnownInv, NEW p \in Procs,
         Ingest(p) \/ Work(p) \/ Crash(p) \/ (p = "repair" /\ Repair)
  PROVE  Alone(p) /\ Due' \subseteq Due
<1>1. Ingest(p) => Alone(p)
  BY KnownAtHand DEF Ingest, Alone
<1>2. Crash(p) => Alone(p)
  BY KnownAtHand DEF Crash, Alone
<1>3. p = "repair" /\ Repair => Alone(p)
  BY KnownAtHand DEF Repair, Alone
<1>4. InsertRow(p) => Alone(p)
  BY KnownAtHand DEF InsertRow, Alone, Moves
<1>5. Reread(p) => Alone(p)
  BY KnownAtHand DEF Reread, Alone, Moves, NextRecord
<1>6. ReadLegs(p) \/ Delete(p) => Alone(p)
  BY KnownAtHand DEF ReadLegs, Delete, Alone, Moves
<1>7. Summary(p) \/ Done(p) => Alone(p)
  BY KnownAtHand DEF Summary, Done, Alone, Moves
<1>8. InsertLeg(p) => Alone(p)
  BY KnownAtHand DEF InsertLeg, Alone, Moves, NextRecord
<1>9. Alone(p)
  BY <1>1, <1>2, <1>3, <1>4, <1>5, <1>6, <1>7, <1>8 DEF Work
<1>10. Due' \subseteq Due
  BY <1>9 DEF Alone, Due, Ok
<1> QED BY <1>9, <1>10

LEMMA AtWork ==
  ASSUME KnownInv, NEW p \in Procs, pc[p] \notin {"down", "row"}
  PROVE /\ todo[p] # <<>> /\ rows[Current(p).tx] # NoRow /\ Current(p).tx \in TradeTxs
        /\ Current(p).src \in {"legs", "reasons", "events", "envelope"}
<1>1. todo[p] # <<>> /\ rows[Current(p).tx] # NoRow
  BY KnownAtHand DEF RowsKnown
<1>2. Current(p).tx \in TradeTxs /\ Current(p).src \in {"legs", "reasons", "events", "envelope"}
  BY <1>1, KnownAtHand DEF Record
<1> QED BY <1>1, <1>2

\* What the others have in hand of a transaction whose legs are not touched.
LEMMA OthersKeep ==
  ASSUME NEW p \in Procs, Alone(p), NEW q \in Procs, q # p, NEW t \in TradeTxs
  PROVE  /\ At(q, t)' <=> At(q, t)
         /\ Rewriting(q, t)' <=> Rewriting(q, t)
         /\ Inserting(q, t)' <=> Inserting(q, t)
         /\ ToCome(q, t)' <=> ToCome(q, t)
         /\ EventsFirst(q)' <=> EventsFirst(q)
         /\ pc'[q] = pc[q]
         /\ Current(q)' = Current(q)
         /\ legs'[t] = legs[t] => (InHand(q, t)' <=> InHand(q, t))
<1>1. pc'[q] = pc[q] /\ todo'[q] = todo[q] /\ mem'[q] = mem[q]
  BY DEF Alone
<1>2. Current(q)' = Current(q)
  BY <1>1 DEF Current
<1>3. At(q, t)' <=> At(q, t)
  BY <1>1, <1>2 DEF At
<1>4. (Rewriting(q, t)' <=> Rewriting(q, t)) /\ (Inserting(q, t)' <=> Inserting(q, t))
  BY <1>1, <1>3 DEF Rewriting, Inserting
<1>5. ToCome(q, t)' <=> ToCome(q, t)
  BY <1>1 DEF ToCome
<1>6. EventsFirst(q)' <=> EventsFirst(q)
  BY <1>1 DEF EventsFirst
<1>7. legs'[t] = legs[t] => (InHand(q, t)' <=> InHand(q, t))
  BY <1>1, <1>2 DEF InHand, Fit, Hops
<1> QED BY <1>1, <1>2, <1>3, <1>4, <1>5, <1>6, <1>7

\* A step that leaves the legs of a transaction alone, and rewrites none of them
\* afterwards, leaves it as sound as it was.
LEMMA SoundStays ==
  ASSUME RowsStay, NEW p \in Procs, Alone(p), NEW t \in TradeTxs, Sound(t),
         legs'[t] = legs[t], rows[t] # NoRow \/ rows'[t] = NoRow, ~Rewriting(p, t)'
  PROVE  Sound(t)'
<1>1. rows'[t] # NoRow => rows'[t].out
  BY DEF Sound, RowsStay, Remembers
<1>2. (Len(legs[t]) <= Len(Hops(t)) /\ Fit(legs[t], t, 0))'
  BY DEF Sound, Fit, Hops
<1>3. ASSUME NEW q \in Procs, NEW o \in Procs, Rewriting(q, t)', Rewriting(o, t)'
      PROVE  q = o
  <2>1. q # p /\ o # p
    BY <1>3
  <2>2. Rewriting(q, t) /\ Rewriting(o, t)
    BY <1>3, <2>1, OthersKeep
  <2> QED BY <2>2 DEF Sound
<1>4. ASSUME NEW q \in Procs, At(q, t)' PROVE InHand(q, t)'
  <2>1. CASE q # p
    BY <1>4, <2>1, OthersKeep DEF Sound
  <2>2. CASE q = p
    BY <1>4, <2>2 DEF Rewriting, InHand
  <2> QED BY <2>1, <2>2
<1> QED BY <1>1, <1>2, <1>3, <1>4 DEF Sound

\* The same when the step is the one that has the legs in hand.
LEMMA SoundMade ==
  ASSUME NEW p \in Procs, Alone(p), NEW t \in TradeTxs,
         rows'[t] # NoRow => rows'[t].out,
         (Len(legs[t]) <= Len(Hops(t)) /\ Fit(legs[t], t, 0))',
         InHand(p, t)', \A q \in Procs : q # p => ~Rewriting(q, t)
  PROVE  Sound(t)'
<1>1. \A q \in Procs : q # p => ~Rewriting(q, t)'
  BY OthersKeep
<1>2. ASSUME NEW q \in Procs, At(q, t)' PROVE InHand(q, t)'
  <2>1. CASE q # p
    BY <1>1, <1>2, <2>1 DEF Rewriting, InHand
  <2>2. CASE q = p
    BY <2>2
  <2> QED BY <2>1, <2>2
<1> QED BY <1>1, <1>2 DEF Sound

LEMMA FollowNext ==
  ASSUME TradesInv, TradesNext
  PROVE  LegsFollow'
<1> USE DEF Moves, NextRecord
<1>0. KnownInv /\ LegsFollow /\ NothingLeftOut /\ RowsStay /\ KnownInv'
  BY KnownNext DEF TradesInv
<1>1. \A t \in Due : t \in TradeTxs /\ Sound(t) /\ Ok(t)
  BY <1>0 DEF LegsFollow, Due
\* A row that is gone or was never there has no legs.
<1>2. ASSUME \A t \in TradeTxs : legs'[t] = legs[t] \/ rows[t] # NoRow
      PROVE  \A t \in TradeTxs : rows'[t] = NoRow => legs'[t] = <<>>
  BY <1>0, <1>2 DEF LegsFollow, RowsStay
\* Steps that touch no legs and rewrite none afterwards.
<1>3. ASSUME NEW p \in Procs, Alone(p), Due' \subseteq Due, legs' = legs,
             \A t \in Due' : /\ rows[t] # NoRow \/ rows'[t] = NoRow
                             /\ ~Rewriting(p, t)'
      PROVE  LegsFollow'
  <2>1. \A t \in Due' : Sound(t)'
    BY <1>0, <1>1, <1>3, SoundStays
  <2> QED BY <1>2, <1>3, <2>1 DEF LegsFollow
<1>4. ASSUME NEW p \in Procs, pc'[p] \in {"down", "row", "read"}
      PROVE  \A t : ~Rewriting(p, t)'
  BY <1>4 DEF Rewriting
<1>5. ASSUME NEW p \in Procs, Ingest(p) \/ Done(p) \/ Crash(p) \/ (p = "repair" /\ Repair)
      PROVE  LegsFollow'
  <2>1. legs' = legs /\ rows' = rows /\ pc'[p] \in {"down", "row", "read"}
    BY <1>0, <1>5, KnownAtHand DEF Ingest, Done, Crash, Repair
  <2>2. Alone(p) /\ Due' \subseteq Due
    BY <1>0, <1>5, Alones DEF Work
  <2> QED BY <1>3, <1>4, <2>1, <2>2
<1>6. ASSUME NEW p \in Procs, Reread(p) PROVE LegsFollow'
  <2>1. legs' = legs /\ pc'[p] \in {"down", "row", "read"}
    BY <1>0, <1>6, KnownAtHand DEF Reread
  <2>2. Alone(p) /\ Due' \subseteq Due
    BY <1>0, <1>6, Alones DEF Work
  <2>3. \A t \in TradeTxs : rows[t] # NoRow \/ rows'[t] = NoRow
    BY <1>0, <1>6, RereadStays
  <2> QED BY <1>1, <1>3, <1>4, <2>1, <2>2, <2>3
<1>7. ASSUME NEW p \in Procs, InsertRow(p) PROVE LegsFollow'
  <2>0. PICK s : s = Current(p).tx
    OBVIOUS
  <2> USE <2>0
  <2>1. /\ legs' = legs /\ todo' = todo /\ spoilt' = spoilt /\ pc[p] = "row" /\ todo[p] # <<>>
        /\ Current(p).src \in {"events", "envelope"}
    BY <1>7 DEF InsertRow
  <2>2. Alone(p) /\ Due' \subseteq Due
    BY <1>0, <1>7, Alones DEF Work
  <2>3. /\ s \in TradeTxs /\ rows'[s] # NoRow
        /\ rows[s] = NoRow => (rows'[s].out <=> Current(p).src # "envelope")
        /\ \A u \in TradeTxs : u # s => rows'[u] = rows[u]
    BY <1>0, <1>7, InsertRowStays
  <2>4. CASE rows[s] # NoRow
    <3>1. pc'[p] = "read"
      BY <1>0, <1>7, <2>4, KnownAtHand DEF InsertRow
    <3>2. \A t \in TradeTxs : rows[t] # NoRow \/ rows'[t] = NoRow
      BY <2>3, <2>4
    <3> QED BY <1>1, <1>3, <1>4, <2>1, <2>2, <3>1, <3>2
  <2>5. CASE rows[s] = NoRow
    <3>1. pc'[p] = "legs" /\ mem'[p] = Parsed(s, Current(p).src)
      BY <1>0, <1>7, <2>5, KnownAtHand DEF InsertRow
    <3>2. Current(p)' = Current(p)
      BY <2>1 DEF Current
    <3>3. ASSUME NEW t \in Due', t # s PROVE Sound(t)'
      <4>1. ~Rewriting(p, t)'
        BY <3>2, <3>3 DEF Rewriting, At
      <4> QED BY <1>0, <1>1, <2>1, <2>2, <2>3, <3>3, <4>1, SoundStays
    <3>4. ASSUME s \in Due' PROVE Sound(s)'
      <4>1. s \in Due /\ ~Complete(s)
        BY <2>2, <2>5, <3>4 DEF Complete
      <4>2. ~BeingInserted(s)
        <5>1. ASSUME NEW q \in Procs, Inserting(q, s) PROVE FALSE
          BY <1>0, <2>5, <5>1, AtWork DEF Inserting, At
        <5> QED BY <5>1 DEF BeingInserted
      <4>3. p \in {"live", "backfill"}
        BY <1>0, <2>1, KnownAtHand DEF Sources, Procs
      <4>4. ToCome(p, s) /\ EventsFirst(p)
        BY <1>0, <2>1, <4>1, <4>2, <4>3 DEF NothingLeftOut
      <4>5. Current(p).src = "events"
        <5>1. PICK i \in DOMAIN todo[p] : todo[p][i] = [tx |-> s, src |-> "events"]
          BY <4>4 DEF ToCome
        <5>2. todo[p][i].src = "events"
          BY <5>1
        <5>3. 1 \in DOMAIN todo[p] /\ Current(p) = todo[p][1] /\ (i = 1 \/ 1 < i)
          BY <1>0, <2>1, KnownAtHand, LenProperties
        <5> QED BY <4>4, <5>2, <5>3 DEF EventsFirst
      <4>6. legs[s] = <<>>
        BY <1>0, <2>3, <2>5 DEF LegsFollow
      <4>7. /\ Parsed(s, "events") \in Seq(Leg) /\ Len(Parsed(s, "events")) = Len(Hops(s))
            /\ DOMAIN Parsed(s, "events") = DOMAIN Hops(s)
            /\ \A i \in DOMAIN Hops(s) :
                 /\ Parsed(s, "events")[i].at = Hops(s)[i].at
                 /\ Parsed(s, "events")[i].amount = Hops(s)[i].amount
                 /\ Parsed(s, "events")[i].actual
        BY <2>3, ParsedIs
      <4>8. Len(Hops(s)) \in Nat /\ \A i \in DOMAIN Hops(s) : 0 + i = i
        BY <2>3, HopsAre
      <4>9. Fit(Parsed(s, "events"), s, 0)
        BY <4>7, <4>8 DEF Fit
      <4>10. Len(<<>>) = 0 /\ Fit(<<>>, s, 0) /\ 0 + Len(Hops(s)) = Len(Hops(s))
        BY <4>8 DEF Fit
      <4>11. InHand(p, s)'
        <5>1. legs'[s] = <<>> /\ mem'[p] = Parsed(s, "events")
          BY <2>1, <3>1, <4>5, <4>6
        <5>2. Fit(mem[p], s, Len(legs[s]))'
          BY <4>9, <4>10, <5>1 DEF Fit, Hops
        <5>3. (Len(legs[s]) + Len(mem[p]) = Len(Hops(s)))'
          BY <4>7, <4>10, <5>1 DEF Hops
        <5> QED BY <3>1, <5>1, <5>2, <5>3 DEF InHand
      <4>12. (Len(legs[s]) <= Len(Hops(s)) /\ Fit(legs[s], s, 0))'
        BY <2>1, <4>6, <4>8, <4>10 DEF Fit, Hops
      <4>13. \A q \in Procs : ~Rewriting(q, s)
        BY <1>0, <2>5, AtWork DEF Rewriting, At
      <4>14. rows'[s].out
        BY <2>3, <2>5, <4>5
      <4> QED BY <2>2, <2>3, <4>11, <4>12, <4>13, <4>14, SoundMade
    <3>5. \A t \in Due' : Sound(t)'
      BY <3>3, <3>4
    <3> QED BY <1>2, <2>1, <3>5 DEF LegsFollow
  <2> QED BY <2>4, <2>5
<1>8. ASSUME NEW p \in Procs, ReadLegs(p) PROVE LegsFollow'
  <2>0. PICK s : s = Current(p).tx
    OBVIOUS
  <2> USE <2>0
  <2>1. /\ legs' = legs /\ rows' = rows /\ todo' = todo /\ pc[p] = "read" /\ pc'[p] = "delete"
        /\ mem'[p] = legs[s]
        /\ spoilt' = IF Spoils(p, s) THEN spoilt \union {s} ELSE spoilt
    BY <1>0, <1>8, KnownAtHand DEF ReadLegs
  <2>2. Alone(p) /\ Due' \subseteq Due
    BY <1>0, <1>8, Alones DEF Work
  <2>3. Current(p)' = Current(p) /\ s \in TradeTxs
    BY <1>0, <2>1, AtWork DEF Current
  <2>4. ASSUME NEW t \in Due', t # s PROVE Sound(t)'
    <3>1. ~Rewriting(p, t)'
      BY <2>3, <2>4 DEF Rewriting, At
    <3> QED BY <1>0, <1>1, <2>1, <2>2, <2>4, <3>1, SoundStays
  <2>5. ASSUME s \in Due' PROVE Sound(s)'
    <3>1. ~Spoils(p, s) /\ s \in Due
      BY <2>1, <2>2, <2>5 DEF Due
    <3>2. \A q \in Procs : q # p => ~Rewriting(q, s)
      BY <3>1 DEF Spoils, Rewriting, At
    <3>3. InHand(p, s)'
      BY <2>1, <2>3, <3>1 DEF InHand, Spoils, Hops
    <3>4. (Len(legs[s]) <= Len(Hops(s)) /\ Fit(legs[s], s, 0))'
      BY <1>1, <2>1, <3>1 DEF Sound, Fit, Hops
    <3>5. rows'[s] # NoRow => rows'[s].out
      BY <1>1, <2>1, <3>1 DEF Sound
    <3> QED BY <2>2, <2>3, <3>2, <3>3, <3>4, <3>5, SoundMade
  <2>6. \A t \in Due' : Sound(t)'
    BY <2>4, <2>5
  <2> QED BY <1>2, <2>1, <2>6 DEF LegsFollow
<1>9. ASSUME NEW p \in Procs, Delete(p) PROVE LegsFollow'
  <2>0. PICK s : s = Current(p).tx
    OBVIOUS
  <2> USE <2>0
  <2> DEFINE made == Enriched(Parsed(s, Current(p).src), mem[p])
  <2>1. /\ legs' = [legs EXCEPT ![s] = <<>>] /\ rows' = rows /\ todo' = todo
        /\ pc[p] = "delete" /\ pc'[p] = "summary" /\ mem'[p] = made
    BY <1>0, <1>9, KnownAtHand DEF Delete
  <2>2. Alone(p) /\ Due' \subseteq Due
    BY <1>0, <1>9, Alones DEF Work
  <2>3. /\ Current(p)' = Current(p) /\ s \in TradeTxs /\ rows[s] # NoRow
        /\ Current(p).src \in {"legs", "reasons", "events", "envelope"}
    BY <1>0, <2>1, AtWork DEF Current
  <2>4. legs'[s] = <<>> /\ \A t \in TradeTxs : t # s => legs'[t] = legs[t]
    BY <1>0, <2>1, <2>3, KnownAtHand
  <2>5. ASSUME NEW t \in Due', t # s PROVE Sound(t)'
    <3>1. ~Rewriting(p, t)'
      BY <2>3, <2>5 DEF Rewriting, At
    <3> QED BY <1>0, <1>1, <2>1, <2>2, <2>4, <2>5, <3>1, SoundStays
  <2>6. ASSUME s \in Due' PROVE Sound(s)'
    <3>1. s \in Due /\ Sound(s) /\ Rewriting(p, s) /\ InHand(p, s)
      BY <1>1, <2>1, <2>2, <2>6 DEF Sound, Rewriting, At
    <3>2. mem[p] = legs[s] /\ (Current(p).src # "events" => Len(legs[s]) = Len(Hops(s)))
      BY <2>1, <3>1 DEF InHand
    <3>3. legs[s] \in Seq(Leg)
      BY <1>0, <2>3, KnownAtHand
    <3>4. Len(legs[s]) <= Len(Hops(s)) /\ Fit(legs[s], s, 0)
      BY <3>1 DEF Sound
    <3>5. Fit(made, s, 0) /\ Len(made) = Len(Hops(s))
      <4>1. Fit(made, s, 0)
        BY <2>3, <3>2, <3>3, <3>4, EnrichedFits
      <4>2. Len(made) = Len(Hops(s))
        BY <2>3, <3>2, <3>3, EnrichedIs, ParsedIs
      <4> QED BY <4>1, <4>2
    <3>6. \A q \in Procs : q # p => ~Rewriting(q, s)
      BY <3>1 DEF Sound
    <3>7. Len(<<>>) = 0 /\ Fit(<<>>, s, 0) /\ Len(Hops(s)) \in Nat /\ 0 + Len(Hops(s)) = Len(Hops(s))
      BY <2>3, HopsAre DEF Fit
    <3> HIDE DEF made
    <3>8. InHand(p, s)'
      <4>1. Fit(mem[p], s, Len(legs[s]))'
        BY <2>1, <2>4, <3>5, <3>7 DEF Fit, Hops
      <4>2. (Len(legs[s]) + Len(mem[p]) = Len(Hops(s)))'
        BY <2>1, <2>4, <3>5, <3>7 DEF Hops
      <4> QED BY <2>1, <2>4, <4>1, <4>2 DEF InHand
    <3>9. (Len(legs[s]) <= Len(Hops(s)) /\ Fit(legs[s], s, 0))'
      BY <2>4, <3>7 DEF Fit, Hops
    <3>10. rows'[s] # NoRow => rows'[s].out
      BY <2>1, <3>1 DEF Sound
    <3> QED BY <2>2, <2>3, <3>6, <3>8, <3>9, <3>10, SoundMade
  <2>7. \A t \in Due' : Sound(t)'
    BY <2>5, <2>6
  <2> QED BY <1>2, <2>3, <2>4, <2>7 DEF LegsFollow
<1>10. ASSUME NEW p \in Procs, Summary(p) PROVE LegsFollow'
  <2>0. PICK s : s = Current(p).tx
    OBVIOUS
  <2> USE <2>0
  <2>1. /\ legs' = legs /\ todo' = todo /\ mem' = mem /\ pc[p] = "summary" /\ pc'[p] = "legs"
    BY <1>0, <1>10, KnownAtHand DEF Summary
  <2>2. Alone(p) /\ Due' \subseteq Due
    BY <1>0, <1>10, Alones DEF Work
  <2>3. Current(p)' = Current(p) /\ s \in TradeTxs /\ rows[s] # NoRow
    BY <1>0, <2>1, AtWork DEF Current
  <2>4. \A t \in TradeTxs : rows[t] # NoRow \/ rows'[t] = NoRow
    BY <1>0, <1>10, SummaryStays
  <2>5. ASSUME NEW t \in Due', t # s PROVE Sound(t)'
    <3>1. ~Rewriting(p, t)'
      BY <2>3, <2>5 DEF Rewriting, At
    <3> QED BY <1>0, <1>1, <2>1, <2>2, <2>4, <2>5, <3>1, SoundStays
  <2>6. ASSUME s \in Due' PROVE Sound(s)'
    <3>1. s \in Due /\ Sound(s) /\ Rewriting(p, s) /\ InHand(p, s)
      BY <1>1, <2>1, <2>2, <2>6 DEF Sound, Rewriting, At
    <3>2. /\ Len(legs[s]) + Len(mem[p]) = Len(Hops(s))
          /\ Fit(mem[p], s, Len(legs[s]))
      BY <2>1, <3>1 DEF InHand
    <3>3. InHand(p, s)'
      BY <2>1, <3>2 DEF InHand, Fit, Hops
    <3>4. \A q \in Procs : q # p => ~Rewriting(q, s)
      BY <3>1 DEF Sound
    <3>5. (Len(legs[s]) <= Len(Hops(s)) /\ Fit(legs[s], s, 0))'
      BY <2>1, <3>1 DEF Sound, Fit, Hops
    <3>6. rows'[s] # NoRow => rows'[s].out
      BY <1>0, <2>3, <3>1 DEF Sound, RowsStay, Remembers
    <3> QED BY <2>2, <2>3, <3>3, <3>4, <3>5, <3>6, SoundMade
  <2>7. \A t \in Due' : Sound(t)'
    BY <2>5, <2>6
  <2> QED BY <1>2, <2>1, <2>7 DEF LegsFollow
<1>11. ASSUME NEW p \in Procs, InsertLeg(p) PROVE LegsFollow'
  <2>0. PICK s : s = Current(p).tx
    OBVIOUS
  <2> USE <2>0
  <2>1. rows' = rows /\ pc[p] = "legs"
    BY <1>11 DEF InsertLeg
  <2>2. Alone(p) /\ Due' \subseteq Due
    BY <1>0, <1>11, Alones DEF Work
  <2>3. s \in TradeTxs /\ rows[s] # NoRow
    BY <1>0, <2>1, AtWork
  <2>4. CASE mem[p] = <<>>
    <3>1. legs' = legs /\ pc'[p] \in {"down", "row", "read"}
      BY <1>0, <1>11, <2>4, KnownAtHand DEF InsertLeg
    <3> QED BY <1>3, <1>4, <2>1, <2>2, <3>1
  <2>5. CASE mem[p] # <<>>
    <3>1. /\ legs' = [legs EXCEPT ![s] = Append(legs[s], Head(mem[p]))] /\ mem'[p] = Tail(mem[p])
          /\ pc' = pc /\ todo' = todo
      BY <1>0, <1>11, <2>5, KnownAtHand DEF InsertLeg
    <3>2. Current(p)' = Current(p)
      BY <3>1 DEF Current
    <3>3. legs'[s] = Append(legs[s], Head(mem[p])) /\ \A t \in TradeTxs : t # s => legs'[t] = legs[t]
      BY <1>0, <2>3, <3>1, KnownAtHand
    <3>4. ASSUME NEW t \in Due', t # s PROVE Sound(t)'
      <4>1. ~Rewriting(p, t)'
        BY <3>2, <3>4 DEF Rewriting, At
      <4> QED BY <1>0, <1>1, <2>1, <2>2, <3>3, <3>4, <4>1, SoundStays
    <3>5. ASSUME s \in Due' PROVE Sound(s)'
      <4>1. s \in Due /\ Sound(s) /\ Rewriting(p, s) /\ InHand(p, s)
        BY <1>1, <2>1, <2>2, <3>5 DEF Sound, Rewriting, At
      <4> DEFINE had == legs[s]
                 hand == mem[p]
                 has == Append(had, Head(hand))
      <4>2. had \in Seq(Leg) /\ hand \in Seq(Leg) /\ hand # <<>>
        BY <1>0, <2>3, <2>5, KnownAtHand
      <4>3. /\ Len(had) + Len(hand) = Len(Hops(s)) /\ Fit(hand, s, Len(had)) /\ Fit(had, s, 0)
        BY <2>1, <4>1 DEF InHand, Sound
      <4>4. legs'[s] = has /\ mem'[p] = Tail(hand) /\ pc'[p] = "legs"
        BY <2>1, <3>1, <3>3
      <4> HIDE DEF had, hand, has
      <4>5. /\ Len(had) \in Nat /\ DOMAIN had = 1 .. Len(had)
            /\ Len(hand) \in Nat \ {0} /\ DOMAIN hand = 1 .. Len(hand)
        BY <4>2, EmptySeq, LenProperties
      <4>6. /\ Head(hand) \in Leg /\ Head(hand) = hand[1] /\ Tail(hand) \in Seq(Leg)
            /\ Len(Tail(hand)) = Len(hand) - 1 /\ DOMAIN Tail(hand) = 1 .. Len(hand) - 1
            /\ \A i \in 1 .. Len(hand) - 1 : Tail(hand)[i] = hand[i + 1]
        BY <4>2, HeadTailProperties, LenProperties
      <4>7. /\ has \in Seq(Leg) /\ Len(has) = Len(had) + 1 /\ DOMAIN has = 1 .. Len(had) + 1
            /\ \A i \in 1 .. Len(had) : has[i] = had[i]
            /\ has[Len(had) + 1] = hand[1]
        BY <4>2, <4>6, AppendProperties, LenProperties DEF has
      <4>8. Fit(has, s, 0)
        <5> SUFFICES ASSUME NEW i \in 1 .. Len(had) + 1
                     PROVE  /\ has[i].at = Hops(s)[0 + i].at /\ has[i].amount = Hops(s)[0 + i].amount
                            /\ has[i].actual
          BY <4>7 DEF Fit
        <5>1. CASE i \in 1 .. Len(had)
          BY <4>3, <4>5, <4>7, <5>1 DEF Fit
        <5>2. CASE i = Len(had) + 1
          <6>1. 1 \in DOMAIN hand /\ 0 + i = Len(had) + 1
            BY <4>5, <5>2
          <6> QED BY <4>3, <4>7, <5>2, <6>1 DEF Fit
        <5> QED BY <4>5, <5>1, <5>2
      <4>9. Fit(Tail(hand), s, Len(has))
        <5> SUFFICES ASSUME NEW i \in 1 .. Len(hand) - 1
                     PROVE  /\ Tail(hand)[i].at = Hops(s)[Len(has) + i].at
                            /\ Tail(hand)[i].amount = Hops(s)[Len(has) + i].amount
                            /\ Tail(hand)[i].actual
          BY <4>6 DEF Fit
        <5>1. i + 1 \in DOMAIN hand /\ Len(has) + i = Len(had) + (i + 1)
          BY <4>5, <4>7
        <5> QED BY <4>3, <4>6, <5>1 DEF Fit
      <4>10. Len(has) + Len(Tail(hand)) = Len(Hops(s)) /\ Len(has) <= Len(Hops(s))
        BY <4>3, <4>5, <4>6, <4>7
      <4>11. InHand(p, s)'
        <5>1. Fit(mem[p], s, Len(legs[s]))'
          BY <4>4, <4>9 DEF Fit, Hops
        <5>2. (Len(legs[s]) + Len(mem[p]) = Len(Hops(s)))'
          BY <4>4, <4>10 DEF Hops
        <5> QED BY <4>4, <5>1, <5>2 DEF InHand
      <4>12. (Len(legs[s]) <= Len(Hops(s)) /\ Fit(legs[s], s, 0))'
        BY <4>4, <4>8, <4>10 DEF Fit, Hops
      <4>13. \A q \in Procs : q # p => ~Rewriting(q, s)
        BY <4>1 DEF Sound
      <4>14. rows'[s] # NoRow => rows'[s].out
        BY <2>1, <4>1 DEF Sound
      <4> QED BY <2>2, <2>3, <4>11, <4>12, <4>13, <4>14, SoundMade
    <3>6. \A t \in Due' : Sound(t)'
      BY <3>4, <3>5
    <3> QED BY <1>2, <2>3, <3>3, <3>6 DEF LegsFollow
  <2> QED BY <2>4, <2>5
<1>12. "repair" \in Procs
  BY DEF Procs
<1> QED BY <1>5, <1>6, <1>7, <1>8, <1>9, <1>10, <1>11, <1>12 DEF TradesNext, Work

\* The records of a process that has put one behind it.
LEMMA TailKeeps ==
  ASSUME KnownInv, NEW p \in Procs, todo[p] # <<>>, todo'[p] = Tail(todo[p])
  PROVE  /\ EventsFirst(p) => EventsFirst(p)'
         /\ \A t : ToCome(p, t) /\ t # Current(p).tx => ToCome(p, t)'
<1>1. \A i \in DOMAIN Tail(todo[p]) : i + 1 \in DOMAIN todo[p] /\ Tail(todo[p])[i] = todo[p][i + 1]
  BY KnownAtHand
<1>2. /\ DOMAIN todo[p] = 1 .. Len(todo[p]) /\ Len(todo[p]) \in Nat \ {0}
      /\ DOMAIN Tail(todo[p]) = 1 .. Len(todo[p]) - 1 /\ Current(p) = todo[p][1]
  <2>1. todo[p] \in Seq(Record) /\ Current(p) = todo[p][1] /\ Tail(todo[p]) \in Seq(Record)
    BY KnownAtHand
  <2>2. Len(todo[p]) \in Nat \ {0} /\ Len(Tail(todo[p])) = Len(todo[p]) - 1
    BY <2>1, EmptySeq, LenProperties, HeadTailProperties
  <2> QED BY <2>1, <2>2, LenProperties
<1>3. EventsFirst(p) => EventsFirst(p)'
  <2> SUFFICES ASSUME EventsFirst(p), NEW i \in DOMAIN Tail(todo[p]), NEW j \in DOMAIN Tail(todo[p]),
                      i < j, Tail(todo[p])[j].src = "events"
               PROVE  Tail(todo[p])[i].src = "events"
    BY DEF EventsFirst
  <2>1. i + 1 < j + 1 /\ i + 1 \in DOMAIN todo[p] /\ j + 1 \in DOMAIN todo[p]
    BY <1>1, <1>2
  <2> QED BY <1>1, <2>1 DEF EventsFirst
<1>4. ASSUME NEW t, ToCome(p, t), t # Current(p).tx PROVE ToCome(p, t)'
  <2>1. PICK i \in DOMAIN todo[p] : todo[p][i] = [tx |-> t, src |-> "events"]
    BY <1>4 DEF ToCome
  <2>2. i # 1
    BY <1>2, <1>4, <2>1
  <2>3. i - 1 \in DOMAIN Tail(todo[p]) /\ (i - 1) + 1 = i
    BY <1>2, <2>2
  <2>4. Tail(todo[p])[i - 1] = [tx |-> t, src |-> "events"]
    BY <1>1, <2>1, <2>3
  <2> QED BY <2>3, <2>4 DEF ToCome
<1> QED BY <1>3, <1>4

\* A step that completes no transaction and takes up none, nor leaves the records
\* of the indexers.
LEMMA LeftOutStays ==
  ASSUME TradesInv, RowsStay, NEW p \in Procs, Alone(p), Due' \subseteq Due, saved' = saved,
         p # "repair" => pc[p] # "down" /\ EventsFirst(p)',
         \A t \in Due' : \/ Complete(t)' \/ BeingInserted(t)'
                         \/ /\ ~Complete(t)
                            /\ ~Inserting(p, t)
                            /\ p # "repair" => (ToCome(p, t) => ToCome(p, t)')
  PROVE  NothingLeftOut'
<1>1. /\ \A q \in {"live", "backfill"} :
           /\ q \in Procs /\ q # "repair" /\ EventsFirst(q)
           /\ pc[q] # "down" => \A t \in Due : Complete(t) \/ BeingInserted(t) \/ ToCome(q, t)
      /\ saved => \A t \in Due : Complete(t) \/ BeingInserted(t)
      /\ Due \subseteq TradeTxs
  BY DEF TradesInv, NothingLeftOut, Procs, Due
<1>2. ASSUME NEW t \in Due', BeingInserted(t), ~Inserting(p, t) PROVE BeingInserted(t)'
  <2>1. PICK q \in Procs : Inserting(q, t) /\ q # p
    BY <1>2 DEF BeingInserted
  <2>2. Inserting(q, t)'
    BY <1>1, <2>1, OthersKeep
  <2> QED BY <2>2 DEF BeingInserted
<1>3. ASSUME NEW q \in {"live", "backfill"}
      PROVE  /\ EventsFirst(q)'
             /\ pc'[q] # "down" =>
                  \A t \in Due' : Complete(t)' \/ BeingInserted(t)' \/ ToCome(q, t)'
  <2>1. EventsFirst(q)' /\ (pc'[q] # "down" => pc[q] # "down")
    <3>1. CASE q = p
      BY <1>1, <3>1
    <3>2. CASE q # p
      <4>1. pc'[q] = pc[q] /\ todo'[q] = todo[q]
        BY <1>1, <3>2 DEF Alone
      <4> QED BY <1>1, <4>1 DEF EventsFirst
    <3> QED BY <3>1, <3>2
  <2>2. ASSUME NEW t \in Due', pc'[q] # "down"
        PROVE  Complete(t)' \/ BeingInserted(t)' \/ ToCome(q, t)'
    <3>1. CASE Complete(t)' \/ BeingInserted(t)'
      BY <3>1
    <3>2. CASE ~Complete(t) /\ ~Inserting(p, t) /\ (p # "repair" => (ToCome(p, t) => ToCome(p, t)'))
      <4>1. BeingInserted(t) \/ ToCome(q, t)
        BY <1>1, <2>1, <2>2, <3>2
      <4>2. CASE BeingInserted(t)
        BY <1>2, <3>2, <4>2
      <4>3. CASE ToCome(q, t) /\ q = p
        BY <1>1, <3>2, <4>3
      <4>4. CASE ToCome(q, t) /\ q # p
        BY <1>1, <4>4, OthersKeep
      <4> QED BY <4>1, <4>2, <4>3, <4>4
    <3> QED BY <3>1, <3>2
  <2> QED BY <2>1, <2>2
<1>4. ASSUME saved', NEW t \in Due' PROVE Complete(t)' \/ BeingInserted(t)'
  BY <1>1, <1>2, <1>4
<1> QED BY <1>3, <1>4 DEF NothingLeftOut

LEMMA LeftOutNext ==
  ASSUME TradesInv, TradesNext
  PROVE  NothingLeftOut'
<1> USE DEF Moves, NextRecord
<1>0. KnownInv /\ LegsFollow /\ NothingLeftOut /\ RowsStay /\ KnownInv'
  BY KnownNext DEF TradesInv
<1>1. /\ \A q \in {"live", "backfill"} :
           /\ q \in Procs /\ q # "repair" /\ EventsFirst(q)
           /\ pc[q] # "down" => \A t \in Due : Complete(t) \/ BeingInserted(t) \/ ToCome(q, t)
      /\ saved => \A t \in Due : Complete(t) \/ BeingInserted(t)
      /\ Due \subseteq TradeTxs /\ Due' \subseteq TradeTxs
      /\ \A q \in Procs : q # "repair" => q \in {"live", "backfill"}
      /\ "repair" \in Procs
  BY <1>0 DEF NothingLeftOut, Procs, Due
<1>2. \A t \in TradeTxs : legs'[t] = legs[t] /\ Complete(t) => Complete(t)'
  BY <1>0 DEF Complete, RowsStay, Hops
<1>3. ASSUME NEW p \in Procs, pc[p] \in {"down", "row", "read", "delete"}
      PROVE  \A t : ~Inserting(p, t)
  BY <1>3 DEF Inserting
\* Steps that touch neither legs nor records.
<1>4. ASSUME NEW p \in Procs, Alone(p), Due' \subseteq Due, saved' = saved, legs' = legs,
             todo' = todo, pc[p] \in {"row", "read", "summary"},
             pc[p] = "summary" => pc'[p] = "legs"
      PROVE  NothingLeftOut'
  <2>1. p # "repair" => EventsFirst(p)'
    BY <1>1, <1>4 DEF EventsFirst
  <2>2. \A t \in Due' : ToCome(p, t) => ToCome(p, t)'
    BY <1>4 DEF ToCome
  <2>3. \A t \in Due' : Inserting(p, t) => BeingInserted(t)'
    <3> SUFFICES ASSUME NEW t \in Due', Inserting(p, t) PROVE Inserting(p, t)'
      BY DEF BeingInserted
    <3>1. pc[p] = "summary" /\ pc'[p] = "legs" /\ Current(p)' = Current(p)
      BY <1>3, <1>4 DEF Current
    <3> QED BY <3>1 DEF Inserting, At
  <2>4. \A t \in Due' : Complete(t) => Complete(t)'
    BY <1>1, <1>2, <1>4
  <2>5. pc[p] # "down"
    BY <1>4
  <2> QED BY <1>0, <1>4, <2>1, <2>2, <2>3, <2>4, <2>5, LeftOutStays
<1>5. ASSUME NEW p \in Procs, Ingest(p) PROVE NothingLeftOut'
  <2>1. /\ legs' = legs /\ saved' = saved /\ pc[p] = "down" /\ pc'[p] = "row"
        /\ p \in {"live", "backfill"}
    BY <1>0, <1>5, KnownAtHand DEF Ingest, MayRun
  <2>2. Alone(p) /\ Due' \subseteq Due
    BY <1>0, <1>5, Alones DEF Work
  <2>3. PICK seen \in SUBSET {t \in TradeTxs : Ok(t)}, envelopes \in {{}, TradeTxs} :
          /\ todo' = [todo EXCEPT ![p] = Records("events", seen) \o Records("envelope", envelopes)]
          /\ spoilt' = spoilt \union {t \in TradeTxs \ seen : Ok(t)}
    BY <1>5 DEF Ingest
  <2> DEFINE a == Records("events", seen)
             b == Records("envelope", envelopes)
  <2>4. /\ a \in Seq(Record) /\ \A i \in DOMAIN a : a[i].src = "events"
        /\ b \in Seq(Record) /\ \A i \in DOMAIN b : b[i].src = "envelope"
        /\ \A t \in seen : \E i \in DOMAIN a : a[i] = [tx |-> t, src |-> "events"]
    BY RecordsAre
  <2>5. todo'[p] = a \o b
    BY <1>0, <2>3, KnownAtHand
  <2> HIDE DEF a, b
  <2>6. /\ DOMAIN a = 1 .. Len(a) /\ Len(a) \in Nat /\ DOMAIN b = 1 .. Len(b) /\ Len(b) \in Nat
        /\ DOMAIN (a \o b) = 1 .. Len(a) + Len(b)
        /\ \A i \in 1 .. Len(a) + Len(b) : (a \o b)[i] = IF i <= Len(a) THEN a[i] ELSE b[i - Len(a)]
    <3>1. /\ a \o b \in Seq(Record) /\ Len(a \o b) = Len(a) + Len(b)
          /\ \A i \in 1 .. Len(a) + Len(b) : (a \o b)[i] = IF i <= Len(a) THEN a[i] ELSE b[i - Len(a)]
      BY <2>4, ConcatProperties
    <3> QED BY <2>4, <3>1, LenProperties
  <2>7. EventsFirst(p)'
    <3> SUFFICES ASSUME NEW i \in DOMAIN (a \o b), NEW j \in DOMAIN (a \o b), i < j,
                        (a \o b)[j].src = "events"
                 PROVE  (a \o b)[i].src = "events"
      BY <2>5 DEF EventsFirst
    <3>1. ~(j <= Len(a)) => j - Len(a) \in DOMAIN b /\ (a \o b)[j] = b[j - Len(a)]
      BY <2>6
    <3>2. j <= Len(a)
      BY <2>4, <3>1
    <3>3. i \in DOMAIN a /\ (a \o b)[i] = a[i]
      BY <2>6, <3>2
    <3> QED BY <2>4, <3>3
  <2>8. \A t \in Due' : ToCome(p, t)'
    <3> SUFFICES ASSUME NEW t \in Due' PROVE \E i \in DOMAIN (a \o b) : (a \o b)[i] = [tx |-> t, src |-> "events"]
      BY <2>5 DEF ToCome
    <3>1. t \in seen
      BY <2>3 DEF Due, Ok
    <3>2. PICK i \in DOMAIN a : a[i] = [tx |-> t, src |-> "events"]
      BY <2>4, <3>1
    <3>3. i \in DOMAIN (a \o b) /\ (a \o b)[i] = a[i]
      BY <2>6
    <3> QED BY <3>2, <3>3
  <2>9. ASSUME NEW t \in Due' PROVE /\ Complete(t) => Complete(t)'
                                    /\ BeingInserted(t) => BeingInserted(t)'
    <3>1. BeingInserted(t) => BeingInserted(t)'
      <4> SUFFICES ASSUME BeingInserted(t) PROVE BeingInserted(t)'
        OBVIOUS
      <4>1. PICK q \in Procs : Inserting(q, t)
        BY DEF BeingInserted
      <4>2. q # p
        BY <1>3, <2>1, <4>1
      <4>3. Inserting(q, t)'
        BY <1>1, <2>2, <4>1, <4>2, OthersKeep
      <4> QED BY <4>3 DEF BeingInserted
    <3> QED BY <1>1, <1>2, <2>1, <3>1
  <2>10. ASSUME NEW q \in {"live", "backfill"}
         PROVE  /\ EventsFirst(q)'
                /\ pc'[q] # "down" =>
                     \A t \in Due' : Complete(t)' \/ BeingInserted(t)' \/ ToCome(q, t)'
    <3>1. CASE q = p
      BY <2>7, <2>8, <3>1
    <3>2. CASE q # p
      <4>1. pc'[q] = pc[q] /\ todo'[q] = todo[q]
        BY <1>1, <2>2, <3>2 DEF Alone
      <4>2. EventsFirst(q)' /\ \A t : ToCome(q, t) => ToCome(q, t)'
        BY <1>1, <4>1 DEF EventsFirst, ToCome
      <4> QED BY <1>1, <2>2, <2>9, <4>1, <4>2
    <3> QED BY <3>1, <3>2
  <2> QED BY <1>1, <2>1, <2>2, <2>9, <2>10 DEF NothingLeftOut
<1>6. ASSUME Repair PROVE NothingLeftOut'
  <2>1. legs' = legs /\ saved' = saved /\ pc["repair"] = "down"
    BY <1>6 DEF Repair, MayRun
  <2>2. Alone("repair") /\ Due' \subseteq Due
    BY <1>0, <1>1, <1>6, Alones
  <2>3. \A t \in Due' : (Complete(t) => Complete(t)') /\ ~Inserting("repair", t)
    BY <1>1, <1>2, <1>3, <2>1
  <2> QED BY <1>0, <1>1, <2>1, <2>2, <2>3, LeftOutStays
<1>7. ASSUME NEW p \in Procs, Done(p) PROVE NothingLeftOut'
  <2>1. /\ legs' = legs /\ rows' = rows /\ todo' = todo /\ pc[p] = "row" /\ pc'[p] = "down"
        /\ todo[p] = <<>> /\ saved' = (saved \/ p # "repair")
    BY <1>0, <1>7, KnownAtHand DEF Done
  <2>2. Alone(p) /\ Due' \subseteq Due
    BY <1>0, <1>7, Alones DEF Work
  <2>3. ASSUME NEW t \in Due' PROVE /\ Complete(t) => Complete(t)'
                                    /\ BeingInserted(t) => BeingInserted(t)'
    <3>1. BeingInserted(t) => BeingInserted(t)'
      <4> SUFFICES ASSUME BeingInserted(t) PROVE BeingInserted(t)'
        OBVIOUS
      <4>1. PICK q \in Procs : Inserting(q, t)
        BY DEF BeingInserted
      <4>2. q # p
        BY <1>3, <2>1, <4>1
      <4>3. Inserting(q, t)'
        BY <1>1, <2>2, <4>1, <4>2, OthersKeep
      <4> QED BY <4>3 DEF BeingInserted
    <3> QED BY <1>1, <1>2, <2>1, <3>1
  <2>4. \A t : ~ToCome(p, t)
    BY <2>1 DEF ToCome
  <2>5. saved' => \A t \in Due' : Complete(t)' \/ BeingInserted(t)'
    BY <1>1, <2>1, <2>2, <2>3, <2>4
  <2>6. ASSUME NEW q \in {"live", "backfill"}
        PROVE  /\ EventsFirst(q)'
               /\ pc'[q] # "down" =>
                    \A t \in Due' : Complete(t)' \/ BeingInserted(t)' \/ ToCome(q, t)'
    <3>1. EventsFirst(q)' /\ \A t : ToCome(q, t) => ToCome(q, t)'
      BY <1>1, <2>1 DEF EventsFirst, ToCome
    <3>2. pc'[q] # "down" => pc[q] # "down"
      BY <1>1, <2>1, <2>2 DEF Alone
    <3> QED BY <1>1, <2>2, <2>3, <3>1, <3>2
  <2> QED BY <2>5, <2>6 DEF NothingLeftOut
<1>8. ASSUME NEW p \in Procs, Crash(p) PROVE NothingLeftOut'
  <2>1. /\ legs' = legs /\ rows' = rows /\ pc[p] # "down" /\ pc'[p] = "down"
        /\ todo'[p] = <<>> /\ saved' = saved
        /\ spoilt' = IF pc[p] \in {"summary", "legs"} /\ (p # "live" \/ saved \/ pc["backfill"] # "down")
                       THEN spoilt \union {Current(p).tx} ELSE spoilt
    BY <1>0, <1>8, KnownAtHand DEF Crash
  <2>2. Alone(p) /\ Due' \subseteq Due
    BY <1>0, <1>8, Alones DEF Work
  <2>3. ASSUME NEW t \in Due', Inserting(p, t)
        PROVE  p = "live" /\ ~saved /\ pc["backfill"] = "down"
    <3>1. pc[p] \in {"summary", "legs"} /\ Current(p).tx = t /\ t \notin spoilt'
      BY <2>3 DEF Inserting, At, Due
    <3> QED BY <2>1, <3>1
  <2>4. ASSUME NEW t \in Due', BeingInserted(t), ~Inserting(p, t) PROVE BeingInserted(t)'
    <3>1. PICK q \in Procs : Inserting(q, t) /\ q # p
      BY <2>4 DEF BeingInserted
    <3>2. Inserting(q, t)'
      BY <1>1, <2>2, <3>1, OthersKeep
    <3> QED BY <3>2 DEF BeingInserted
  <2>5. saved' => \A t \in Due' : Complete(t)' \/ BeingInserted(t)'
    BY <1>1, <1>2, <2>1, <2>2, <2>3, <2>4
  <2>6. ASSUME NEW q \in {"live", "backfill"}
        PROVE  /\ EventsFirst(q)'
               /\ pc'[q] # "down" =>
                    \A t \in Due' : Complete(t)' \/ BeingInserted(t)' \/ ToCome(q, t)'
    <3>1. CASE q = p
      <4>1. EventsFirst(q)'
        BY <2>1, <3>1 DEF EventsFirst
      <4> QED BY <2>1, <3>1, <4>1
    <3>2. CASE q # p
      <4>1. pc'[q] = pc[q] /\ todo'[q] = todo[q]
        BY <1>1, <2>2, <3>2 DEF Alone
      <4>2. EventsFirst(q)' /\ \A t : ToCome(q, t) => ToCome(q, t)'
        BY <1>1, <4>1 DEF EventsFirst, ToCome
      <4>3. pc'[q] # "down" => \A t \in Due' : ~Inserting(p, t)
        BY <2>3, <3>2, <4>1
      <4> QED BY <1>1, <1>2, <2>1, <2>2, <2>4, <4>1, <4>2, <4>3
    <3> QED BY <3>1, <3>2
  <2> QED BY <2>5, <2>6 DEF NothingLeftOut
<1>9. ASSUME NEW p \in Procs, InsertRow(p) \/ ReadLegs(p) PROVE NothingLeftOut'
  <2>1. legs' = legs /\ todo' = todo /\ saved' = saved /\ pc[p] \in {"row", "read"}
    BY <1>9 DEF InsertRow, ReadLegs
  <2>2. Alone(p) /\ Due' \subseteq Due
    BY <1>0, <1>9, Alones DEF Work
  <2> QED BY <1>4, <2>1, <2>2
<1>10. ASSUME NEW p \in Procs, Reread(p) PROVE NothingLeftOut'
  <2>1. p = "repair"
    BY <1>0, <1>10, RereadStays
  <2>2. legs' = legs /\ saved' = saved /\ pc[p] = "row"
    BY <1>10 DEF Reread
  <2>3. Alone(p) /\ Due' \subseteq Due
    BY <1>0, <1>10, Alones DEF Work
  <2>4. \A t \in Due' : (Complete(t) => Complete(t)') /\ ~Inserting(p, t)
    BY <1>1, <1>2, <1>3, <2>2
  <2> QED BY <1>0, <2>1, <2>2, <2>3, <2>4, LeftOutStays
<1>11. ASSUME NEW p \in Procs, Delete(p) PROVE NothingLeftOut'
  <2>0. PICK s : s = Current(p).tx
    OBVIOUS
  <2>1. /\ legs' = [legs EXCEPT ![s] = <<>>] /\ todo' = todo /\ saved' = saved
        /\ pc[p] = "delete" /\ pc'[p] = "summary"
    BY <1>0, <1>11, <2>0, KnownAtHand DEF Delete
  <2>2. Alone(p) /\ Due' \subseteq Due
    BY <1>0, <1>11, Alones DEF Work
  <2>3. Current(p)' = Current(p)
    BY <2>1 DEF Current
  <2>4. BeingInserted(s)'
    BY <2>0, <2>1, <2>3 DEF BeingInserted, Inserting, At
  <2>5. ASSUME NEW t \in Due', t # s
        PROVE (Complete(t) => Complete(t)') /\ ~Inserting(p, t)
    <3>1. legs'[t] = legs[t]
      BY <1>0, <1>1, <2>1, <2>5, KnownAtHand
    <3> QED BY <1>1, <1>2, <1>3, <2>1, <3>1
  <2>6. p # "repair" => EventsFirst(p)'
    BY <1>1, <2>1 DEF EventsFirst
  <2>7. \A t : ToCome(p, t) => ToCome(p, t)'
    BY <2>1 DEF ToCome
  <2>8. pc[p] # "down"
    BY <2>1
  <2>9. \A t \in Due' : \/ Complete(t)' \/ BeingInserted(t)'
                        \/ ~Complete(t) /\ ~Inserting(p, t) /\ (ToCome(p, t) => ToCome(p, t)')
    BY <2>4, <2>5, <2>7
  <2> QED BY <1>0, <2>1, <2>2, <2>6, <2>8, <2>9, LeftOutStays
<1>12. ASSUME NEW p \in Procs, Summary(p) PROVE NothingLeftOut'
  <2>1. /\ legs' = legs /\ todo' = todo /\ saved' = saved /\ pc[p] = "summary" /\ pc'[p] = "legs"
    BY <1>0, <1>12, KnownAtHand DEF Summary
  <2>2. Alone(p) /\ Due' \subseteq Due
    BY <1>0, <1>12, Alones DEF Work
  <2> QED BY <1>4, <2>1, <2>2
<1>13. ASSUME NEW p \in Procs, InsertLeg(p) PROVE NothingLeftOut'
  <2>0. PICK s : s = Current(p).tx
    OBVIOUS
  <2>1. saved' = saved /\ pc[p] = "legs"
    BY <1>13 DEF InsertLeg
  <2>2. Alone(p) /\ Due' \subseteq Due
    BY <1>0, <1>13, Alones DEF Work
  <2>3. s \in TradeTxs /\ rows[s] # NoRow /\ todo[p] # <<>>
    BY <1>0, <2>0, <2>1, AtWork
  <2>4. CASE mem[p] # <<>>
    <3>1. /\ legs' = [legs EXCEPT ![s] = Append(legs[s], Head(mem[p]))]
          /\ pc' = pc /\ todo' = todo
      BY <1>13, <2>0, <2>4 DEF InsertLeg
    <3>2. Current(p)' = Current(p)
      BY <3>1 DEF Current
    <3>3. BeingInserted(s)'
      BY <2>0, <2>1, <3>1, <3>2 DEF BeingInserted, Inserting, At
    <3>4. ASSUME NEW t \in Due', t # s
          PROVE (Complete(t) => Complete(t)') /\ ~Inserting(p, t)
      <4>1. legs'[t] = legs[t]
        BY <1>0, <1>1, <3>1, <3>4, KnownAtHand
      <4>2. ~Inserting(p, t)
        BY <2>0, <3>4 DEF Inserting, At
      <4> QED BY <1>1, <1>2, <4>1, <4>2
    <3>5. p # "repair" => EventsFirst(p)'
      BY <1>1, <3>1 DEF EventsFirst
    <3>6. \A t : ToCome(p, t) => ToCome(p, t)'
      BY <3>1 DEF ToCome
    <3>7. pc[p] # "down"
      BY <2>1
    <3>8. \A t \in Due' : \/ Complete(t)' \/ BeingInserted(t)'
                          \/ ~Complete(t) /\ ~Inserting(p, t) /\ (ToCome(p, t) => ToCome(p, t)')
      BY <3>3, <3>4, <3>6
    <3> QED BY <1>0, <2>1, <2>2, <3>5, <3>7, <3>8, LeftOutStays
  <2>5. CASE mem[p] = <<>>
    <3>1. legs' = legs /\ todo'[p] = Tail(todo[p])
      BY <1>0, <1>13, <2>5, KnownAtHand DEF InsertLeg
    <3>2. /\ EventsFirst(p) => EventsFirst(p)'
          /\ \A t : ToCome(p, t) /\ t # s => ToCome(p, t)'
      BY <1>0, <2>0, <2>3, <3>1, TailKeeps
    <3>3. s \in Due => Complete(s)
      <4>1. SUFFICES ASSUME s \in Due PROVE Complete(s)
        OBVIOUS
      <4>2. InHand(p, s)
        BY <1>0, <2>0, <2>1, <4>1 DEF LegsFollow, Sound, At
      <4>3. Len(legs[s]) + Len(mem[p]) = Len(Hops(s)) /\ Len(mem[p]) = 0
        BY <2>1, <2>5, <4>2 DEF InHand
      <4>4. Len(legs[s]) \in Nat
        BY <1>0, <2>3, KnownAtHand, LenProperties
      <4> QED BY <2>3, <4>3, <4>4 DEF Complete
    <3>4. ASSUME NEW t \in Due', t # s PROVE ~Inserting(p, t)
      BY <2>0, <3>4 DEF Inserting, At
    <3>5. \A t \in Due' : Complete(t) => Complete(t)'
      BY <1>1, <1>2, <3>1
    <3>6. p # "repair" => EventsFirst(p)'
      BY <1>1, <3>2
    <3>7. pc[p] # "down"
      BY <2>1
    <3>8. \A t \in Due' : \/ Complete(t)' \/ BeingInserted(t)'
                          \/ ~Complete(t) /\ ~Inserting(p, t) /\ (ToCome(p, t) => ToCome(p, t)')
      BY <2>2, <3>2, <3>3, <3>4, <3>5
    <3> QED BY <1>0, <2>1, <2>2, <3>6, <3>7, <3>8, LeftOutStays
  <2> QED BY <2>4, <2>5
<1> QED BY <1>5, <1>6, <1>7, <1>8, <1>9, <1>10, <1>11, <1>12, <1>13 DEF TradesNext, Work

LEMMA TradesInvHolds == TradesSpec => []TradesInv
<1>1. TradesInit => TradesInv
  <2> SUFFICES ASSUME TradesInit PROVE TradesInv
    OBVIOUS
  <2>1. KnownInv
    BY TradesStart
  <2>2. /\ \A t \in TradeTxs : rows[t] = NoRow /\ legs[t] = <<>>
        /\ \A p \in Procs : pc[p] = "down" /\ todo[p] = <<>>
        /\ saved = FALSE
    BY DEF TradesInit
  <2>3. ASSUME NEW t \in Due PROVE Sound(t)
    <3>1. t \in TradeTxs /\ Len(Hops(t)) \in Nat /\ Len(<<>>) = 0 /\ Fit(<<>>, t, 0)
      BY HopsAre DEF Due, Fit
    <3>2. \A p \in Procs : ~At(p, t)
      BY <2>2 DEF At
    <3> QED BY <2>2, <3>1, <3>2 DEF Sound, Rewriting
  <2>4. LegsFollow
    BY <2>2, <2>3 DEF LegsFollow
  <2>5. \A p \in {"live", "backfill"} : p \in Procs
    BY DEF Procs
  <2>6. NothingLeftOut
    BY <2>2, <2>5 DEF NothingLeftOut, EventsFirst
  <2> QED BY <2>1, <2>4, <2>6 DEF TradesInv
<1>2. TradesInv /\ [TradesNext]_tradevars => TradesInv'
  <2> SUFFICES ASSUME TradesInv, [TradesNext]_tradevars PROVE TradesInv'
    OBVIOUS
  <2>1. KnownInv'
    BY KnownNext DEF TradesInv
  <2>2. CASE TradesNext
    BY <2>1, <2>2, FollowNext, LeftOutNext DEF TradesInv
  <2>3. CASE UNCHANGED tradevars
    <3>0. ASSUME NEW t PROVE Sound(t)' <=> Sound(t)
      <4>1. \A p : (At(p, t)' <=> At(p, t)) /\ (Rewriting(p, t)' <=> Rewriting(p, t))
        BY <2>3 DEF tradevars, At, Rewriting, Current
      <4>2. \A p : InHand(p, t)' <=> InHand(p, t)
        BY <2>3 DEF tradevars, InHand, Fit, Hops, Current
      <4>3. (Len(legs[t]) <= Len(Hops(t)) /\ Fit(legs[t], t, 0))'
              <=> (Len(legs[t]) <= Len(Hops(t)) /\ Fit(legs[t], t, 0))
        BY <2>3 DEF tradevars, Fit, Hops
      <4> QED BY <2>3, <4>1, <4>2, <4>3 DEF tradevars, Sound
    <3>1. LegsFollow'
      BY <2>3, <3>0 DEF TradesInv, LegsFollow, tradevars, Due, Ok
    <3>2. NothingLeftOut'
      BY <2>3 DEF TradesInv, NothingLeftOut, tradevars, EventsFirst, Complete, BeingInserted, ToCome,
                  Inserting, At, Due, Ok, Hops, Current
    <3> QED BY <2>1, <3>1, <3>2 DEF TradesInv
  <2> QED BY <2>2, <2>3
<1> QED BY <1>1, <1>2, PTL DEF TradesSpec

(***************************************************************************)
(* Once the range is done the tables hold every successful transaction     *)
(* that was not spoilt, with its output and exactly the steps it took; and *)
(* when none was, the export counts and adds up what the chain routed.     *)
(***************************************************************************)
THEOREM TablesAreExact == TradesSpec => []TradesExact
<1>1. TradesInv => TradesExact
  <2> SUFFICES ASSUME TradesInv, saved, ~Working
               PROVE  /\ \A t \in TradeTxs \ spoilt :
                           Ok(t) => rows[t] # NoRow /\ rows[t].out /\ Stored(t) = Told(t)
                      /\ spoilt = {} => Exported = Routed
    BY DEF TradesExact
  <2>0. KnownInv /\ LegsFollow /\ NothingLeftOut
    BY DEF TradesInv
  <2>1. ASSUME NEW t \in Due
        PROVE  /\ rows[t] # NoRow /\ rows[t].out /\ Len(legs[t]) = Len(Hops(t))
               /\ DOMAIN legs[t] = DOMAIN Hops(t)
               /\ \A i \in DOMAIN Hops(t) : /\ legs[t][i].at = Hops(t)[i].at
                                            /\ legs[t][i].amount = Hops(t)[i].amount
                                            /\ legs[t][i].actual
                                            /\ legs[t][i].amount # 0
    <3>1. ~BeingInserted(t)
      BY DEF Working, BeingInserted, Inserting, At
    <3>2. Complete(t) /\ Sound(t) /\ t \in TradeTxs
      BY <2>0, <3>1 DEF NothingLeftOut, LegsFollow, Due
    <3>3. rows[t] # NoRow /\ rows[t].out /\ Len(legs[t]) = Len(Hops(t))
      BY <3>2 DEF Complete, Sound
    <3>4. /\ DOMAIN legs[t] = 1 .. Len(Hops(t)) /\ DOMAIN Hops(t) = 1 .. Len(Hops(t))
          /\ Len(Hops(t)) \in Nat
      BY <2>0, <3>2, <3>3, HopsAre, KnownAtHand, LenProperties
    <3>5. ASSUME NEW i \in DOMAIN Hops(t)
          PROVE /\ legs[t][i].at = Hops(t)[i].at /\ legs[t][i].amount = Hops(t)[i].amount
                /\ legs[t][i].actual /\ legs[t][i].amount # 0
      <4>1. 0 + i = i /\ i \in DOMAIN legs[t]
        BY <3>4
      <4>2. /\ legs[t][i].at = Hops(t)[0 + i].at /\ legs[t][i].amount = Hops(t)[0 + i].amount
            /\ legs[t][i].actual
        BY <3>2, <4>1 DEF Sound, Fit
      <4> QED BY <3>2, <4>1, <4>2, HopsAre
    <3> QED BY <3>3, <3>4, <3>5
  <2>2. ASSUME NEW t \in TradeTxs \ spoilt, Ok(t)
        PROVE  rows[t] # NoRow /\ rows[t].out /\ Stored(t) = Told(t)
    <3>1. t \in Due
      BY <2>2 DEF Due
    <3>2. Stored(t) = Told(t)
      BY <2>1, <3>1 DEF Stored, Told
    <3> QED BY <2>1, <3>1, <3>2
  <2>3. ASSUME spoilt = {} PROVE Exported = Routed
    <3> DEFINE done == {t \in TradeTxs : rows[t] # NoRow /\ rows[t].status = "SUCCESS"}
               fine == {t \in TradeTxs : Ok(t)}
               real(t) == {i \in DOMAIN legs[t] : legs[t][i].actual /\ legs[t][i].amount # 0}
               counted == UNION {{<<t, i>> : i \in real(t)} : t \in done}
               steps == UNION {{<<t, i>> : i \in DOMAIN Hops(t)} : t \in fine}
    <3>1. Due = fine
      BY <2>3 DEF Due
    <3>2. done = fine
      <4>1. \A t \in TradeTxs : rows[t] # NoRow => rows[t].status = Chain(t)
        BY <2>0, KnownAtHand DEF RowsKnown
      <4>2. \A t \in TradeTxs : Chain(t) = "SUCCESS" <=> Ok(t)
        BY DEF Chain
      <4> QED BY <2>1, <3>1, <4>1, <4>2
    <3>3. \A t \in fine : real(t) = DOMAIN Hops(t)
      BY <2>1, <3>1
    <3>4. counted = steps
      <4>1. \A c : c \in counted <=> \E t \in done : \E i \in real(t) : c = <<t, i>>
        OBVIOUS
      <4>2. \A c : c \in steps <=> \E t \in fine : \E i \in DOMAIN Hops(t) : c = <<t, i>>
        OBVIOUS
      <4> HIDE DEF counted, steps, done, fine, real
      <4>3. \A c : c \in counted <=> c \in steps
        BY <3>2, <3>3, <4>1, <4>2
      <4> QED BY <4>3
    <3>5. ASSUME NEW c \in steps PROVE legs[c[1]][c[2]].amount = Hops(c[1])[c[2]].amount
      <4>1. PICK t \in fine : \E i \in DOMAIN Hops(t) : c = <<t, i>>
        OBVIOUS
      <4>2. PICK i \in DOMAIN Hops(t) : c = <<t, i>>
        BY <4>1
      <4> QED BY <2>1, <3>1, <4>2
    <3>6. [c \in counted |-> legs[c[1]][c[2]].amount] = [c \in steps |-> Hops(c[1])[c[2]].amount]
      <4> HIDE DEF counted, steps
      <4> QED BY <3>4, <3>5
    <3>7. Exported = [swaps |-> Cardinality(done), legs |-> Cardinality(counted),
                      volume |-> Volume([c \in counted |-> legs[c[1]][c[2]].amount])]
      BY DEF Exported, Places
    <3>8. Routed = [swaps |-> Cardinality(fine), legs |-> Cardinality(steps),
                    volume |-> Volume([c \in steps |-> Hops(c[1])[c[2]].amount])]
      BY DEF Routed, Places
    <3> HIDE DEF done, fine, counted, steps
    <3> QED BY <3>2, <3>4, <3>6, <3>7, <3>8
  <2> QED BY <2>2, <2>3
<1> QED BY <1>1, TradesInvHolds, PTL

-----------------------------------------------------------------------------
(***************************************************************************)
(* The lists of swaps                                                      *)
(***************************************************************************)

\* Any two rows have an order, and a row has its place among the rows of a set.
LEMMA BelowOrders ==
  ASSUME NEW s \in Swaps, NEW t \in Swaps
  PROVE  /\ ~Below(s, s)
         /\ Below(s, t) => ~Below(t, s)
         /\ s # t => Below(s, t) \/ Below(t, s)
         /\ \A u \in Swaps : Below(s, t) /\ Below(t, u) => Below(s, u)
         /\ \A u \in Swaps : Below(s, t) /\ ~Below(u, t) => ~Below(u, s)
<1>1. \A u \in Swaps : u.at \in Nat /\ u.hash \in Nat
  BY HistoryAssumption DEF HistoryAssumption
<1>2. s.at = t.at /\ s.hash = t.hash => s = t
  BY HistoryAssumption DEF HistoryAssumption
<1> QED BY <1>1, <1>2 DEF Below

LEMMA PlacesAre ==
  ASSUME NEW some \in SUBSET Swaps
  PROVE  /\ Cardinality(some) \in Nat
         /\ \A i \in 1 .. Cardinality(some) :
              Newest(some, i) \in some /\ Place(some, Newest(some, i)) = i
         /\ \A s \in some : Place(some, s) \in 1 .. Cardinality(some)
         /\ \A s \in some : Newest(some, Place(some, s)) = s
         /\ \A s, t \in some : Below(s, t) <=> Place(some, t) < Place(some, s)
<1> DEFINE above(s) == {t \in some : ~Below(t, s)}
           n == Cardinality(some)
           f == [s \in some |-> Place(some, s)]
<1>1. IsFiniteSet(some) /\ n \in Nat
  BY HistoryAssumption, FS_Subset, FS_CardinalityType DEF HistoryAssumption
<1>2. IsFiniteSet(1 .. n) /\ Cardinality(1 .. n) = n
  BY <1>1, FS_Interval
<1>3. ASSUME NEW s \in some
      PROVE  IsFiniteSet(above(s)) /\ Place(some, s) \in 1 .. n /\ Place(some, s) \in Nat
  <2>1. above(s) \in SUBSET some /\ above(s) # {}
    BY BelowOrders
  <2>2. IsFiniteSet(above(s)) /\ Cardinality(above(s)) <= n /\ Cardinality(above(s)) \in Nat
    BY <1>1, <2>1, FS_Subset, FS_CardinalityType
  <2>3. Cardinality(above(s)) # 0
    BY <2>1, <2>2, FS_EmptySet
  <2> QED BY <1>1, <2>2, <2>3 DEF Place
<1>4. ASSUME NEW s \in some, NEW t \in some, Below(s, t)
      PROVE  Place(some, t) < Place(some, s)
  <2>1. above(t) \in SUBSET above(s)
    BY <1>4, BelowOrders
  <2>2. s \in above(s) /\ s \notin above(t)
    BY <1>4, BelowOrders
  <2>3. /\ Cardinality(above(t)) <= Cardinality(above(s))
        /\ Cardinality(above(t)) = Cardinality(above(s)) => above(t) = above(s)
    BY <1>3, <2>1, FS_Subset
  <2>4. Place(some, t) = Cardinality(above(t)) /\ Place(some, s) = Cardinality(above(s))
    BY DEF Place
  <2> HIDE DEF above
  <2>5. Place(some, t) # Place(some, s)
    BY <2>2, <2>3, <2>4
  <2>6. Place(some, t) \in Nat /\ Place(some, s) \in Nat
    BY <1>3
  <2> QED BY <2>3, <2>4, <2>5, <2>6
<1>5. ASSUME NEW s \in some, NEW t \in some, s # t
      PROVE  Place(some, s) # Place(some, t)
  <2>1. Below(s, t) \/ Below(t, s)
    BY <1>5, BelowOrders
  <2>2. Place(some, s) \in Nat /\ Place(some, t) \in Nat
    BY <1>3
  <2> QED BY <1>4, <2>1, <2>2
<1>6. f \in Injection(some, 1 .. n)
  <2>1. f \in [some -> 1 .. n]
    BY <1>3
  <2>2. \A s, t \in some : s # t => f[s] # f[t]
    BY <1>5
  <2> HIDE DEF f
  <2> QED BY <2>1, <2>2 DEF Injection, IsInjective
<1>7. f \in Surjection(some, 1 .. n)
  <2> HIDE DEF f, n
  <2> QED BY <1>1, <1>2, <1>6, FS_Injection DEF n
<1>8. \A i \in 1 .. n : \E s \in some : f[s] = i
  <2> HIDE DEF f, n
  <2> QED BY <1>7 DEF Surjection
<1>9. \A i \in 1 .. n : \E s \in some : Place(some, s) = i
  BY <1>8
<1>10. \A i \in 1 .. n : Newest(some, i) \in some /\ Place(some, Newest(some, i)) = i
  <2> SUFFICES ASSUME NEW i \in 1 .. n
               PROVE Newest(some, i) \in some /\ Place(some, Newest(some, i)) = i
    OBVIOUS
  <2> QED BY <1>9 DEF Newest
<1>11. ASSUME NEW s \in some PROVE Newest(some, Place(some, s)) = s
  <2>1. Place(some, s) \in 1 .. n
    BY <1>3
  <2>2. /\ Newest(some, Place(some, s)) \in some
        /\ Place(some, Newest(some, Place(some, s))) = Place(some, s)
    BY <1>10, <2>1
  <2> QED BY <1>5, <2>2
<1>12. ASSUME NEW s \in some, NEW t \in some, Place(some, t) < Place(some, s)
       PROVE  Below(s, t)
  <2>1. Place(some, s) \in Nat /\ Place(some, t) \in Nat
    BY <1>3
  <2>2. s # t /\ ~Below(t, s)
    BY <1>4, <1>12, <2>1
  <2> QED BY <2>2, BelowOrders
<1> QED BY <1>1, <1>3, <1>4, <1>10, <1>11, <1>12

\* The newest rows there are below the cursor, newest first; a page without a
\* cursor of its own has all of them.
IsPage(page, next, some, user, before) ==
  /\ page \in Seq(Swaps) /\ next \in Seq(Swaps)
  /\ \A i, j \in DOMAIN page : i < j => Below(page[j], page[i])
  /\ \A i \in DOMAIN page : page[i] \in Listed(some, user) /\ Older(page[i], before)
  /\ next = <<>> \/ (page # <<>> /\ next = <<page[Len(page)]>>)
  /\ \A s \in Listed(some, user) :
       Older(s, before) /\ (next = <<>> \/ ~Below(s, page[Len(page)]))
         => \E i \in DOMAIN page : page[i] = s

LEMMA PageIs ==
  ASSUME NEW some \in SUBSET Swaps, NEW user, NEW before
  PROVE  /\ Page(some, user, before) \in [rows : Seq(Swaps), next : Seq(Swaps)]
         /\ IsPage(Page(some, user, before).rows, Page(some, user, before).next, some, user, before)
<1>0. PICK page, next : page = Page(some, user, before).rows /\ next = Page(some, user, before).next
  OBVIOUS
<1> DEFINE older == {s \in Listed(some, user) : Older(s, before)}
           full == Cardinality(older) >= PageSize
           n == IF full THEN PageSize ELSE Cardinality(older)
           made == [i \in 1 .. n |-> Newest(older, i)]
<1>1. older \in SUBSET Swaps
  BY DEF Listed
<1>2. PageSize \in Nat \ {0}
  BY HistoryAssumption DEF HistoryAssumption
<1>3. page = made /\ next = (IF full THEN <<made[PageSize]>> ELSE <<>>)
      /\ Page(some, user, before) = [rows |-> page, next |-> next]
  BY <1>0 DEF Page, FirstPage
<1> HIDE DEF older
<1>4. /\ Cardinality(older) \in Nat
      /\ \A i \in 1 .. Cardinality(older) : Newest(older, i) \in older /\ Place(older, Newest(older, i)) = i
      /\ \A s \in older : Place(older, s) \in 1 .. Cardinality(older)
      /\ \A s \in older : Newest(older, Place(older, s)) = s
      /\ \A s, t \in older : Below(s, t) <=> Place(older, t) < Place(older, s)
  BY <1>1, PlacesAre
<1>5. n \in Nat /\ n <= Cardinality(older) /\ \A i \in 1 .. n : i \in 1 .. Cardinality(older)
  BY <1>2, <1>4
<1>6. \A i \in 1 .. n : page[i] = Newest(older, i) /\ page[i] \in older /\ page[i] \in Swaps
  BY <1>1, <1>3, <1>4, <1>5
<1>7. page \in Seq(Swaps) /\ Len(page) = n /\ DOMAIN page = 1 .. n
  <2> HIDE DEF n, full
  <2>1. \A i \in 1 .. n : Newest(older, i) \in Swaps
    BY <1>1, <1>4, <1>5
  <2>2. made \in Seq(Swaps)
    BY <1>5, <2>1, IsASeq
  <2>3. DOMAIN page = 1 .. n /\ page \in Seq(Swaps)
    BY <1>3, <2>2
  <2> QED BY <1>5, <2>3, LenProperties
<1>8. next \in Seq(Swaps) /\ (next = <<>> \/ (page # <<>> /\ next = <<page[Len(page)]>>))
      /\ (next = <<>> <=> ~full)
  <2>1. CASE full
    <3>1. n = PageSize /\ PageSize \in 1 .. n
      BY <1>2, <2>1
    <3>2. next = <<page[PageSize]>> /\ page[PageSize] \in Swaps
      BY <1>3, <1>6, <2>1, <3>1
    <3>3. page # <<>>
      BY <1>2, <1>7, <3>1
    <3> QED BY <1>7, <2>1, <3>1, <3>2, <3>3
  <2>2. CASE ~full
    BY <1>3, <2>2
  <2> QED BY <2>1, <2>2
<1>9. ASSUME NEW i \in DOMAIN page, NEW j \in DOMAIN page, i < j PROVE Below(page[j], page[i])
  <2>1. i \in 1 .. n /\ j \in 1 .. n
    BY <1>7
  <2>2. Place(older, page[i]) = i /\ Place(older, page[j]) = j
    BY <1>4, <1>5, <1>6, <2>1
  <2> QED BY <1>4, <1>6, <1>9, <2>1, <2>2
<1>10. ASSUME NEW i \in DOMAIN page
       PROVE  page[i] \in Listed(some, user) /\ Older(page[i], before)
  BY <1>6, <1>7 DEF older
<1>11. ASSUME NEW s \in Listed(some, user), Older(s, before),
              next = <<>> \/ ~Below(s, page[Len(page)])
       PROVE  \E i \in DOMAIN page : page[i] = s
  <2>1. s \in older
    BY <1>11 DEF older
  <2>2. Place(older, s) \in 1 .. Cardinality(older) /\ Newest(older, Place(older, s)) = s
    BY <1>4, <2>1
  <2>3. Place(older, s) \in 1 .. n
    <3>1. CASE full
      <4>1. n = PageSize /\ n \in 1 .. n
        BY <1>2, <3>1
      <4>2. page[n] \in older /\ Place(older, page[n]) = n
        BY <1>4, <1>5, <1>6, <4>1
      <4>3. ~Below(s, page[n])
        BY <1>7, <1>8, <1>11, <3>1
      <4>4. ~(n < Place(older, s))
        BY <1>4, <2>1, <4>2, <4>3
      <4> QED BY <1>5, <2>2, <4>4
    <3>2. CASE ~full
      BY <2>2, <3>2
    <3> QED BY <3>1, <3>2
  <2> QED BY <1>6, <1>7, <2>2, <2>3
<1>12. Page(some, user, before) \in [rows : Seq(Swaps), next : Seq(Swaps)]
  BY <1>3, <1>7, <1>8
<1> QED BY <1>0, <1>7, <1>8, <1>9, <1>10, <1>11, <1>12 DEF IsPage

\* What a page adds when the list has none of its rows yet.
LEMMA AppendedAll ==
  ASSUME shown \in Seq(Swaps), NEW some \in Seq(Swaps),
         \A i \in DOMAIN some : some[i] \notin Range(shown)
  PROVE  Appended(some) = shown \o some
<1> DEFINE n == Len(some)
           new == {i \in DOMAIN some : list = "trips" \/ some[i] \notin Range(shown)}
           pick(i) == CHOOSE j \in new : Cardinality({k \in new : k <= j}) = i
<1>1. n \in Nat /\ DOMAIN some = 1 .. n
  BY LenProperties
<1>2. new = 1 .. n /\ Cardinality(1 .. n) = n
  <2>1. new = DOMAIN some
    OBVIOUS
  <2> HIDE DEF n
  <2>2. Cardinality(1 .. n) = n
    BY <1>1, FS_Interval
  <2> QED BY <1>1, <2>1, <2>2
<1>3. ASSUME NEW j \in 1 .. n PROVE Cardinality({k \in new : k <= j}) = j
  <2>1. {k \in new : k <= j} = 1 .. j
    BY <1>1, <1>2
  <2>2. Cardinality(1 .. j) = j
    BY <1>1, FS_Interval
  <2> QED BY <2>1, <2>2
<1> HIDE DEF new
<1>4. ASSUME NEW i \in 1 .. n PROVE pick(i) = i
  <2>1. i \in new /\ \A j \in new : Cardinality({k \in new : k <= j}) = j
    BY <1>2, <1>3
  <2> QED BY <2>1
<1> HIDE DEF pick, n
<1>5. [i \in 1 .. n |-> some[pick(i)]] = some
  <2>1. [i \in 1 .. n |-> some[pick(i)]] = [i \in 1 .. n |-> some[i]]
    BY <1>4
  <2>2. some = [i \in DOMAIN some |-> some[i]]
    OBVIOUS
  <2> QED BY <1>1, <2>1, <2>2
<1>6. Appended(some) = shown \o [i \in 1 .. Cardinality(new) |-> some[pick(i)]]
  BY DEF Appended, new, pick
<1> QED BY <1>2, <1>5, <1>6

\* What the calls of the list are, and what is on the screen.
Call == [op : {"first", "more"}, user : Wallets \union {NoWallet}, before : Seq(Swaps),
         current : BOOLEAN, pc : {"sent", "ok"}, page : [rows : Seq(Swaps), next : Seq(Swaps)],
         table : SUBSET Swaps]

HistoryTypes ==
  /\ list \in {"swaps", "trips"} /\ who \in Wallets \union {NoWallet}
  /\ table \subseteq Swaps /\ base \subseteq table
  /\ cursor \in Seq(Swaps)
  /\ calls \subseteq Call
  /\ timers \subseteq [wallet : Wallets, known : BOOLEAN]

\* An answer is a page of the table as it was some time before.
Answers ==
  \A c \in calls :
    /\ c.table \subseteq table
    /\ c.op = "first" => c.before = <<>>
    /\ c.pc = "ok" => c.page = Page(c.table, c.user, c.before)

\* The calls whose answer the list will take.
Pending == {c \in calls : c.op = "more" /\ Fits(c)}
Firsts == {c \in calls : c.op = "first" /\ c.current}

\* They come one at a time, and a page continues the list as it is.
InTurn ==
  /\ \A c, d \in Pending : c = d
  /\ Pending # {} => loadingMore
  /\ list = "swaps" =>
       /\ \A c, d \in Firsts : c = d
       /\ Firsts # {} => fetching /\ Pending = {}
       /\ \A c \in Pending : c.user = who
  /\ list = "swaps" \/ ~mixed =>
       \A c \in Pending : /\ c.before = cursor /\ cursor # <<>>
                          /\ c.pc = "ok" => base \subseteq c.table

Whole ==
  /\ shown \in Seq(Swaps)
  /\ \A i, j \in DOMAIN shown : i < j => Below(shown[j], shown[i])
  /\ Range(shown) \subseteq Listed(table, who)
  /\ \A s \in Listed(base, who) :
       cursor = <<>> \/ ~Below(s, shown[Len(shown)]) => s \in Range(shown)
  /\ cursor # <<>> => shown # <<>> /\ cursor = <<shown[Len(shown)]>>

HistoryInv == HistoryTypes /\ Answers /\ InTurn /\ (~mixed => Whole)

\* The first page of a list.
LEMMA WholeFirst ==
  ASSUME HistoryTypes, NEW c \in calls, Answers, c.op = "first", c.pc = "ok",
         list = "trips" \/ c.user = who,
         list' = list, who' = who, table' = table,
         shown' = c.page.rows, cursor' = c.page.next, base' = c.table
  PROVE  Whole'
<1>1. c.table \in SUBSET Swaps /\ c.table \subseteq table /\ c.before = <<>>
      /\ c.page = Page(c.table, c.user, c.before)
  BY DEF HistoryTypes, Answers
<1>2. shown' = Page(c.table, c.user, <<>>).rows /\ cursor' = Page(c.table, c.user, <<>>).next
  BY <1>1
<1>3. \A s : Older(s, <<>>)
  BY DEF Older
<1>4. \A some : Listed(some, c.user) = Listed(some, who)
  BY DEF Listed, HistoryTypes
<1>5. /\ shown' \in Seq(Swaps)
      /\ \A i, j \in DOMAIN shown' : i < j => Below(shown'[j], shown'[i])
      /\ \A i \in DOMAIN shown' : shown'[i] \in Listed(c.table, c.user)
      /\ cursor' = <<>> \/ (shown' # <<>> /\ cursor' = <<shown'[Len(shown')]>>)
      /\ \A s \in Listed(c.table, c.user) :
           (cursor' = <<>> \/ ~Below(s, shown'[Len(shown')])) => \E i \in DOMAIN shown' : shown'[i] = s
  <2>1. PICK page, next : /\ page = Page(c.table, c.user, <<>>).rows
                          /\ next = Page(c.table, c.user, <<>>).next
    OBVIOUS
  <2>2. IsPage(page, next, c.table, c.user, <<>>)
    BY <1>1, <2>1, PageIs
  <2>3. shown' = page /\ cursor' = next
    BY <1>2, <2>1
  <2> QED BY <1>3, <2>2, <2>3 DEF IsPage
<1>6. Listed(c.table, who) \subseteq Listed(table, who)
  BY <1>1 DEF Listed
<1>7. (Range(shown) \subseteq Listed(table, who))'
  <2>1. \A i \in DOMAIN shown' : shown'[i] \in Listed(table, who)
    BY <1>4, <1>5, <1>6
  <2> QED BY <2>1 DEF Range, Listed
<1>8. (\A s \in Listed(base, who) :
         cursor = <<>> \/ ~Below(s, shown[Len(shown)]) => s \in Range(shown))'
  <2>1. Listed(base, who)' = Listed(c.table, who)
    BY DEF Listed
  <2> QED BY <1>4, <1>5, <2>1 DEF Range, Below
<1> QED BY <1>5, <1>7, <1>8 DEF Whole, Below

\* A page that continues a list.
LEMMA WholeMore ==
  ASSUME HistoryTypes, NEW c \in calls, Answers, Whole, c.pc = "ok", list = "trips" \/ c.user = who,
         c.before = cursor, cursor # <<>>, base \subseteq c.table,
         list' = list, who' = who, table' = table, base' = base,
         shown' = Appended(c.page.rows), cursor' = c.page.next
  PROVE  Whole'
<1>1. c.table \in SUBSET Swaps /\ c.table \subseteq table /\ c.page = Page(c.table, c.user, cursor)
  BY DEF HistoryTypes, Answers
<1>2. PICK last : last = shown[Len(shown)]
  OBVIOUS
<1>3. /\ shown \in Seq(Swaps) /\ shown # <<>> /\ cursor = <<last>>
      /\ \A i, j \in DOMAIN shown : i < j => Below(shown[j], shown[i])
  BY <1>2 DEF Whole
<1>4. /\ Len(shown) \in Nat \ {0} /\ DOMAIN shown = 1 .. Len(shown) /\ last \in Swaps
      /\ \A i \in 1 .. Len(shown) : shown[i] \in Swaps
  <2>1. Len(shown) \in Nat \ {0} /\ DOMAIN shown = 1 .. Len(shown)
    BY <1>3, EmptySeq, LenProperties
  <2>2. \A i \in 1 .. Len(shown) : shown[i] \in Swaps
    BY <1>3, <2>1, ElementOfSeq
  <2> QED BY <1>2, <2>1, <2>2
<1>5. \A s : Older(s, cursor) <=> Below(s, last)
  BY <1>3 DEF Older
<1>6. \A some : Listed(some, c.user) = Listed(some, who)
  BY DEF Listed, HistoryTypes
<1>7. PICK page, next : /\ page = Page(c.table, c.user, cursor).rows
                        /\ next = Page(c.table, c.user, cursor).next
  OBVIOUS
<1>8. /\ page \in Seq(Swaps)
      /\ \A i, j \in DOMAIN page : i < j => Below(page[j], page[i])
      /\ \A i \in DOMAIN page : page[i] \in Listed(c.table, who) /\ Below(page[i], last)
      /\ next = <<>> \/ (page # <<>> /\ next = <<page[Len(page)]>>)
      /\ \A s \in Listed(c.table, who) :
           Below(s, last) /\ (next = <<>> \/ ~Below(s, page[Len(page)])) => \E i \in DOMAIN page : page[i] = s
  <2>1. IsPage(page, next, c.table, c.user, cursor)
    BY <1>1, <1>7, PageIs
  <2> QED BY <1>5, <1>6, <2>1 DEF IsPage
<1>9. Len(page) \in Nat /\ DOMAIN page = 1 .. Len(page) /\ \A i \in 1 .. Len(page) : page[i] \in Swaps
  BY <1>8, LenProperties, ElementOfSeq
\* What is on the screen is not below its last row, and a page is below all of it.
<1>10. ASSUME NEW i \in 1 .. Len(shown), NEW s \in Swaps, Below(s, last)
       PROVE  Below(s, shown[i]) /\ s # shown[i]
  <2>1. CASE i = Len(shown)
    BY <1>2, <1>4, <1>10, <2>1, BelowOrders
  <2>2. CASE i # Len(shown)
    <3>1. Below(last, shown[i])
      <4>0. \A n \in Nat \ {0} : \A k \in 1 .. n : k # n => k < n /\ n \in 1 .. n
        OBVIOUS
      <4>1. i \in DOMAIN shown /\ Len(shown) \in DOMAIN shown /\ i < Len(shown)
        BY <1>4, <2>2, <4>0
      <4> QED BY <1>2, <1>3, <4>1
    <3> QED BY <1>4, <1>10, <3>1, BelowOrders
  <2> QED BY <2>1, <2>2
<1>11. shown' = shown \o page
  <2>1. ASSUME NEW i \in DOMAIN page PROVE page[i] \notin Range(shown)
    BY <1>4, <1>8, <1>10 DEF Range
  <2>2. shown' = Appended(page)
    BY <1>1, <1>7
  <2> QED BY <1>3, <1>8, <2>1, <2>2, AppendedAll
<1>12. /\ shown' \in Seq(Swaps) /\ Len(shown') = Len(shown) + Len(page)
       /\ DOMAIN shown' = 1 .. Len(shown) + Len(page)
       /\ \A i \in 1 .. Len(shown) : shown'[i] = shown[i]
       /\ \A i \in 1 .. Len(page) : shown'[Len(shown) + i] = page[i] /\ Len(shown) + i \in DOMAIN shown'
  <2>1. /\ shown' \in Seq(Swaps) /\ Len(shown') = Len(shown) + Len(page)
        /\ \A i \in 1 .. Len(shown) + Len(page) :
             shown'[i] = IF i <= Len(shown) THEN shown[i] ELSE page[i - Len(shown)]
    BY <1>3, <1>8, <1>11, ConcatProperties
  <2>2. DOMAIN shown' = 1 .. Len(shown) + Len(page)
    BY <2>1, LenProperties
  <2>3. ASSUME NEW i \in 1 .. Len(page)
        PROVE shown'[Len(shown) + i] = page[i] /\ Len(shown) + i \in DOMAIN shown'
    <3>1. /\ Len(shown) + i \in 1 .. Len(shown) + Len(page) /\ ~(Len(shown) + i <= Len(shown))
          /\ (Len(shown) + i) - Len(shown) = i
      BY <1>4, <1>9
    <3> QED BY <2>1, <2>2, <3>1
  <2>4. ASSUME NEW i \in 1 .. Len(shown) PROVE shown'[i] = shown[i]
    BY <1>4, <1>9, <2>1
  <2> QED BY <2>1, <2>2, <2>3, <2>4
\* A place of the longer list is one of the list it was or one of the page.
<1>13. ASSUME NEW i \in DOMAIN shown'
       PROVE  i \in 1 .. Len(shown) \/ (i - Len(shown) \in 1 .. Len(page) /\ shown'[i] = page[i - Len(shown)])
  <2>1. i \in 1 .. Len(shown) \/ i - Len(shown) \in 1 .. Len(page)
    BY <1>4, <1>9, <1>12
  <2>2. Len(shown) + (i - Len(shown)) = i
    BY <1>4, <1>9, <1>12
  <2> QED BY <1>12, <2>1, <2>2
<1>14. ASSUME NEW i \in DOMAIN shown', NEW j \in DOMAIN shown', i < j
       PROVE  Below(shown'[j], shown'[i])
  <2>1. CASE i \in 1 .. Len(shown) /\ j \in 1 .. Len(shown)
    BY <1>3, <1>4, <1>12, <1>14, <2>1
  <2>2. CASE i \in 1 .. Len(shown) /\ j \notin 1 .. Len(shown)
    <3>1. j - Len(shown) \in DOMAIN page /\ shown'[j] = page[j - Len(shown)]
      BY <1>9, <1>13, <2>2
    <3>2. shown'[j] \in Swaps /\ Below(shown'[j], last)
      BY <1>8, <1>9, <3>1
    <3> QED BY <1>10, <1>12, <2>2, <3>2
  <2>3. CASE i \notin 1 .. Len(shown)
    <3>1. i \notin 1 .. Len(shown) /\ j \notin 1 .. Len(shown)
      BY <1>4, <1>9, <1>12, <1>14, <2>3
    <3>2. /\ i - Len(shown) \in DOMAIN page /\ shown'[i] = page[i - Len(shown)]
          /\ j - Len(shown) \in DOMAIN page /\ shown'[j] = page[j - Len(shown)]
      BY <1>9, <1>13, <3>1
    <3>3. i - Len(shown) < j - Len(shown)
      BY <1>4, <1>9, <1>12, <1>14
    <3> QED BY <1>8, <3>2, <3>3
  <2> QED BY <2>1, <2>2, <2>3
<1>15. ASSUME NEW i \in DOMAIN shown' PROVE shown'[i] \in Listed(table, who)
  <2>1. CASE i \in 1 .. Len(shown)
    BY <1>4, <1>12, <2>1 DEF Whole, Range
  <2>2. CASE i \notin 1 .. Len(shown)
    <3>1. shown'[i] \in Listed(c.table, who)
      BY <1>8, <1>9, <1>13, <2>2
    <3> QED BY <1>1, <3>1 DEF Listed
  <2> QED BY <2>1, <2>2
<1>16. cursor' = next /\ (next = <<>> \/ (page # <<>> /\ next = <<page[Len(page)]>>))
  BY <1>1, <1>7, <1>8
<1>17. page # <<>> => shown' # <<>> /\ shown'[Len(shown')] = page[Len(page)]
  <2> SUFFICES ASSUME page # <<>> PROVE shown' # <<>> /\ shown'[Len(shown')] = page[Len(page)]
    OBVIOUS
  <2>1. Len(page) \in 1 .. Len(page)
    BY <1>8, <1>9, EmptySeq
  <2>2. shown'[Len(shown')] = page[Len(page)] /\ Len(shown') \in DOMAIN shown'
    BY <1>12, <2>1
  <2> QED BY <2>2
<1>18. ASSUME NEW s \in Listed(base, who), cursor' = <<>> \/ ~Below(s, shown'[Len(shown')])
       PROVE  \E i \in DOMAIN shown' : shown'[i] = s
  <2>1. CASE ~Below(s, last)
    <3>1. s \in Range(shown)
      BY <1>2, <1>18, <2>1 DEF Whole
    <3>2. PICK i \in DOMAIN shown : shown[i] = s
      BY <3>1 DEF Range
    <3>3. i \in DOMAIN shown'
      BY <1>4, <1>9, <1>12
    <3> QED BY <1>4, <1>12, <3>2, <3>3
  <2>2. CASE Below(s, last)
    <3>1. s \in Listed(c.table, who)
      BY <1>18 DEF Listed
    <3>2. next = <<>> \/ ~Below(s, page[Len(page)])
      BY <1>16, <1>17, <1>18
    <3>3. PICK i \in DOMAIN page : page[i] = s
      BY <1>8, <2>2, <3>1, <3>2
    <3> QED BY <1>9, <1>12, <3>3
  <2> QED BY <2>1, <2>2
<1>19. (Range(shown) \subseteq Listed(table, who))'
  BY <1>15 DEF Range, Listed
<1>20. (\A s \in Listed(base, who) :
          cursor = <<>> \/ ~Below(s, shown[Len(shown)]) => s \in Range(shown))'
  <2>1. Listed(base, who)' = Listed(base, who)
    BY DEF Listed
  <2> QED BY <1>18, <2>1 DEF Range, Below
<1>21. (cursor # <<>> => shown # <<>> /\ cursor = <<shown[Len(shown)]>>)'
  BY <1>16, <1>17
<1> QED BY <1>12, <1>14, <1>19, <1>20, <1>21 DEF Whole, Below

LEMMA ListStays ==
  ASSUME list' = list
  PROVE  /\ Pending' = {c \in calls' : c.op = "more" /\ Fits(c)}
         /\ Firsts' = {c \in calls' : c.op = "first" /\ c.current}
         /\ \A some, user, before : Page(some, user, before)' = Page(some, user, before)
         /\ \A some, user : Listed(some, user)' = Listed(some, user)
<1>1. \A c : Fits(c)' <=> Fits(c)
  BY DEF Fits
<1>2. \A some, user : Listed(some, user)' = Listed(some, user)
  BY DEF Listed
<1>3. \A some, user, before : Page(some, user, before)' = Page(some, user, before)
  <2> SUFFICES ASSUME NEW some, NEW user, NEW before
               PROVE  Page(some, user, before)' = Page(some, user, before)
    OBVIOUS
  <2>1. {s \in Listed(some, user) : Older(s, before)}'
          = {s \in Listed(some, user) : Older(s, before)}
    BY <1>2 DEF Older, Below
  <2> QED BY <2>1 DEF Page
<1> QED BY <1>1, <1>2, <1>3 DEF Pending, Firsts

LEMMA HistoryStarts == HistoryInit => HistoryInv
<1> SUFFICES ASSUME HistoryInit PROVE HistoryInv
  OBVIOUS
<1>1. <<>> \in Seq(Swaps) /\ Len(<<>>) = 0 /\ DOMAIN <<>> = {}
  OBVIOUS
<1>2. HistoryTypes
  BY <1>1 DEF HistoryInit, HistoryTypes
<1>3. Answers /\ InTurn
  BY DEF HistoryInit, Answers, InTurn, Pending, Firsts
<1>4. Whole
  BY <1>1 DEF HistoryInit, Whole, Range, Listed
<1> QED BY <1>2, <1>3, <1>4 DEF HistoryInv

\* The calls when the list is fetched anew are no answers any more that the
\* wallet's list would take.
LEMMA SupersededAre ==
  ASSUME HistoryInv
  PROVE  /\ Superseded \subseteq Call
         /\ \A d \in Superseded : \E c \in calls :
              /\ d.op = c.op /\ d.user = c.user /\ d.before = c.before /\ d.current = FALSE
              /\ d.pc = c.pc /\ d.page = c.page /\ d.table = c.table
              /\ d = [c EXCEPT !.current = FALSE]
<1> SUFFICES ASSUME NEW c \in calls, NEW d, d = [c EXCEPT !.current = FALSE]
             PROVE  /\ d \in Call
                    /\ d.op = c.op /\ d.user = c.user /\ d.before = c.before /\ d.current = FALSE
                    /\ d.pc = c.pc /\ d.page = c.page /\ d.table = c.table
  BY DEF Superseded
<1>1. c \in Call
  BY DEF HistoryInv, HistoryTypes
<1> QED BY <1>1 DEF Call

\* A list that is fetched anew.
LEMMA FetchedAnew ==
  ASSUME HistoryInv, list' = list, table' = table, NEW user \in Wallets \union {NoWallet},
         Send(Superseded, "first", user, <<>>)
  PROVE  /\ calls' \subseteq Call /\ Answers'
         /\ \A c, d \in Pending' : c = d
         /\ \A c, d \in Firsts' : c = d
         /\ list = "swaps" => Pending' = {}
         /\ \A d \in Pending' : \E c \in Pending :
              d.user = c.user /\ d.before = c.before /\ d.pc = c.pc /\ d.table = c.table
<1> DEFINE new == [op |-> "first", user |-> user, before |-> <<>>, current |-> TRUE,
                   pc |-> "sent", page |-> EmptyPage, table |-> {}]
<1>1. calls' = Superseded \union {new}
  BY DEF Send
<1>2. new \in Call
  <2>1. <<>> \in Seq(Swaps) /\ EmptyPage \in [rows : Seq(Swaps), next : Seq(Swaps)]
    BY DEF EmptyPage
  <2> QED BY <2>1 DEF Call
<1>3. HistoryTypes /\ Answers /\ InTurn
  BY DEF HistoryInv
<1>4. Answers'
  <2> SUFFICES ASSUME NEW d \in calls'
               PROVE /\ d.table \subseteq table
                     /\ d.op = "first" => d.before = <<>>
                     /\ d.pc = "ok" => d.page = Page(d.table, d.user, d.before)
    BY ListStays DEF Answers
  <2>1. CASE d = new
    BY <2>1
  <2>2. CASE d \in Superseded
    <3>1. PICK c \in calls : /\ d.op = c.op /\ d.user = c.user /\ d.before = c.before
                             /\ d.pc = c.pc /\ d.page = c.page /\ d.table = c.table
      BY <2>2, SupersededAre
    <3> QED BY <1>3, <3>1 DEF Answers
  <2> QED BY <1>1, <2>1, <2>2
<1>5. ASSUME NEW d \in Pending'
      PROVE  /\ list # "swaps"
             /\ \E c \in Pending : /\ d = [c EXCEPT !.current = FALSE]
                                   /\ d.user = c.user /\ d.before = c.before /\ d.pc = c.pc
                                   /\ d.table = c.table
  <2>1. d \in calls' /\ d.op = "more" /\ Fits(d)
    BY ListStays
  <2>2. d \in Superseded
    BY <1>1, <2>1
  <2>3. PICK c \in calls : /\ d.op = c.op /\ d.user = c.user /\ d.before = c.before /\ d.current = FALSE
                           /\ d.pc = c.pc /\ d.table = c.table /\ d = [c EXCEPT !.current = FALSE]
    BY <2>2, SupersededAre
  <2>4. list # "swaps"
    BY <2>1, <2>3 DEF Fits
  <2> QED BY <2>1, <2>3, <2>4 DEF Pending, Fits
<1>6. ASSUME NEW c \in Pending', NEW d \in Pending' PROVE c = d
  <2>1. PICK e \in Pending : c = [e EXCEPT !.current = FALSE]
    BY <1>5
  <2>2. PICK o \in Pending : d = [o EXCEPT !.current = FALSE]
    BY <1>5
  <2> QED BY <1>3, <2>1, <2>2 DEF InTurn
<1>7. ASSUME NEW d \in Firsts' PROVE d = new
  <2>1. d \in calls' /\ d.current
    BY ListStays
  <2> QED BY <1>1, <2>1, SupersededAre
<1>8. list = "swaps" => Pending' = {}
  BY <1>5
<1>9. calls' \subseteq Call
  BY <1>1, <1>2, SupersededAre
<1> HIDE DEF new
<1> QED BY <1>4, <1>5, <1>6, <1>7, <1>8, <1>9

\* A list stays whole when the table only grows.
LEMMA WholeStays ==
  ASSUME Whole, list' = list, who' = who, table \subseteq table', base' = base,
         shown' = shown, cursor' = cursor
  PROVE  Whole'
<1>1. Listed(table, who) \subseteq Listed(table', who)
  BY DEF Listed
<1>2. (Range(shown) \subseteq Listed(table, who))'
  <2>1. Listed(table, who)' = Listed(table', who)
    BY DEF Listed
  <2> QED BY <1>1, <2>1 DEF Whole, Range
<1>3. (\A s \in Listed(base, who) :
          cursor = <<>> \/ ~Below(s, shown[Len(shown)]) => s \in Range(shown))'
  <2>1. Listed(base, who)' = Listed(base, who)
    BY DEF Listed
  <2> QED BY <2>1 DEF Whole, Range, Below
<1> QED BY <1>2, <1>3 DEF Whole, Below

\* Fewer calls are in turn as they were.
LEMMA FewerCalls ==
  ASSUME HistoryInv, list' = list, who' = who, calls' \subseteq calls,
         Pending' # {} => /\ loadingMore => loadingMore'
                          /\ list = "swaps" \/ ~mixed' =>
                               /\ cursor' = cursor /\ base' = base
                               /\ list = "swaps" \/ ~mixed,
         list = "swaps" /\ Firsts' # {} => fetching' = fetching
  PROVE  InTurn'
<1>1. Pending' \subseteq Pending /\ Firsts' \subseteq Firsts
  BY ListStays DEF Pending, Firsts
<1> QED BY <1>1 DEF HistoryInv, InTurn

LEMMA HistoryNextKeeps ==
  ASSUME HistoryInv, [HistoryNext]_shvars
  PROVE  HistoryInv'
<1>0. HistoryTypes /\ Answers /\ InTurn /\ (~mixed => Whole)
  BY DEF HistoryInv
<1>1. /\ list \in {"swaps", "trips"} /\ who \in Wallets \union {NoWallet}
      /\ table \subseteq Swaps /\ base \subseteq table /\ cursor \in Seq(Swaps) /\ calls \subseteq Call
      /\ timers \subseteq [wallet : Wallets, known : BOOLEAN]
  BY <1>0 DEF HistoryTypes
<1>2. ASSUME IndexSwap PROVE HistoryInv'
  <2>1. /\ UNCHANGED <<list, who, shown, cursor, base, mixed, fetching, loadingMore, calls, timers>>
        /\ table \subseteq table' /\ table' \subseteq Swaps
    BY <1>1, <1>2 DEF IndexSwap, screen
  <2>2. HistoryTypes'
    BY <1>1, <2>1 DEF HistoryTypes
  <2>3. Answers'
    BY <1>0, <2>1, ListStays DEF Answers
  <2>4. InTurn'
    BY <2>1, FewerCalls
  <2>5. (~mixed => Whole)'
    BY <1>0, <2>1, WholeStays
  <2> QED BY <2>2, <2>3, <2>4, <2>5 DEF HistoryInv
<1>3. ASSUME NEW c \in calls, Serve(c) PROVE HistoryInv'
  <2> DEFINE new == [c EXCEPT !.pc = "ok", !.page = Page(table, c.user, c.before), !.table = table]
  <2>1. /\ UNCHANGED <<list, table, who, shown, cursor, base, mixed, fetching, loadingMore, timers>>
        /\ calls' = (calls \ {c}) \union {new}
    BY <1>3 DEF Serve, screen
  <2>2. c \in Call
    BY <1>1
  <2>3. /\ new \in Call /\ new.op = c.op /\ new.user = c.user /\ new.before = c.before
        /\ new.current = c.current /\ new.pc = "ok" /\ new.page = Page(table, c.user, c.before)
        /\ new.table = table
    <3>1. Page(table, c.user, c.before) \in [rows : Seq(Swaps), next : Seq(Swaps)]
      BY <1>1, PageIs
    <3> QED BY <1>1, <2>2, <3>1 DEF Call
  <2> HIDE DEF new
  <2>4. HistoryTypes'
    BY <1>1, <2>1, <2>3 DEF HistoryTypes
  <2>5. Answers'
    <3> SUFFICES ASSUME NEW d \in calls'
                 PROVE /\ d.table \subseteq table
                       /\ d.op = "first" => d.before = <<>>
                       /\ d.pc = "ok" => d.page = Page(d.table, d.user, d.before)
      BY <2>1, ListStays DEF Answers
    <3>1. CASE d = new
      BY <1>0, <2>3, <3>1 DEF Answers
    <3>2. CASE d # new
      BY <1>0, <2>1, <3>2 DEF Answers
    <3> QED BY <3>1, <3>2
  \* The call that is answered is the one it was.
  <2>6. \A d \in calls' : d = new \/ (d \in calls /\ d # c)
    BY <2>1
  <2>7. (Fits(new) <=> Fits(c)) /\ (new \in Pending' => c \in Pending) /\ (new \in Firsts' => c \in Firsts)
    BY <2>1, <2>3, ListStays DEF Fits, Pending, Firsts
  <2>8. /\ \A d \in Pending' : d = new \/ (d \in Pending /\ d # c)
        /\ \A d \in Firsts' : d = new \/ (d \in Firsts /\ d # c)
    BY <2>1, <2>6, ListStays DEF Pending, Firsts
  <2>9. InTurn'
    <3>1. ASSUME NEW d \in Pending', NEW e \in Pending' PROVE d = e
      BY <1>0, <2>7, <2>8, <3>1 DEF InTurn
    <3>2. Pending' # {} => Pending # {}
      BY <2>7, <2>8
    <3>3. Firsts' # {} => Firsts # {}
      BY <2>7, <2>8
    <3>4. ASSUME list = "swaps", NEW d \in Firsts', NEW e \in Firsts' PROVE d = e
      BY <1>0, <2>7, <2>8, <3>4 DEF InTurn
    <3>5. ASSUME list = "swaps", Firsts' # {} PROVE fetching' /\ Pending' = {}
      BY <1>0, <2>1, <3>2, <3>3, <3>5 DEF InTurn
    <3>6. ASSUME list = "swaps", NEW d \in Pending' PROVE d.user = who'
      BY <1>0, <2>1, <2>3, <2>7, <2>8, <3>6 DEF InTurn
    <3>7. ASSUME list = "swaps" \/ ~mixed, NEW d \in Pending'
          PROVE  /\ d.before = cursor' /\ cursor' # <<>>
                 /\ d.pc = "ok" => base' \subseteq d.table
      BY <1>0, <1>1, <2>1, <2>3, <2>7, <2>8, <3>7 DEF InTurn
    <3>8. Pending' # {} => loadingMore'
      BY <1>0, <2>1, <3>2 DEF InTurn
    <3> QED BY <2>1, <3>1, <3>4, <3>5, <3>6, <3>7, <3>8 DEF InTurn
  <2>10. (~mixed => Whole)'
    BY <1>0, <2>1, WholeStays
  <2> QED BY <2>4, <2>5, <2>9, <2>10 DEF HistoryInv
<1>4. ASSUME SwitchWallet PROVE HistoryInv'
  <2>1. /\ UNCHANGED <<list, table>> /\ list = "swaps"
        /\ shown' = <<>> /\ cursor' = <<>> /\ base' = {} /\ timers' \subseteq timers
    BY <1>4 DEF SwitchWallet
  <2>2. PICK w \in Wallets \union {NoWallet} :
          /\ who' = w
          /\ IF w = NoWallet
               THEN fetching' = FALSE /\ loadingMore' = FALSE /\ calls' = Superseded /\ UNCHANGED sent
               ELSE fetching' = TRUE /\ UNCHANGED loadingMore /\ Send(Superseded, "first", w, <<>>)
    BY <1>4 DEF SwitchWallet
  <2>3. Whole'
    <3>1. <<>> \in Seq(Swaps) /\ Len(<<>>) = 0 /\ DOMAIN <<>> = {}
      OBVIOUS
    <3> QED BY <2>1, <3>1 DEF Whole, Range, Listed
  <2>4. CASE w = NoWallet
    <3>1. calls' = Superseded
      BY <2>2, <2>4
    <3>2. Pending' = {} /\ Firsts' = {}
      <4>1. \A d \in calls' : ~d.current
        BY <3>1, SupersededAre
      <4>2. \A d \in calls' : ~Fits(d)
        BY <2>1, <4>1 DEF Fits
      <4> QED BY <2>1, <4>1, <4>2, ListStays
    <3>3. InTurn'
      BY <3>2 DEF InTurn
    <3>4. Answers'
      <4> SUFFICES ASSUME NEW d \in calls'
                   PROVE /\ d.table \subseteq table
                         /\ d.op = "first" => d.before = <<>>
                         /\ d.pc = "ok" => d.page = Page(d.table, d.user, d.before)
        BY <2>1, ListStays DEF Answers
      <4>1. PICK c \in calls : /\ d.op = c.op /\ d.user = c.user /\ d.before = c.before
                               /\ d.pc = c.pc /\ d.page = c.page /\ d.table = c.table
        BY <3>1, SupersededAre
      <4> QED BY <1>0, <4>1 DEF Answers
    <3>5. HistoryTypes'
      <4>1. <<>> \in Seq(Swaps) /\ calls' \subseteq Call
        BY <3>1, SupersededAre
      <4> QED BY <1>1, <2>1, <2>2, <4>1 DEF HistoryTypes
    <3> QED BY <2>3, <3>3, <3>4, <3>5 DEF HistoryInv
  <2>5. CASE w # NoWallet
    <3>1. fetching' = TRUE /\ Send(Superseded, "first", w, <<>>)
      BY <2>2, <2>5
    <3>2. /\ calls' \subseteq Call /\ Answers' /\ Pending' = {}
          /\ \A c, d \in Firsts' : c = d
      BY <2>1, <3>1, FetchedAnew
    <3>3. InTurn'
      BY <3>1, <3>2 DEF InTurn
    <3>4. HistoryTypes'
      <4>1. <<>> \in Seq(Swaps)
        OBVIOUS
      <4> QED BY <1>1, <2>1, <2>2, <3>2, <4>1 DEF HistoryTypes
    <3> QED BY <2>3, <3>2, <3>3, <3>4 DEF HistoryInv
  <2> QED BY <2>4, <2>5
<1>5. ASSUME SwapSucceeds PROVE HistoryInv'
  <2>1. /\ UNCHANGED <<list, table, who, shown, cursor, base, mixed, fetching, loadingMore, calls>>
        /\ who \in Wallets
        /\ timers' = {[t EXCEPT !.known = FALSE] : t \in timers} \union {[wallet |-> who, known |-> TRUE]}
    BY <1>1, <1>5 DEF SwapSucceeds, screen
  <2>2. timers' \subseteq [wallet : Wallets, known : BOOLEAN]
    <3>1. \A t \in timers : [t EXCEPT !.known = FALSE] \in [wallet : Wallets, known : BOOLEAN]
      BY <1>1
    <3>2. [wallet |-> who, known |-> TRUE] \in [wallet : Wallets, known : BOOLEAN]
      BY <2>1
    <3>3. timers' = {[t EXCEPT !.known = FALSE] : t \in timers} \union {[wallet |-> who, known |-> TRUE]}
      BY <2>1
    <3>4. {[t EXCEPT !.known = FALSE] : t \in timers} \subseteq [wallet : Wallets, known : BOOLEAN]
      BY <3>1, Zenon
    <3> QED BY <3>2, <3>3, <3>4, Zenon
  <2>3. HistoryTypes'
    BY <1>1, <2>1, <2>2 DEF HistoryTypes
  <2>4. Answers'
    BY <1>0, <2>1, ListStays DEF Answers
  <2>5. InTurn'
    BY <2>1, FewerCalls
  <2>6. (~mixed => Whole)'
    BY <1>0, <2>1, WholeStays
  <2> QED BY <2>3, <2>4, <2>5, <2>6 DEF HistoryInv
<1>6. ASSUME Refetch \/ RefreshTrips PROVE HistoryInv'
  <2>1. /\ UNCHANGED <<list, table, who, shown, cursor, base, mixed, loadingMore>>
        /\ timers' \subseteq timers /\ (list = "swaps" => fetching' = TRUE)
    BY <1>6 DEF Refetch, RefreshTrips, screen
  <2>2. PICK user \in Wallets \union {NoWallet} : Send(Superseded, "first", user, <<>>)
    <3>1. CASE Refetch
      <4>1. PICK t \in timers : Send(Superseded, "first", t.wallet, <<>>)
        BY <3>1 DEF Refetch
      <4>2. t.wallet \in Wallets
        BY <1>1
      <4> QED BY <4>1, <4>2
    <3>2. CASE RefreshTrips
      BY <3>2 DEF RefreshTrips
    <3> QED BY <1>6, <3>1, <3>2
  <2>3. /\ calls' \subseteq Call /\ Answers'
        /\ \A c, d \in Pending' : c = d
        /\ \A c, d \in Firsts' : c = d
        /\ list = "swaps" => Pending' = {}
        /\ \A d \in Pending' : \E c \in Pending :
             d.user = c.user /\ d.before = c.before /\ d.pc = c.pc /\ d.table = c.table
    BY <2>1, <2>2, FetchedAnew
  <2>4. InTurn'
    <3>1. Pending' # {} => Pending # {}
      BY <2>3
    <3>2. ASSUME list = "swaps" \/ ~mixed, NEW d \in Pending'
          PROVE  d.before = cursor /\ cursor # <<>> /\ (d.pc = "ok" => base \subseteq d.table)
      <4>1. PICK c \in Pending : d.before = c.before /\ d.pc = c.pc /\ d.table = c.table
        BY <2>3
      <4> QED BY <1>0, <3>2, <4>1 DEF InTurn
    <3> QED BY <1>0, <2>1, <2>3, <3>1, <3>2 DEF InTurn
  <2>5. HistoryTypes'
    BY <1>1, <2>1, <2>3 DEF HistoryTypes
  <2>6. (~mixed => Whole)'
    BY <1>0, <2>1, WholeStays
  <2> QED BY <2>3, <2>4, <2>5, <2>6 DEF HistoryInv
<1>7. ASSUME LoadMore PROVE HistoryInv'
  <2> DEFINE new == [op |-> "more", user |-> who, before |-> cursor, current |-> TRUE,
                     pc |-> "sent", page |-> EmptyPage, table |-> {}]
  <2>1. /\ UNCHANGED <<list, table, who, shown, cursor, base, mixed, fetching, timers>>
        /\ calls' = calls \union {new} /\ loadingMore' = TRUE
        /\ cursor # <<>> /\ ~loadingMore /\ (list = "swaps" => ~fetching)
    BY <1>7 DEF LoadMore, Send, screen
  <2>2. /\ new \in Call /\ new.op = "more" /\ new.user = who /\ new.before = cursor
        /\ new.pc = "sent" /\ new.table = {}
    <3>1. <<>> \in Seq(Swaps) /\ EmptyPage \in [rows : Seq(Swaps), next : Seq(Swaps)]
      BY DEF EmptyPage
    <3> QED BY <1>1, <3>1 DEF Call
  <2> HIDE DEF new
  <2>3. Pending = {} /\ (list = "swaps" => Firsts = {})
    BY <1>0, <2>1 DEF InTurn
  <2>4. \A d \in Pending' : d = new
    BY <2>1, <2>3, ListStays DEF Pending
  <2>5. list = "swaps" => Firsts' = {}
    BY <2>1, <2>2, <2>3, ListStays DEF Firsts
  <2>6. InTurn'
    BY <2>1, <2>2, <2>4, <2>5 DEF InTurn
  <2>7. Answers'
    <3> SUFFICES ASSUME NEW d \in calls'
                 PROVE /\ d.table \subseteq table
                       /\ d.op = "first" => d.before = <<>>
                       /\ d.pc = "ok" => d.page = Page(d.table, d.user, d.before)
      BY <2>1, ListStays DEF Answers
    <3>1. CASE d = new
      BY <2>2, <3>1
    <3>2. CASE d # new
      BY <1>0, <2>1, <3>2 DEF Answers
    <3> QED BY <3>1, <3>2
  <2>8. HistoryTypes'
    BY <1>1, <2>1, <2>2 DEF HistoryTypes
  <2>9. (~mixed => Whole)'
    BY <1>0, <2>1, WholeStays
  <2> QED BY <2>6, <2>7, <2>8, <2>9 DEF HistoryInv
<1>8. ASSUME NEW c \in calls, TakeFirst(c) PROVE HistoryInv'
  <2>1. /\ UNCHANGED <<list, table, who, loadingMore, timers>>
        /\ calls' = calls \ {c} /\ c.op = "first" /\ fetching' = (fetching /\ ~c.current)
    BY <1>8 DEF TakeFirst
  <2>2. Answers'
    BY <1>0, <2>1, ListStays DEF Answers
  <2>3. c.current => c \in Firsts
    BY <2>1 DEF Firsts
  <2>4. list = "swaps" /\ Firsts' # {} => fetching' = fetching
    <3>1. Firsts' \subseteq Firsts \ {c}
      BY <2>1, ListStays DEF Firsts
    <3> QED BY <1>0, <2>1, <2>3, <3>1 DEF InTurn
  <2>5. CASE c.current /\ c.pc = "ok"
    <3>1. /\ shown' = c.page.rows /\ cursor' = c.page.next /\ base' = c.table
          /\ mixed' = IF list = "swaps" THEN c.user # who ELSE \E d \in calls : d.op = "more"
      BY <1>8, <2>5 DEF TakeFirst
    <3>2. Pending' # {} => list # "swaps" /\ mixed'
      <4>1. Pending' \subseteq Pending
        BY <2>1, ListStays DEF Pending
      <4>2. list = "swaps" => Pending = {}
        BY <1>0, <2>3, <2>5 DEF InTurn
      <4>3. Pending # {} => \E d \in calls : d.op = "more"
        BY DEF Pending
      <4> QED BY <3>1, <4>1, <4>2, <4>3
    <3>3. InTurn'
      BY <2>1, <2>4, <3>2, FewerCalls
    <3>4. (~mixed => Whole)'
      BY <1>0, <2>1, <2>5, <3>1, WholeFirst, <1>1
    <3>5. HistoryTypes'
      <4>1. c \in Call
        BY <1>1
      <4>2. c.page.next \in Seq(Swaps) /\ c.table \subseteq table
        BY <1>0, <4>1 DEF Call, Answers
      <4> QED BY <1>1, <2>1, <3>1, <4>2 DEF HistoryTypes
    <3> QED BY <2>2, <3>3, <3>4, <3>5 DEF HistoryInv
  <2>6. CASE ~(c.current /\ c.pc = "ok")
    <3>1. UNCHANGED <<shown, cursor, base, mixed>>
      BY <1>8, <2>6 DEF TakeFirst, screen
    <3>2. InTurn'
      BY <2>1, <2>4, <3>1, FewerCalls
    <3>3. (~mixed => Whole)'
      BY <1>0, <2>1, <3>1, WholeStays
    <3>4. HistoryTypes'
      BY <1>1, <2>1, <3>1 DEF HistoryTypes
    <3> QED BY <2>2, <3>2, <3>3, <3>4 DEF HistoryInv
  <2> QED BY <2>5, <2>6
<1>9. ASSUME NEW c \in calls, TakeMore(c) PROVE HistoryInv'
  <2>1. /\ UNCHANGED <<list, table, who, base, mixed, fetching, timers>>
        /\ calls' = calls \ {c} /\ c.op = "more" /\ loadingMore' = (loadingMore /\ ~Fits(c))
    BY <1>9 DEF TakeMore
  <2>2. Answers'
    BY <1>0, <2>1, ListStays DEF Answers
  <2>3. Fits(c) => c \in Pending /\ Pending' = {}
    <3>1. Fits(c) => c \in Pending
      BY <2>1 DEF Pending
    <3>2. Pending' \subseteq Pending \ {c}
      BY <2>1, ListStays DEF Pending
    <3> QED BY <1>0, <3>1, <3>2 DEF InTurn
  <2>4. CASE Fits(c) /\ c.pc = "ok"
    <3>1. shown' = Appended(c.page.rows) /\ cursor' = c.page.next
      BY <1>9, <2>4 DEF TakeMore
    <3>2. InTurn'
      BY <2>1, <2>3, <2>4, FewerCalls
    <3>3. ASSUME ~mixed PROVE Whole'
      <4>1. c.before = cursor /\ cursor # <<>> /\ base \subseteq c.table
        BY <1>0, <2>3, <2>4, <3>3 DEF InTurn
      <4>2. list = "trips" \/ c.user = who
        BY <1>0, <1>1, <2>3, <2>4 DEF InTurn
      <4> QED BY <1>0, <2>1, <2>4, <3>1, <3>3, <4>1, <4>2, WholeMore
    <3>4. HistoryTypes'
      <4>1. c \in Call
        BY <1>1
      <4>2. c.page.next \in Seq(Swaps)
        BY <4>1 DEF Call
      <4> QED BY <1>1, <2>1, <3>1, <4>2 DEF HistoryTypes
    <3> QED BY <2>1, <2>2, <3>2, <3>3, <3>4 DEF HistoryInv
  <2>5. CASE ~(Fits(c) /\ c.pc = "ok")
    <3>1. UNCHANGED <<shown, cursor>>
      BY <1>9, <2>5 DEF TakeMore
    <3>2. InTurn'
      <4>1. Pending' # {} => (loadingMore => loadingMore')
        <5>1. Pending' # {} => ~Fits(c)
          BY <2>3
        <5> QED BY <2>1, <5>1, Zenon
      <4> QED BY <2>1, <3>1, <4>1, FewerCalls
    <3>3. (~mixed => Whole)'
      BY <1>0, <2>1, <3>1, WholeStays
    <3>4. HistoryTypes'
      BY <1>1, <2>1, <3>1 DEF HistoryTypes
    <3> QED BY <2>2, <3>2, <3>3, <3>4 DEF HistoryInv
  <2> QED BY <2>4, <2>5
<1>10. CASE UNCHANGED shvars
  <2>1. UNCHANGED <<list, table, who, shown, cursor, base, mixed, fetching, loadingMore, calls, timers>>
    BY <1>10 DEF shvars, screen
  <2>2. HistoryTypes'
    BY <1>1, <2>1 DEF HistoryTypes
  <2>3. Answers'
    BY <1>0, <2>1, ListStays DEF Answers
  <2>4. InTurn'
    BY <2>1, FewerCalls
  <2>5. (~mixed => Whole)'
    BY <1>0, <2>1, WholeStays
  <2> QED BY <2>2, <2>3, <2>4, <2>5 DEF HistoryInv
<1> QED BY <1>2, <1>3, <1>4, <1>5, <1>6, <1>7, <1>8, <1>9, <1>10 DEF HistoryNext

(***************************************************************************)
(* A list that is not mixed shows its rows newest first, only its own, and *)
(* leaves out none that the table held when its first page was read.       *)
(***************************************************************************)
THEOREM ListsAreWhole == HistorySpec => []HistoryIsWhole
<1>1. HistoryInv => HistoryIsWhole
  <2> SUFFICES ASSUME Whole PROVE HistoryIsWhole
    BY DEF HistoryInv, HistoryIsWhole
  <2>1. \A i \in 1 .. Len(shown) - 1 : i \in DOMAIN shown /\ i + 1 \in DOMAIN shown /\ i < i + 1
    <3>1. Len(shown) \in Nat /\ DOMAIN shown = 1 .. Len(shown)
      BY LenProperties DEF Whole
    <3> QED BY <3>1
  <2> QED BY <2>1 DEF Whole, HistoryIsWhole
<1>2. HistoryInv /\ [HistoryNext]_shvars => HistoryInv'
  BY HistoryNextKeeps
<1> QED BY <1>1, <1>2, HistoryStarts, PTL DEF HistorySpec

=============================================================================

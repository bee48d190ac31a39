----------------------------- MODULE MCPoolRefresh -----------------------------
(* Instances of PoolRefresh for TLC: deployments with pools of each kind of    *)
(* venue, with and without the fetch pipeline.                                 *)
EXTENDS PoolRefresh, TLC

CONSTANTS p1, p2, p3, w1

\* The watcher alone, over pairs of venues that share a step: two batches, a batch
\* and a single pool, two single pools; and the direct refresh.
Watching ==
    {[venues |-> p1 :> vs[1] @@ p2 :> vs[2], pipeline |-> vs[3], loops |-> {}, ledgers |-> 3, failures |-> 1] :
        vs \in {<<"soroswap", "aquarius", TRUE>>, <<"phoenix", "comet", TRUE>>, <<"comet", "clmm", TRUE>>,
                <<"soroswap", "comet", FALSE>>, <<"aquarius", "clmm", FALSE>>}}

\* More pools than the direct refresh takes, of venues it reads one after the other.
Crowded == {[venues |-> p1 :> "soroswap" @@ p2 :> "comet" @@ p3 :> "comet", pipeline |-> FALSE, loops |-> {},
             ledgers |-> 2, failures |-> 1]}

\* Every loop, over one pool of each venue; without the pipeline also each loop alone.
EveryLoop == {"sweep", "discovery"}
Recovering ==
    {[venues |-> p1 :> v, pipeline |-> TRUE, loops |-> EveryLoop, ledgers |-> 1, failures |-> 1] : v \in Venues}
        \cup {[venues |-> p1 :> v, pipeline |-> FALSE, loops |-> EveryLoop, ledgers |-> 1, failures |-> 0] :
                 v \in {"soroswap", "clmm"}}
        \cup {[venues |-> p1 :> v, pipeline |-> FALSE, loops |-> {l}, ledgers |-> 1, failures |-> 1] :
                 v \in Venues, l \in EveryLoop}

Deployments == Watching \cup Crowded \cup Recovering

\* A CLMM pool and the watcher.
ClmmWatching == {[venues |-> p1 :> "clmm", pipeline |-> TRUE, loops |-> {}, ledgers |-> 2, failures |-> 0]}
=============================================================================

------------------------------ MODULE ClmmPool ------------------------------
(***************************************************************************)
(* A concentrated-liquidity pool on the chain, the adapter that keeps a    *)
(* copy of it, and the quotes computed from the copy.                      *)
(*                                                                         *)
(* Two adapters exist, and venue tells whose pool this is.  "sushi"        *)
(* (sushi.rs) reads the price and the liquidity with two calls, then the   *)
(* ticks word by word in a window around the price, and rescans only when  *)
(* the price has left the window.  "aquarius_clmm" (aquarius_clmm.rs)      *)
(* reads price and liquidity from one ledger entry, then the chunk bitmap  *)
(* between the tick bounds of the pool, then the flagged ticks in batches, *)
(* and rescans when the price has left the ticks it loaded.  Any of those  *)
(* calls may fail, and traders and liquidity providers act between any two *)
(* of them.                                                                *)
(***************************************************************************)
EXTENDS ClmmMath, Sequences, SequencesExt

CONSTANTS Fee,            \* fee of the pool of each venue, out of FeeDenominator
          ScanWords,      \* words scanned on each side of the price
          TickBatch,      \* ticks read by one call
          Candidates,     \* positions [lo, hi, l] that providers may hold
          FirstPositions, \* positions at the start
          TradeAmounts,   \* inputs of the trades on the chain
          MaxTrades,      \* bound: trades on the chain
          MaxProvides,    \* bound: positions added or removed
          MaxJobs,        \* bound: loads and refreshes of the adapter
          MaxFailures     \* bound: calls that fail

VARIABLES venue,      \* "sushi" or "aquarius_clmm"
          positions,  \* the positions of the pool
          slot,       \* slot0 of the pool: price and tick
          trades, provides, jobs, failures,
          cache,      \* the adapter's copy, or NoCopy
          job         \* the adapter's work in progress, or NoJob

vars == <<venue, positions, slot, trades, provides, jobs, failures, cache, job>>

NoCopy == [price |-> 0]
NoJob == [kind |-> "none"]

-----------------------------------------------------------------------------
(***************************************************************************)
(* The pool contract.                                                      *)
(***************************************************************************)
Ends(ps) == {p.lo : p \in ps} \union {p.hi : p \in ps}

NetAt(ps, t) == MapThenSumSet(LAMBDA p : p.l, {p \in ps : p.lo = t})
                - MapThenSumSet(LAMBDA p : p.l, {p \in ps : p.hi = t})

Net(ps) == [t \in Ends(ps) |-> NetAt(ps, t)]

ActiveLiquidity(ps, tick) ==
    MapThenSumSet(LAMBDA p : p.l, {p \in ps : p.lo <= tick /\ tick < p.hi})

\* The contract's own search: the nearest initialized tick, else the edge of
\* the bitmap word it has just searched.
NearestTick(net, tick, down) ==
    LET next == {t \in DOMAIN net : IF down THEN t <= tick ELSE t > tick}
    IN  IF next # {} THEN [tick |-> Nearest(next, down), initialized |-> TRUE]
        ELSE FindInitializedTick(EmptyStore, tick, down)

Pool == [price |-> slot.price, tick |-> slot.tick,
         liquidity |-> ActiveLiquidity(positions, slot.tick), charge |-> Fee[venue]]

NextTick(net, down) == [t \in MinTick .. MaxTick |-> NearestTick(net, t, down)]

ChainSwap(amount, zeroForOne) ==
    IF Pool.liquidity = 0 THEN NoSwap
    ELSE LET net == Net(positions)
         IN  SwapFrom(NextTick(net, zeroForOne), Pool, net, amount, zeroForOne)

Trade(amount, zeroForOne) ==
    /\ trades < MaxTrades
    /\ LET swap == ChainSwap(amount, zeroForOne)
       IN  /\ swap # NoSwap
           /\ slot' = [price |-> swap.price, tick |-> swap.tick]
    /\ trades' = trades + 1
    /\ UNCHANGED <<venue, positions, provides, jobs, failures, cache, job>>

Provide(p) ==
    /\ provides < MaxProvides
    /\ positions' = IF p \in positions THEN positions \ {p} ELSE positions \union {p}
    /\ provides' = provides + 1
    /\ UNCHANGED <<venue, slot, trades, jobs, failures, cache, job>>

-----------------------------------------------------------------------------
(***************************************************************************)
(* The adapter.  A job works on a copy of its own: a load replaces the     *)
(* cached copy when it is done (get_trading_pairs builds a new map), a     *)
(* refresh edits it under the write lock, which keeps readers out while    *)
(* ticks are being read.                                                   *)
(***************************************************************************)
FreshCopy == [price |-> 0, tick |-> 0, liquidity |-> 0, charge |-> Fee[venue], store |-> EmptyStore,
              words |-> <<0, 0>>, truncated |-> FALSE]

Idle == job = NoJob

Window(tick) == <<ScanWord(tick) - ScanWords, ScanWord(tick) + ScanWords>>

\* Ticks enter the store when their gross liquidity is positive; nothing takes
\* a tick out of a store that is being merged into.
StoreTicks(store, net) ==
    [store EXCEPT !.net = [t \in DOMAIN @ \union DOMAIN net |->
                              IF t \in DOMAIN net THEN net[t] ELSE @[t]]]

RestrictTo(net, S) == [t \in DOMAIN net \intersect S |-> net[t]]

Load ==
    /\ Idle
    /\ jobs < MaxJobs
    /\ jobs' = jobs + 1
    /\ job' = [kind |-> "load", pc |-> "slot", copy |-> FreshCopy, todo |-> <<>>]
    /\ UNCHANGED <<venue, positions, slot, trades, provides, failures, cache>>

Refresh ==
    /\ Idle
    /\ cache # NoCopy
    /\ jobs < MaxJobs
    /\ jobs' = jobs + 1
    /\ job' = [kind |-> "refresh", pc |-> "slot", copy |-> cache, todo |-> <<>>]
    /\ UNCHANGED <<venue, positions, slot, trades, provides, failures, cache>>

\* A pool that cannot be read is left out of the map a load builds; a refresh
\* leaves the copy as it was.
Fails ==
    /\ failures < MaxFailures
    /\ failures' = failures + 1
    /\ job' = NoJob
    /\ cache' = IF job.kind = "load" THEN NoCopy ELSE cache

\* A call of a scan that fails is passed over.
PassedOver(rest) ==
    /\ failures < MaxFailures
    /\ failures' = failures + 1
    /\ job' = rest

\* aquarius falls back to two calls when the ledger entry cannot be read.
ReadSlot ==
    /\ ~Idle
    /\ job.pc = "slot"
    /\ \/ Fails
       \/ /\ UNCHANGED <<failures, cache>>
          /\ LET read == [job EXCEPT !.copy.price = slot.price, !.copy.tick = slot.tick]
             IN  \/ job' = [read EXCEPT !.pc = "liquidity"]
                 \/ /\ venue = "aquarius_clmm"
                    /\ job' = [read EXCEPT !.pc = "commit", !.copy.liquidity = Pool.liquidity]
    /\ UNCHANGED <<venue, positions, slot, trades, provides, jobs>>

ReadLiquidity ==
    /\ ~Idle
    /\ job.pc = "liquidity"
    /\ \/ Fails
       \/ /\ job' = [job EXCEPT !.pc = "commit", !.copy.liquidity = Pool.liquidity]
          /\ UNCHANGED <<failures, cache>>
    /\ UNCHANGED <<venue, positions, slot, trades, provides, jobs>>

\* The price has left what the copy covers: the window of words scanned for
\* sushi, the initialized ticks for aquarius (a copy without ticks stays so).
NeedsRescan(copy) ==
    IF venue = "sushi" THEN OutsideRange(ScanWord(copy.tick), copy.words)
    ELSE /\ LoadedRange(copy.store) # <<>>
         /\ OutsideRange(copy.tick, LoadedRange(copy.store))

From(a, b) == [i \in 1 .. b - a + 1 |-> a + i - 1]

Scans(copy) ==
    IF venue = "sushi" THEN From(Window(copy.tick)[1], Window(copy.tick)[2]) ELSE <<"bitmap">>

Commit ==
    /\ ~Idle
    /\ job.pc = "commit"
    /\ LET scan == job.kind = "load" \/ NeedsRescan(job.copy)
       IN  /\ job' = IF scan THEN [job EXCEPT !.pc = "scan", !.todo = Scans(job.copy)] ELSE NoJob
           /\ cache' = IF job.kind = "refresh" THEN job.copy ELSE cache
    /\ UNCHANGED <<venue, positions, slot, trades, provides, jobs, failures>>

(***************************************************************************)
(* sushi: one call per word; the ticks of a word that answers are stored   *)
(* and their chunks flagged, a word that fails is passed over.             *)
(***************************************************************************)
ReadWord ==
    /\ ~Idle
    /\ venue = "sushi" /\ job.pc = "scan" /\ job.todo # <<>>
    /\ LET net == RestrictTo(Net(positions), {t \in MinTick .. MaxTick : ScanWord(t) = Head(job.todo)})
           chunks == {ChunkOf(Compress(t)) : t \in DOMAIN net}
           rest == [job EXCEPT !.todo = Tail(@)]
       IN  \/ PassedOver(rest)
           \/ /\ UNCHANGED failures
              /\ job' = [rest EXCEPT !.copy.store = [StoreTicks(@, net) EXCEPT !.chunks = @ \union chunks]]
    /\ UNCHANGED <<venue, positions, slot, trades, provides, jobs, cache>>

(***************************************************************************)
(* aquarius: the bounds of the pool, the chunk bitmap between them (a      *)
(* failure marks the copy truncated until the next load), then the ticks   *)
(* of the flagged chunks, TickBatch to a call.                             *)
(***************************************************************************)
Batches(chunks, ends) ==
    LET ticks == SelectSeq(From(Min(ends), Max(ends)),
                           LAMBDA t : t % TickSpacing = 0 /\ ChunkOf(Compress(t)) \in chunks)
        count == (Len(ticks) + TickBatch - 1) \div TickBatch
    IN  [i \in 1 .. count |->
            ToSet(SubSeq(ticks, (i - 1) * TickBatch + 1, Min({i * TickBatch, Len(ticks)})))]

ReadBitmap ==
    /\ ~Idle
    /\ venue = "aquarius_clmm" /\ job.pc = "scan" /\ job.todo = <<"bitmap">>
    /\ LET ends == Ends(positions)
           flagged == {ChunkOf(Compress(t)) : t \in ends}
           words == {WordOf(c) : c \in flagged}
           old == job.copy.store.chunks
           kept == {c \in old : WordOf(c) < Min(words) \/ WordOf(c) > Max(words)}
           next(chunks, failed) == [job EXCEPT !.copy.store.chunks = chunks,
                                               !.copy.truncated = @ \/ failed,
                                               !.pc = "ticks",
                                               !.todo = Batches(chunks, ends)]
       IN  \/ Fails
           \/ /\ job' = IF ends = {} THEN [job EXCEPT !.todo = <<>>]
                        ELSE next(kept \union flagged, FALSE)
              /\ UNCHANGED <<failures, cache>>
           \/ /\ ends # {}
              /\ PassedOver(next(old, TRUE))
              /\ UNCHANGED cache
    /\ UNCHANGED <<venue, positions, slot, trades, provides, jobs>>

ReadTicks ==
    /\ ~Idle
    /\ job.pc = "ticks" /\ job.todo # <<>>
    /\ LET net == RestrictTo(Net(positions), Head(job.todo))
           rest == [job EXCEPT !.todo = Tail(@)]
       IN  \/ PassedOver(rest)
           \/ /\ UNCHANGED failures
              /\ job' = [rest EXCEPT !.copy.store = StoreTicks(@, net)]
    /\ UNCHANGED <<venue, positions, slot, trades, provides, jobs, cache>>

ScanDone ==
    /\ ~Idle
    /\ job.pc \in {"scan", "ticks"} /\ job.todo = <<>>
    /\ cache' = IF venue = "sushi" THEN [job.copy EXCEPT !.words = Window(job.copy.tick)]
                                   ELSE job.copy
    /\ job' = NoJob
    /\ UNCHANGED <<venue, positions, slot, trades, provides, jobs, failures>>

-----------------------------------------------------------------------------
(***************************************************************************)
(* The snapshot of the copy, with the coverage it declares.                *)
(***************************************************************************)
Coverage(copy) ==
    LET range == LoadedRange(copy.store)
    IN  [complete |-> /\ range # <<>>
                      /\ IF venue = "sushi" THEN ~OutsideRange(ScanWord(copy.tick), copy.words)
                         ELSE ~copy.truncated /\ ~OutsideRange(copy.tick, range),
         range |-> range,
         words |-> IF venue = "sushi" THEN copy.words ELSE <<>>]

\* Readers are kept out while a refresh holds the write lock to read ticks.
Readable ==
    /\ cache # NoCopy
    /\ Idle \/ job.kind = "load" \/ job.pc \notin {"scan", "ticks"}

Quote(amount, zeroForOne) ==
    ClmmQuote(cache, SnapshotStore(cache.store), amount, zeroForOne, Coverage(cache))

-----------------------------------------------------------------------------
(***************************************************************************)
(* Properties.                                                             *)
(***************************************************************************)
\* The copy has the price and the liquidity of the pool, between its outermost
\* ticks exactly the ticks of the pool, and flags the chunks of its ticks only.
Current ==
    /\ cache.price = slot.price /\ cache.tick = slot.tick
    /\ cache.liquidity = Pool.liquidity
    /\ cache.store.chunks = {ChunkOf(c) : c \in Initialized(cache.store)}
    /\ LET range == LoadedRange(cache.store)
       IN  range # <<>> /\ RestrictTo(Net(positions), range[1] .. range[2]) = cache.store.net

\* A quote the guard lets through is the output of the same swap on the chain,
\* even though the copy may miss the ticks beyond its window: the guard refuses
\* every swap that would need one of them (clmm_swap_allowed), and the bitmap
\* search finds the next tick across chunks and words (find_initialized_tick).
AllowedQuotesAreExact ==
    Readable /\ Current =>
        \A amount \in TradeAmounts, zeroForOne \in BOOLEAN :
            LET quote == Quote(amount, zeroForOne)
            IN  quote # 0 => quote = ChainSwap(amount, zeroForOne).out

\* Swapping the output straight back never returns more than was put in: every
\* rounding of compute_swap_step and of the amount deltas is for the pool, so
\* that this holds for a pool without a fee too.
TickTripsNeverGain ==
    \A amount \in TradeAmounts, zeroForOne \in BOOLEAN :
        LET there == ChainSwap(amount, zeroForOne)
            net == Net(positions)
            back == SwapFrom(NextTick(net, ~zeroForOne), there, net, there.out, ~zeroForOne)
        IN  there # NoSwap /\ there.liquidity > 0 => back.out <= amount

-----------------------------------------------------------------------------
Init ==
    /\ venue \in {"sushi", "aquarius_clmm"}
    /\ positions = FirstPositions
    /\ slot = [price |-> SqrtRatio[0], tick |-> 0]
    /\ trades = 0 /\ provides = 0 /\ jobs = 0 /\ failures = 0
    /\ cache = NoCopy
    /\ job = NoJob

Next ==
    \/ \E amount \in TradeAmounts, zeroForOne \in BOOLEAN : Trade(amount, zeroForOne)
    \/ \E p \in Candidates : Provide(p)
    \/ Load \/ Refresh \/ ReadSlot \/ ReadLiquidity \/ Commit
    \/ ReadWord \/ ReadBitmap \/ ReadTicks \/ ScanDone

Spec == Init /\ [][Next]_vars
=============================================================================

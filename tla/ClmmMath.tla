------------------------------ MODULE ClmmMath ------------------------------
(***************************************************************************)
(* The concentrated-liquidity mathematics of                               *)
(* crates/dex-adapters/src/clmm_math.rs: the rounding of the amount deltas,*)
(* the step of a swap inside one tick range, the three-level bitmap search *)
(* of the next initialized tick, the loop of a whole swap, and the guard   *)
(* that decides whether the locally loaded ticks are enough to quote.      *)
(*                                                                         *)
(* Numbers are unbounded (the code computes in 256 bits with 512-bit       *)
(* products, and the prices and liquidities of the instances stay far      *)
(* below).  The scales are constants: Q96 is the fixed point, SqrtRatio    *)
(* the strictly increasing table of sqrt_ratio_at_tick, ChunkTicks and     *)
(* WordBits the 16 and 256 of the bitmaps.                                 *)
(***************************************************************************)
EXTENDS Integers, FiniteSets, FiniteSetsExt

CONSTANTS Q96, MinTick, MaxTick, TickSpacing, SqrtRatio,
          ChunkTicks, WordBits, FeeDenominator, MaxIterations

ASSUME TicksAssumption == /\ MinTick < MaxTick
                          /\ TickSpacing \in Nat \ {0}
                          /\ SqrtRatio \in [MinTick .. MaxTick -> Nat \ {0}]
                          /\ \A t \in MinTick .. MaxTick - 1 : SqrtRatio[t] < SqrtRatio[t + 1]

NoSwap == [out |-> 0, price |-> 0, tick |-> 0, liquidity |-> 0, charge |-> 0]

MulDiv(a, b, d, up) == IF up THEN (a * b + d - 1) \div d ELSE (a * b) \div d

SatSub(a, b) == IF a < b THEN 0 ELSE a - b

Clamp(t) == IF t < MinTick THEN MinTick ELSE IF t > MaxTick THEN MaxTick ELSE t

TickAt(price) == CHOOSE t \in MinTick .. MaxTick :
                    /\ SqrtRatio[t] <= price
                    /\ t = MaxTick \/ price < SqrtRatio[t + 1]

(***************************************************************************)
(* Amounts between two prices, and the price an input leads to.            *)
(***************************************************************************)
Amount0Delta(a, b, liquidity, up) ==
    LET lo == Min({a, b})  hi == Max({a, b})
    IN  MulDiv(MulDiv(liquidity * Q96, hi - lo, hi, up), 1, lo, up)

Amount1Delta(a, b, liquidity, up) ==
    MulDiv(liquidity, Max({a, b}) - Min({a, b}), Q96, up)

NextPriceFromInput(price, liquidity, amount, zeroForOne) ==
    CASE ~zeroForOne -> price + MulDiv(amount, Q96, liquidity, FALSE)
      [] zeroForOne /\ amount = 0 -> price
      [] OTHER -> MulDiv(liquidity * Q96, price, liquidity * Q96 + amount * price, TRUE)

(***************************************************************************)
(* One step inside a tick range, exact input: the price goes to the target *)
(* when the input net of the fee pays for the whole range.                 *)
(***************************************************************************)
AmountIn(price, next, liquidity, zeroForOne) ==
    IF zeroForOne THEN Amount0Delta(next, price, liquidity, TRUE)
                  ELSE Amount1Delta(price, next, liquidity, TRUE)

\* Mutant: the output of a step is rounded up.
AmountOutRoundedUp(price, next, liquidity, zeroForOne) ==
    IF zeroForOne THEN Amount1Delta(next, price, liquidity, TRUE)
                  ELSE Amount0Delta(price, next, liquidity, TRUE)

AmountOut(price, next, liquidity, zeroForOne) ==
    IF zeroForOne THEN Amount1Delta(next, price, liquidity, FALSE)
                  ELSE Amount0Delta(price, next, liquidity, FALSE)

ComputeSwapStep(price, target, liquidity, remaining, charge, zeroForOne) ==
    LET lessFee == MulDiv(remaining, FeeDenominator - charge, FeeDenominator, FALSE)
        computed == NextPriceFromInput(price, liquidity, lessFee, zeroForOne)
        reaches == lessFee >= AmountIn(price, target, liquidity, zeroForOne)
        next == CASE reaches -> target
                  [] zeroForOne -> Max({computed, target})
                  [] OTHER -> Min({computed, target})
        in == AmountIn(price, next, liquidity, zeroForOne)
    IN  IF liquidity = 0
        THEN [next |-> target, in |-> 0, out |-> 0, fee |-> 0]
        ELSE [next |-> next, in |-> in,
              out |-> AmountOut(price, next, liquidity, zeroForOne),
              fee |-> IF next = target THEN MulDiv(in, charge, FeeDenominator - charge, TRUE)
                                       ELSE SatSub(remaining, in)]

(***************************************************************************)
(* A tick store: the net liquidity of the initialized ticks, the chunks    *)
(* flagged in the chunk bitmap, the words flagged in the level-2 bitmap.   *)
(* Positions in the bitmaps are in units of the tick spacing.              *)
(***************************************************************************)
EmptyStore == [net |-> [t \in {} |-> 0], chunks |-> {}, words |-> {}]

Compress(t) == t \div TickSpacing
ChunkOf(c) == c \div ChunkTicks
WordOf(chunk) == chunk \div WordBits
Initialized(store) == {Compress(t) : t \in DOMAIN store.net}
InChunk(store, chunk) == {c \in Initialized(store) : ChunkOf(c) = chunk}

\* The store that a snapshot of the pool carries: the level-2 bitmap is
\* derived from the chunk bitmap when the adapter has none.
SnapshotStore(store) ==
    [store EXCEPT !.words = IF @ = {} THEN {WordOf(c) : c \in store.chunks} ELSE @]

Nearest(S, down) == IF down THEN Max(S) ELSE Min(S)
Beyond(S, x, down) == {y \in S : IF down THEN y < x ELSE y > x}

\* The nearest flagged word in the current level-2 word, else in the adjacent one.
AdjacentWord(store, word, down) ==
    LET same == {w \in Beyond(store.words, word, down) : WordOf(w) = WordOf(word)}
        next == {w \in store.words : WordOf(w) = WordOf(word) + (IF down THEN -1 ELSE 1)}
    IN  IF same # {} THEN same ELSE next

FindInitializedTick(store, tick, down) ==
    LET from == IF down THEN Compress(tick) ELSE Compress(tick) + 1
        chunk == ChunkOf(from)
        word == WordOf(chunk)
        here == {c \in InChunk(store, chunk) : IF down THEN c <= from ELSE c >= from}
        flagged == {k \in Beyond(store.chunks, chunk, down) : WordOf(k) = word}
        inWord == IF flagged = {} THEN {} ELSE InChunk(store, Nearest(flagged, down))
        adjacent == AdjacentWord(store, word, down)
        far == IF adjacent = {} THEN {}
               ELSE {k \in store.chunks : WordOf(k) = Nearest(adjacent, down)}
        inFar == IF far = {} THEN {} ELSE InChunk(store, Nearest(far, down))
        edge == IF down THEN word * WordBits * ChunkTicks
                        ELSE (word + 1) * WordBits * ChunkTicks - 1
        found(S) == [tick |-> Clamp(Nearest(S, down) * TickSpacing), initialized |-> TRUE]
    IN  CASE here # {} -> found(here)
          [] here = {} /\ inWord # {} -> found(inWord)
          [] here = {} /\ inWord = {} /\ inFar # {} -> found(inFar)
          [] OTHER -> [tick |-> Clamp(edge * TickSpacing), initialized |-> FALSE]

(***************************************************************************)
(* A whole swap.  find[tick] is the tick the loop goes for: what the bitmap*)
(* search above finds in the code, the nearest one in the reference.       *)
(***************************************************************************)
LoadedRange(store) ==
    IF store.net = EmptyStore.net THEN <<>>
    ELSE <<Min(DOMAIN store.net), Max(DOMAIN store.net)>>

OutsideRange(tick, range) == range = <<>> \/ tick < range[1] \/ tick > range[2]

\* The word of the pool contract's own bitmap, WordBits compressed ticks wide.
ScanWord(tick) == Compress(tick) \div WordBits

PriceLimit(zeroForOne) == IF zeroForOne THEN SqrtRatio[MinTick] + 1 ELSE SqrtRatio[MaxTick] - 1

\* Where a swap stands after a step towards the price of target.
After(net, zeroForOne, s, target, step) ==
    LET crosses == step.next = SqrtRatio[target.tick] /\ target.initialized
        delta == IF zeroForOne THEN -net[target.tick] ELSE net[target.tick]
    IN  [s EXCEPT !.price = step.next,
                  !.remaining = SatSub(SatSub(@, step.in), step.fee),
                  !.out = @ + step.out,
                  !.liquidity = IF crosses THEN SatSub(@ + delta, 0) ELSE @,
                  !.tick = CASE crosses -> Clamp(IF zeroForOne THEN target.tick - 1 ELSE target.tick)
                             [] ~crosses /\ step.next # s.start -> TickAt(step.next)
                             [] OTHER -> @]

Towards(net, zeroForOne, s, target) ==
    LET price == SqrtRatio[target.tick]
        bound == IF zeroForOne THEN Max({price, PriceLimit(zeroForOne)})
                               ELSE Min({price, PriceLimit(zeroForOne)})
    IN  After(net, zeroForOne, s, target,
              ComputeSwapStep(s.price, bound, s.liquidity, s.remaining, s.charge, zeroForOne))

RECURSIVE SwapLoop(_, _, _, _, _)
SwapLoop(find, net, zeroForOne, s, n) ==
    IF s.remaining = 0 \/ s.price = PriceLimit(zeroForOne) \/ n = 0 THEN s
    ELSE SwapLoop(find, net, zeroForOne, Towards(net, zeroForOne, s, find[s.tick]), n - 1)

Result(end) ==
    IF end.out = 0 THEN NoSwap
    ELSE [out |-> end.out, price |-> end.price, tick |-> end.tick,
          liquidity |-> end.liquidity, charge |-> end.charge]

SwapFrom(find, pool, net, amount, zeroForOne) ==
    Result(SwapLoop(find, net, zeroForOne,
                    [price |-> pool.price, tick |-> pool.tick, liquidity |-> pool.liquidity,
                     remaining |-> amount, out |-> 0, start |-> pool.price, charge |-> pool.charge],
                    MaxIterations))

SimulateSwap(pool, store, amount, zeroForOne) ==
    IF amount = 0 \/ pool.liquidity = 0 \/ OutsideRange(pool.tick, LoadedRange(store)) THEN NoSwap
    ELSE SwapFrom([t \in MinTick .. MaxTick |-> FindInitializedTick(store, t, zeroForOne)],
                  pool, store.net, amount, zeroForOne)

(***************************************************************************)
(* The guard of a local quote: the coverage the snapshot declares, and the *)
(* swap ends inside the ticks that were loaded.                            *)
(***************************************************************************)
QuoteAllowed(tick, store, coverage) ==
    /\ coverage.complete
    /\ store.net # EmptyStore.net
    /\ coverage.words = <<>> \/ ~OutsideRange(ScanWord(tick), coverage.words)
    /\ ~OutsideRange(tick, coverage.range)

\* Mutant: the end of the swap is not compared with the loaded ticks.
EndsLoadedAlways(swap, range, coverage) == swap # NoSwap

\* The swap ends inside the ticks that were loaded.
EndsLoaded(swap, range, coverage) ==
    /\ swap # NoSwap
    /\ ~OutsideRange(swap.tick, <<Min({coverage.range[1], range[1]}), Max({coverage.range[2], range[2]})>>)

Checked(swap, store, coverage) ==
    IF EndsLoaded(swap, LoadedRange(store), coverage) THEN swap.out ELSE 0

ClmmQuote(pool, store, amount, zeroForOne, coverage) ==
    IF QuoteAllowed(pool.tick, store, coverage)
    THEN Checked(SimulateSwap(pool, store, amount, zeroForOne), store, coverage) ELSE 0
=============================================================================

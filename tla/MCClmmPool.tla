---------------------------- MODULE MCClmmPool ----------------------------
(***************************************************************************)
(* A pool of sixteen ticks, two ticks to a chunk, two chunks to a word and *)
(* two words to a level-2 word, so that a swap of a few units crosses every*)
(* kind of boundary.  SqrtRatios is 64 * 1.12^t, rounded.  Beside it stable*)
(* and weighted pools, whose state it does not share: a behaviour is one of*)
(* either.                                                                 *)
(***************************************************************************)
EXTENDS ClmmPool, CurvePool

LowTick == -8
SqrtRatios == [t \in -8 .. 7 |->
                 <<26, 29, 32, 36, 41, 46, 51, 57, 64, 72, 80, 90, 101, 113, 126, 141>>[t + 9]]

Fees == [sushi |-> 3, aquarius_clmm |-> 0]

Wide == [lo |-> -7, hi |-> 6, l |-> 60]
Near == [lo |-> -2, hi |-> 1, l |-> 40]
Far  == [lo |-> -6, hi |-> -3, l |-> 30]
High == [lo |-> 2, hi |-> 5, l |-> 50]

AllPositions == {Near, Far, High}
StartPositions == {Wide, Near}

Stable(reserves, scale, amp) ==
  [kind |-> "stable", reserves |-> reserves, scale |-> scale, amp |-> amp, fee |-> 30]
Weighted(reserves, weights, fee) ==
  [kind |-> "weighted", reserves |-> reserves, scale |-> [i \in DOMAIN reserves |-> 100],
   weights |-> weights, fee |-> fee]
SomePools ==
  {Stable(<<60, 60, 40>>, <<1, 1, 1>>, 5), Stable(<<300, 40>>, <<1, 10>>, 2),
   Weighted(<<160, 40>>, <<80, 20>>, 3), Weighted(<<100, 90>>, <<50, 50>>, 0),
   Weighted(<<100, 90, 120>>, <<30, 50, 20>>, 3)}

VARIABLE part

MCInit ==
  /\ Init /\ CurveInit
  /\ part \in {"ticks", "curve"}
  /\ part = "curve" => venue = "sushi"
  /\ part = "ticks" => curve = CHOOSE c \in CurvePools : TRUE

MCNext ==
  /\ UNCHANGED part
  /\ \/ part = "ticks" /\ Next /\ UNCHANGED curvevars
     \/ part = "curve" /\ CurveNext /\ UNCHANGED vars

MCSpec == MCInit /\ [][MCNext]_<<vars, curvevars, part>>

\* No pool pays for a swap that is taken back: not one with ticks, not a stable or
\* weighted one (compute_swap_step, get_dy, calc_out_given_in).
RoundTripsNeverGain ==
  IF part = "ticks" THEN TickTripsNeverGain ELSE CurveTripsNeverGain
=============================================================================

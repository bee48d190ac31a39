------------------------------ MODULE CurvePool ------------------------------
(***************************************************************************)
(* Pools that are quoted with an approximated curve: the stable swap of    *)
(* stable_math.rs, whose invariant and balances are found by Newton's      *)
(* method, and the weighted pools of comet_math.rs, whose powers are a     *)
(* repeated square and a binomial series in fixed point.                   *)
(*                                                                         *)
(* A pool is traded on with the quotes themselves, as the contracts compute*)
(* the same.  Numbers are unbounded; the saturation of the code, and the   *)
(* floating-point division it falls back to when a product needs more than *)
(* 128 bits, are not reached.                                              *)
(***************************************************************************)
EXTENDS Integers, Sequences, SequencesExt

CONSTANTS
  CurvePools,   \* pools at the start: kind, reserves, scale; amp; weights; fee
  CurveAmounts, \* inputs; bound: at most the pool's balance of the token
  MaxSwaps,     \* bound: swaps of a behaviour
  FeeUnit,      \* 10 000: FEE_DENOMINATOR
  Stroop, Bone, \* units of weights and fees, and of fixed-point numbers
  TermFloor,    \* CPOW_PRECISION
  Iterations,   \* 255
  Terms         \* 50

ASSUME CurveAssumption ==
  /\ {Iterations, Terms, MaxSwaps, TermFloor} \subseteq Nat
  /\ {FeeUnit, Stroop, Bone} \subseteq Nat \ {0} /\ Bone % Stroop = 0

VARIABLES
  curve,   \* the pool
  swapped  \* bound: swaps so far

curvevars == <<curve, swapped>>

-----------------------------------------------------------------------------
(***************************************************************************)
(* The stable swap.  Newton's method ends when a step moves by one at most.*)
(***************************************************************************)
RECURSIVE Newton(_, _, _)
Newton(step, x, n) ==
  LET next == step[x]
  IN IF n = 0 THEN x
     ELSE IF next - x \in -1 .. 1 THEN next ELSE Newton(step, next, n - 1)

\* d^(k+1) over the product of n times the given balances.
Spread(balances, n, d) == FoldLeft(LAMBDA p, x : (p * d) \div (x * n), d, balances)

Sum(balances) == FoldLeft(LAMBDA s, x : s + x, 0, balances)

\* get_d.
StableD(xp, amp) ==
  LET n == Len(xp)
      ann == amp * n
      step == [d \in Int |-> LET p == Spread(xp, n, d)
                             IN ((ann * Sum(xp) + p * n) * d) \div ((ann - 1) * d + (n + 1) * p)]
  IN IF 0 \in Range(xp) THEN 0 ELSE Newton(step, Sum(xp), Iterations)

\* get_y: the balance of token j that belongs to a balance x of token i.
StableY(xp, amp, i, j, x) ==
  LET n == Len(xp)
      d == StableD(xp, amp)
      others == RemoveAt([xp EXCEPT ![i] = x], j)
      c == (Spread(others, n, d) * d) \div (amp * n * n)
      b == Sum(others) + d \div (amp * n)
  IN IF 0 \in Range(others) THEN 0
     ELSE Newton([y \in Int |-> (y * y + c) \div (2 * y + b - d)], d, Iterations)

\* get_dy: the fee is rounded up, the output down by one unit more.
StableOut(pool, i, j, dx) ==
  LET xp == [k \in DOMAIN pool.reserves |-> pool.reserves[k] * pool.scale[k]]
      lessFee == dx - (dx * pool.fee + FeeUnit - 1) \div FeeUnit
      y == StableY(xp, pool.amp, i, j, xp[i] + lessFee * pool.scale[i])
  IN IF dx = 0 \/ y = 0 \/ xp[j] <= y THEN 0 ELSE (xp[j] - y - 1) \div pool.scale[j]

-----------------------------------------------------------------------------
(***************************************************************************)
(* The weighted pool.  Fixed-point products and quotients are rounded      *)
(* towards zero, whatever their sign.                                      *)
(***************************************************************************)
Towards0(a, b) == IF (a < 0) = (b < 0) THEN a \div b ELSE -((-a) \div b)
Times(a, b) == Towards0(a * b, Bone)
Over(a, b) == Towards0(a * Bone, b)

\* c_powi: repeated squaring.
RECURSIVE WholePower(_, _)
WholePower(a, n) ==
  LET square == WholePower(Times(a, a), n \div 2)
  IN CASE n = 0 -> Bone
       [] n = 1 -> a
       [] n > 1 /\ n % 2 = 0 -> square
       [] OTHER -> Times(a, square)

\* c_pow_approx: the binomial series of base^exp, until a term is small.
RECURSIVE Series(_, _, _, _, _)
Series(base, exp, k, term, sum) ==
  LET next == Over(Times(term, Times(exp - (k - 1) * Bone, base - Bone)), k * Bone)
  IN CASE k > Terms -> sum
       [] k <= Terms /\ next \in -TermFloor .. TermFloor -> sum + next
       [] OTHER -> Series(base, exp, k + 1, next, sum + next)

\* c_pow.
Power(base, exp) ==
  LET whole == WholePower(base, exp \div Bone)
      series == Series(base, exp % Bone, 1, Bone, Bone)
  IN CASE base <= 0 -> 0
       [] base > 2 * Bone - 1 -> Bone
       [] base \in 1 .. 2 * Bone - 1 /\ exp % Bone = 0 -> whole
       [] OTHER -> Times(whole, IF series > 0 THEN series ELSE 0)

\* calc_out_given_in.
WeightedOut(pool, i, j, amount) ==
  LET unit == Bone \div Stroop
      balance(k) == pool.reserves[k] * pool.scale[k]
      adjusted == Times(amount * pool.scale[i], (Stroop - pool.fee) * unit)
      ratio == ((pool.weights[i] * Stroop) \div pool.weights[j]) * unit
      left == Power(Over(balance(i), balance(i) + adjusted), ratio)
  IN IF amount = 0 \/ pool.reserves[i] = 0 \/ pool.reserves[j] = 0 \/ left >= Bone THEN 0
     ELSE Times(balance(j), Bone - left) \div pool.scale[j]

-----------------------------------------------------------------------------
\* stable_swap_quote_multi and quote_comet_pool.
CurveOut(pool, i, j, amount) ==
  IF pool.kind = "stable" THEN StableOut(pool, i, j, amount) ELSE WeightedOut(pool, i, j, amount)

Traded(pool, i, j, amount) ==
  [pool EXCEPT !.reserves[i] = @ + amount, !.reserves[j] = @ - CurveOut(pool, i, j, amount)]

CurveInit == curve \in CurvePools /\ swapped = 0

Swap(i, j, amount) ==
  /\ swapped < MaxSwaps
  /\ CurveOut(curve, i, j, amount) > 0
  /\ curve' = Traded(curve, i, j, amount)
  /\ swapped' = swapped + 1

Directions == {d \in (DOMAIN curve.reserves) \X (DOMAIN curve.reserves) : d[1] # d[2]}

Small(d) == {a \in CurveAmounts : a <= curve.reserves[d[1]]}

CurveNext == \E d \in Directions : \E amount \in Small(d) : Swap(d[1], d[2], amount)

CurveSpec == CurveInit /\ [][CurveNext]_curvevars

(***************************************************************************)
(* Swapping the output straight back never returns more than was put in,   *)
(* wherever earlier swaps have left the balances: the invariant is found   *)
(* only up to a unit and the powers up to a term of the series, but a      *)
(* stable pool keeps a unit and a weighted one a fee (get_dy,              *)
(* calc_out_given_in).                                                     *)
(***************************************************************************)
CurveTripsNeverGain ==
  \A d \in Directions : \A amount \in Small(d) :
    LET out == CurveOut(curve, d[1], d[2], amount)
    IN out > 0 => CurveOut(Traded(curve, d[1], d[2], amount), d[2], d[1], out) <= amount
=============================================================================

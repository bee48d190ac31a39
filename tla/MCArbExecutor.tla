--------------------------- MODULE MCArbExecutor ---------------------------
(***************************************************************************)
(* An instance of ArbExecutor small enough for TLC: two attempts compete   *)
(* for one route and one caller.                                           *)
(***************************************************************************)
EXTENDS ArbExecutor

CONSTANTS a1, a2, r1, c1

TwoAttempts == {a1, a2}
OneRoute == {r1}
OneCaller == {c1}
=============================================================================

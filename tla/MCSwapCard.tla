----------------------------- MODULE MCSwapCard -----------------------------
(***************************************************************************)
(* A swap from the form of the page to the list of swaps: instances of     *)
(* SwapCard, AccountBalances, TradeIndexer and SwapHistory for TLC.  What  *)
(* one of them hears from another (balances, rows of the table, the event  *)
(* after a swap) it takes in every form and at any time, so they share no  *)
(* state: a behaviour is one of either of them.                            *)
(*                                                                         *)
(* The indexed trades are a successful transaction, whose two steps have   *)
(* the same place in their routes and the same pool, and a failed one; the *)
(* rows of the table come in two seconds, two of one wallet.               *)
(***************************************************************************)
EXTENDS SwapCard, AccountBalances, TradeIndexer, SwapHistory

CONSTANTS xlm, usdc, eurc, alice, bob

XlmUsdc == <<xlm, usdc>>

TwoTrades ==
  <<[ok |-> TRUE, hops |-> <<[at |-> 1, amount |-> 2], [at |-> 1, amount |-> 3]>>],
    [ok |-> FALSE, hops |-> <<[at |-> 1, amount |-> 4]>>]>>

Swapped(at, hash, user, trip) == [at |-> at, hash |-> hash, user |-> user, trip |-> trip]
SomeSwaps == {Swapped(1, 1, alice, TRUE), Swapped(1, 2, alice, TRUE), Swapped(2, 1, bob, TRUE)}

VARIABLE part

MCInit ==
  /\ CardInit /\ BalancesInit /\ TradesInit /\ HistoryInit
  /\ part \in {"card", "balances", "trades", "history"}
  /\ part # "balances" => address = alice
  /\ part # "card" => link = <<>> /\ storage /\ form.limits = CHOOSE l \in Limits : TRUE
  /\ part # "history" => list = "swaps" /\ table = {}

MCNext ==
  /\ UNCHANGED part
  /\ \/ part = "card" /\ CardNext /\ UNCHANGED <<bvars, tradevars, shvars>>
     \/ part = "balances" /\ BalancesNext /\ UNCHANGED <<cardvars, tradevars, shvars>>
     \/ part = "trades" /\ TradesNext /\ UNCHANGED <<cardvars, bvars, shvars>>
     \/ part = "history" /\ HistoryNext /\ UNCHANGED <<cardvars, bvars, tradevars>>

MCSpec == MCInit /\ [][MCNext]_<<cardvars, bvars, tradevars, shvars, part>>
=============================================================================

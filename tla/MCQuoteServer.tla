---------------------------- MODULE MCQuoteServer ----------------------------
(***************************************************************************)
(* Three tokens: two pools from A to B, a way over C, a pool of three      *)
(* tokens that must be left out, and the order book.  The second snapshot  *)
(* has lost a pool and has a new one.                                      *)
(***************************************************************************)
EXTENDS QuoteServer, TLC

Pair(source, pool, a, b) == [source |-> source, pool |-> pool, a |-> a, b |-> b]

First == << Pair("soroswap", "s", "A", "B"), Pair("soroswap", "x", "B", "A"), Pair("phoenix", "p", "A", "C"),
            Pair("aquarius", "q", "C", "B"), Pair("aquarius", "t", "A", "B"),
            Pair("aquarius", "t", "A", "D"), Pair("aquarius", "t", "D", "B") >>

History == <<First, <<Pair("soroswap", "y", "A", "B")>> \o SelectSeq(First, LAMBDA p : p.pool # "s")>>

Classic == << Pair("classic_dex", "c", "A", "B") >>

State(tokens, reserves, fee) == [tokens |-> tokens, reserves |-> reserves, fee |-> fee]

Pools == [p \in {"s", "x", "y", "p", "q", "t"} |->
             CASE p = "s" -> State(<<"A", "B">>, <<100, 100>>, 30)
               [] p = "x" -> State(<<"B", "A">>, <<120, 130>>, 30)
               [] p = "y" -> State(<<"A", "B">>, <<90, 95>>, 30)
               [] p = "p" -> State(<<"A", "C">>, <<100, 110>>, 100)
               [] p = "q" -> State(<<"C", "B">>, <<200, 190>>, 10)
               [] p = "t" -> State(<<"A", "D", "B">>, <<100, 100, 100>>, 10)]

Query(amount, slippage, splits, prefer, validate) ==
    [in |-> "A", out |-> "B", amount |-> amount, slippage |-> slippage, hops |-> 3,
     splits |-> splits, preferSoroban |-> prefer, validate |-> validate]

Asks == {Query(40, 50, 3, FALSE, TRUE), Query(40, 9900, 2, TRUE, FALSE), Query(10, 5000, 1, FALSE, FALSE)}
Symmetric == Permutations(Requests)
=============================================================================

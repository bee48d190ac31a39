--------------------------- MODULE MCOrderEscrow ---------------------------
(***************************************************************************)
(* Instances of OrderEscrow small enough for TLC.                          *)
(***************************************************************************)
EXTENDS OrderEscrow

CONSTANTS o1, XLM, USDC

OneWay == {<<XLM, USDC>>}
BothWays == {<<XLM, USDC>>, <<USDC, XLM>>}

\* The kinds of orders a run creates.
OneOfEach == [limit |-> 1, dca |-> 1]
=============================================================================

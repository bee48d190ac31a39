--------------------------- MODULE MCLimitKeeper ---------------------------
(***************************************************************************)
(* Instances of LimitKeeper small enough for TLC.                          *)
(***************************************************************************)
EXTENDS LimitKeeper

OneLimit == {<<"limit", 0>>}
OneDca == {<<"dca", 0>>}
OneOfEach == {<<"limit", 0>>, <<"dca", 0>>}
=============================================================================

--------------------------- MODULE MCOrderIndexer ---------------------------
(***************************************************************************)
(* Instances of OrderIndexer small enough for TLC.                         *)
(***************************************************************************)
EXTENDS OrderIndexer

OneLimit == {<<"limit", 0>>}
OneDca == {<<"dca", 0>>}
=============================================================================

--------------------------- MODULE MCOfflineSales ---------------------------
(* Small instances of OfflineSales for TLC. *)
EXTENDS OfflineSales, TLC

CONSTANTS d1, d2, t1, t2

MCOneTab   == (t1 :> d1)
MCTwoTabs  == (t1 :> d1) @@ (t2 :> d1)
=============================================================================

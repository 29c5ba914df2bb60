--------------------------- MODULE MCCashierShift ---------------------------
(* Small instances of CashierShift for TLC. *)
EXTENDS CashierShift

MCOne     == {1}
MCTwo     == {2}
MCFloats  == {0, 2}
MCPerhaps == BOOLEAN
=============================================================================

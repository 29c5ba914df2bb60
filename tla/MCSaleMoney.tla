---------------------------- MODULE MCSaleMoney ----------------------------
(* Small instances of SaleMoney and Dashboard for TLC. *)
EXTENDS Dashboard

MCNoDiscount == [type |-> "FIXED", value |-> 0]
MCHalf       == [type |-> "PERCENTAGE", value |-> 50]

MCDiscounts  == {MCNoDiscount, MCHalf}
=============================================================================

----------------------------- MODULE MCTillCart -----------------------------
(* The cart for TLC: amounts small enough for discounts to leave half a cent, *)
(* to exceed a line that has become smaller, and to go below a cost that has  *)
(* risen with the price.                                                      *)
EXTENDS TillCart

MCItems     == {"bolt"}
MCTariffs   == <<[bolt |-> [price |-> 5, cost |-> 2]], [bolt |-> [price |-> 7, cost |-> 4]]>>
MCDiscounts == {[type |-> "PERCENTAGE", value |-> 10], [type |-> "FIXED", value |-> 4]}
=============================================================================

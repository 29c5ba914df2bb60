-------------------------- MODULE MCFifoInventory --------------------------
(* Small instances of FifoInventory for TLC. *)
EXTENDS FifoInventory, TLC

MCQuantities == 1 .. 2
MCCounts     == {1}
MCOpening    == {-1, 2}
MCStocked    == {2}

\* Sale lines are interchangeable.
MCSymmetry == Permutations(Sales)
=============================================================================

-------------------------- MODULE MCStockIsolation --------------------------
(* Small instances of StockIsolation for TLC. *)
EXTENDS StockIsolation, TLC

MCCounts  == {0, 2}
MCOpening == {0, 2}

\* Transactions of one kind are interchangeable.
MCSymmetry ==
  Permutations(Sellers) \cup Permutations(Receivers) \cup Permutations(Counters)
    \cup Permutations(Reviewers)
=============================================================================

\* Two lines of one product, delivered on one day: returns, voids, shortages,
\* receipts and counts in every order.  Stock may be overdrawn when FIFO starts.
CONSTANTS
  MaxBatches = 3
  Sales = {s1, s2}
  s1 = s1
  s2 = s2
  Quantities <- MCQuantities
  Counts <- MCCounts
  OpeningStock <- MCOpening
  Today = 1
SPECIFICATION Spec
SYMMETRY MCSymmetry
INVARIANTS
  TypeOK
  StockMatchesBatches
  ReturnsFit
  StatusTellsBalance
PROPERTY ImplementsPosition
CHECK_DEADLOCK FALSE

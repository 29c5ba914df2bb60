\* Two receipts of one sale and a test page in the chain, with a restart.
\* Requests are served once, so every state may be final.
CONSTANTS
  j1 = j1
  j2 = j2
  t1 = t1
  x1 = x1
  Receipts = {j1, j2}
  Tests = {t1}
  Sales = {x1}
  SaleOf <- MCSaleOf
  HasFallback = TRUE
  MaxCrashes = 1
SPECIFICATION Spec
INVARIANTS
  PrintedIsOnPaper
PROPERTIES
  NoInterleaving
  JobsEnd
CHECK_DEADLOCK FALSE

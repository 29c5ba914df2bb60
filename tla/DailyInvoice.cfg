CONSTANTS
  s1 = s1
  o1 = o1
  c1 = c1
  w1 = w1
  Shifts = {s1}
  MaxSales = 1
  Openers = {o1}
  Movers = {}
  Correctors = {}
  Closers = {c1}
  Sweeps = {w1}
  Amounts <- MCOne
  Changes <- MCZero
  Floats <- MCZero
  RunShort <- MCNever
  MaxDay = 1
  MaxFaults = 1
SPECIFICATION DaySpec
INVARIANTS
  InvoicesMissOnlyLateWork
  InvoicedOnce
CHECK_DEADLOCK FALSE

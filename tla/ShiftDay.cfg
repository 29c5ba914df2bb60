CONSTANTS
  k1 = k1
  s1 = s1
  o1 = o1
  m1 = m1
  c1 = c1
  w1 = w1
  Shifts = {s1}
  MaxSales = 1
  Openers = {o1}
  Movers = {m1}
  Correctors = {k1}
  Closers = {c1}
  Sweeps = {w1}
  Amounts <- MCTwo
  Changes <- MCOne
  Floats <- MCFloats
  RunShort <- MCPerhaps
  MaxDay = 1
  MaxFaults = 1
SPECIFICATION FairSpec
INVARIANTS
  UnacknowledgedShortagesWereUnseen
  ExpectedShortByChange
  
PROPERTIES
  SchedulerNeverOverrides
  ExpiredShiftCloses
  ClosesAreRecorded
CHECK_DEADLOCK FALSE

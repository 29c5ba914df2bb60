CONSTANTS
  d1 = d1
  d2 = d2
  t1 = t1
  t2 = t2
  MaxSales = 1
  Devices = {d1}
  Tabs = {t1,t2}
  DeviceOf <- MCTwoTabs
  Unapproved = {}
  Closers = {t1}
  Strangers = TRUE
  AutoCloses = FALSE
  Lapses = TRUE
SPECIFICATION Spec
INVARIANTS OneSalePerId ReceiptsKept
PROPERTY PutBackWasRecorded
CHECK_DEADLOCK FALSE

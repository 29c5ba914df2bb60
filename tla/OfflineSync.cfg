CONSTANTS
  d1 = d1
  d2 = d2
  t1 = t1
  t2 = t2
  MaxSales = 2
  Devices = {d1}
  Tabs = {t1}
  DeviceOf <- MCOneTab
  Unapproved = {1}
  Closers = {}
  Strangers = FALSE
  AutoCloses = TRUE
  Lapses = TRUE
SPECIFICATION FairSpec
PROPERTY QueuedSalesSync
CHECK_DEADLOCK FALSE

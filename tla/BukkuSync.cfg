\* Two items that claim one SKU, and a product of a manager's that has it too.
CONSTANTS
  x = x
  z = z
  None = None
  MaxItems = 2
  MaxProducts = 4
  MaxVersion = 2
  MaxLocal = 1
  MaxFaults = 1
  Managed = {1}
  Skus = {x, z}
  SkuOf <- MCSkuOf
  Creatable = {x}
  Spare = {z}
  Mappable = {2}
  Archives <- MCArchives
  Bundles <- MCBundles
SPECIFICATION Spec
INVARIANTS
  StalePricesWereMissed
  OneRowEach
PROPERTIES
  EditsSurviveRuns
  ItemsConverge
CHECK_DEADLOCK FALSE

\* Three files: one creates, one moves stock, one deletes; two requests commit each.
CONSTANTS
  x = x
  y = y
  None = None
  MaxFiles = 3
  Contents <- MCContents
  MaxCommits = 2
  MaxSold = 2
  MaxItems = 1
  MaxProducts = 2
  MaxLocal = 2
  Managed = {1}
  MaxVersion = 0
  Skus = {x, y}
  SkuOf <- MCSkuOf
  Creatable = {x}
  Spare = {y}
  Mappable = {1}
SPECIFICATION UploadSpec
INVARIANT BatchesApplyOnce
CHECK_DEADLOCK FALSE

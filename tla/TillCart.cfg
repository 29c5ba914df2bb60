\* Two lines of one product, four changes, two checkouts; the till rests when its
\* bounds are used up.
SPECIFICATION CartSpec
CONSTANTS
  Items <- MCItems
  Tariffs <- MCTariffs
  Discounts <- MCDiscounts
  CreditValue = 7
  MaxLines = 2
  MaxEdits = 4
  MaxQuantity = 20000
  MaxCalls = 2
INVARIANTS
  LinesSoldOnce
  ShownIsSold

  
CHECK_DEADLOCK FALSE

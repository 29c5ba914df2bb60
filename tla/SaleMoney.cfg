\* A sale and what becomes of it: returns in parts, a replacement, a void.
CONSTANTS
  MaxSales = 2
  MaxReturns = 2
  MaxShifts = 2
  Sold = {2}
  Quantities = {1, 2}
  Prices = {3}
  Discounts <- MCDiscounts
  Amounts = {1, 3}
  MaxPayments = 2
SPECIFICATION Spec
INVARIANTS
  CreditsAddUp
  BooksBalance
  ReturnsWithinLine
  CashRefundsAreCounted
  FiguresDiffer
CHECK_DEADLOCK FALSE

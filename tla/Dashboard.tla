----------------------------- MODULE Dashboard -----------------------------
(***************************************************************************)
(* The figures that the back office shows of receipts and returns, over    *)
(* the tables of SaleMoney: the period and the filters take in everything. *)
(* All of them are read in one request; nothing is stored.                 *)
(***************************************************************************)
EXTENDS SaleMoney

Standing == {x \in Sales : sale[x].status = "COMPLETED"}

SumOverSales(f)   == SumOf([x \in Sales |-> IF x \in Standing THEN f[x] ELSE 0], MaxSales)
SumOverReturns(f) == SumOf(f, MaxReturns)

GrossSales   == SumOverSales([x \in Sales |-> sale[x].total])
ReturnsTotal == SumOverReturns([r \in Returns |-> return[r].amount])
NetSales     == GrossSales - ReturnsTotal

\* The discount of a sale is shared out over its lines by what each comes to; a
\* line that is alone or last takes what the others leave.
AllocatedDiscount(x) == sale[x].discountTotal

\* Mutant: goods that are thrown away are not taken off.
ReturnedRevenueRestocked(r) == IF return[r].type = "DISPOSE" THEN 0 ELSE return[r].amount

\* Disposed goods too; only their cost stays.
ReturnedRevenue(r) == return[r].amount

\* Revenue in the list of products.
ProductRevenue ==
  SumOverSales([x \in Sales |-> sale[x].lineTotal - AllocatedDiscount(x)])
    - SumOverReturns([r \in Returns |-> ReturnedRevenue(r)])

ProductDiscounts == SumOverSales([x \in Sales |-> sale[x].lineDiscount + AllocatedDiscount(x)])

\* The chart of payment methods, all methods together.
PaymentMix ==
  SumOverSales([x \in Sales |-> Tendered(sale[x].payments)])
    - SumOverReturns([r \in Returns |-> PaidOut(r)])

-----------------------------------------------------------------------------
(* Properties.                                                             *)

\* The three figures of the dashboard differ by two things only.  The products
\* show less revenue than net sales by the line discounts of standing sales, which
\* are taken off twice (Sale.discountTotal has them already), and these are also
\* what the products' discounts show too much.  The payments show more than net
\* sales by what returns put on credits or did not pay back, so that what is
\* bought with a credit is counted in them a second time (dashboard).
FiguresDiffer ==
  LET lineDiscounts == SumOverSales([x \in Sales |-> sale[x].lineDiscount])
      given         == SumOverSales([x \in Sales |-> sale[x].discountTotal])
  IN  /\ NetSales - ProductRevenue = lineDiscounts
      /\ ProductDiscounts - given = lineDiscounts
      /\ PaymentMix - NetSales
           = SumOverReturns([r \in Returns |-> return[r].amount - PaidOut(r)])
=============================================================================

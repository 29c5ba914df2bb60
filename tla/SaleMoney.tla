----------------------------- MODULE SaleMoney -----------------------------
(***************************************************************************)
(* The money of receipts, returns and store credits.                       *)
(*                                                                         *)
(* A checkout prices its cart, settles the payments offered against the    *)
(* total and takes store credit off its balance.  A return pays a refund   *)
(* or puts the value of the goods on a new store credit, which a           *)
(* replacement sale, a later sale or a refund of the credit uses up.  Each *)
(* is one serializable transaction and one action; one that throws is the  *)
(* absence of a step.                                                      *)
(*                                                                         *)
(* Amounts are in cents.  A receipt has one line: the remainders that      *)
(* returns are held to, and their shares, are kept by line.  The store     *)
(* credit of a return is known by the return, to which it is unique.       *)
(***************************************************************************)
EXTENDS QuantitySums, Sequences, FiniteSets

CONSTANTS
  MaxSales, MaxReturns, MaxShifts,  \* bounds on the rows of each table
  Sold,         \* quantities a line may be sold in
  Quantities,   \* quantities returned
  Prices,       \* what a line may cost before discounts
  Discounts,    \* discounts a line or a sale may be given
  Amounts,      \* amounts that may be tendered or refunded from a credit
  MaxPayments   \* bound on the payments of a sale

Sales   == 1 .. MaxSales
Returns == 1 .. MaxReturns
Shifts  == 1 .. MaxShifts

None == 0       \* no return, no credit, no shift

DiscountInput == [type : {"PERCENTAGE", "FIXED"}, value : Nat]

ASSUME RowBounds        == MaxSales \in Nat /\ MaxReturns \in Nat /\ MaxShifts \in Nat
ASSUME QuantityDomain   == Sold \subseteq Nat \ {0} /\ Quantities \subseteq Nat \ {0}
ASSUME PriceDomain      == Prices \subseteq Nat
ASSUME DiscountDomain   == Discounts \subseteq DiscountInput
ASSUME AmountDomain     == Amounts \subseteq Nat \ {0}
ASSUME PaymentBound     == MaxPayments \in Nat \ {0}

VARIABLES
  sale,       \* sale[x]: the Sale row with its line and its Payment rows
  return,     \* return[r]: the Return row with its line
  balance,    \* balance[r]: StoreCredit.balance of an EXCHANGE return
  paid,       \* paid[r][m]: ReturnPayment rows of r by method m
  shift,      \* the shift the cashier has open, or None
  opened,     \* number of shifts opened so far
  handedOut   \* history: refunds paid in cash while shift s was open

vars == <<sale, return, balance, paid, shift, opened, handedOut>>

NoSale   == [status |-> "NONE", quantity |-> 0, lineDiscount |-> 0, lineTotal |-> 0,
             discountTotal |-> 0, total |-> 0, payments |-> <<>>]
NoReturn == [type |-> "NONE", sale |-> None, quantity |-> 0, amount |-> 0,
             shift |-> None, replaced |-> FALSE]

Minimum(a, b) == IF a < b THEN a ELSE b

-----------------------------------------------------------------------------
(* Prices and discounts.                                                   *)

\* Math.round of a quotient of naturals.
Rounded(a, b) == (2 * a + b) \div (2 * b)

DiscountCents(gross, discount) ==
  IF discount.type = "PERCENTAGE" THEN Rounded(gross * discount.value, 100)
                                  ELSE discount.value

CanDiscount(gross, discount) ==
  IF discount.type = "PERCENTAGE" THEN discount.value <= 100
                                  ELSE discount.value <= gross

\* calculateCheckout: discountTotal holds the discounts of lines and of the sale.
Priced(quantity, gross, discountOfLine, discountOfSale) ==
  LET lineDiscount == DiscountCents(gross, discountOfLine)
      lineTotal    == gross - lineDiscount
      saleDiscount == DiscountCents(lineTotal, discountOfSale)
  IN  [status |-> "COMPLETED", quantity |-> quantity, lineDiscount |-> lineDiscount,
       lineTotal |-> lineTotal, discountTotal |-> lineDiscount + saleDiscount,
       total |-> lineTotal - saleDiscount, payments |-> <<>>]

-----------------------------------------------------------------------------
(* Payments.                                                               *)

PaymentInputs ==
  {p \in [method : {"CASH", "OTHER", "STORE_CREDIT"}, amount : Amounts,
          credit : Returns \cup {None}] :
     p.method = "STORE_CREDIT" <=> p.credit # None}

PaymentLists == UNION {[1 .. n -> PaymentInputs] : n \in 1 .. MaxPayments}

SumOfPayments(ps, Test(_)) ==
  SumOf([i \in DOMAIN ps |-> IF Test(ps[i]) THEN ps[i].amount ELSE 0], Len(ps))

Tendered(ps)   == SumOfPayments(ps, LAMBDA p : TRUE)
Applied(ps, r) == SumOfPayments(ps, LAMBDA p : p.credit = r)
Money(ps)      == SumOfPayments(ps, LAMBDA p : p.credit = None)

CashPayments(ps) == {i \in DOMAIN ps : ps[i].method = "CASH"}
SplitMethods(ps) == {i \in DOMAIN ps : ps[i].method # "STORE_CREDIT"}

CanSettle(ps, total) ==
  /\ Cardinality(SplitMethods(ps)) > 1 => Tendered(ps) = total
  /\ Tendered(ps) >= total
  /\ Tendered(ps) > total => CashPayments(ps) # {}

\* Mutant: a payment is recorded as tendered.
SettlePaymentsAsTendered(ps, total) == ps

\* The last cash payment gives the change.
SettlePayments(ps, total) ==
  [i \in DOMAIN ps |->
     IF i \in CashPayments(ps) /\ \A j \in CashPayments(ps) : j <= i
     THEN [ps[i] EXCEPT !.amount = @ - (Tendered(ps) - total)]
     ELSE ps[i]]

-----------------------------------------------------------------------------
Init ==
  /\ sale = [x \in Sales |-> NoSale]
  /\ return = [r \in Returns |-> NoReturn]
  /\ balance = [r \in Returns |-> 0]
  /\ paid = [r \in Returns |-> [m \in {"CASH", "OTHER"} |-> 0]]
  /\ shift = None
  /\ opened = 0
  /\ handedOut = [s \in Shifts \cup {None} |-> 0]

OpenShift ==
  /\ shift = None
  /\ opened < MaxShifts
  /\ opened' = opened + 1
  /\ shift' = opened'
  /\ UNCHANGED <<sale, return, balance, paid, handedOut>>

CloseShift ==
  /\ shift # None
  /\ shift' = None
  /\ UNCHANGED <<sale, return, balance, paid, opened, handedOut>>

\* ReturnPayment rows for return r, and the cash that leaves the drawer.
PayOut(r, method, amount) ==
  IF method = "NONE" THEN UNCHANGED <<paid, handedOut>>
  ELSE /\ paid' = [paid EXCEPT ![r][method] = @ + amount]
       /\ handedOut' = IF method = "CASH" THEN [handedOut EXCEPT ![shift] = @ + amount]
                                          ELSE handedOut

\* Rows are numbered in the order they are created.
NextSale(x)   == sale[x] = NoSale /\ \A y \in Sales : y < x => sale[y] # NoSale
NextReturn(r) == return[r] = NoReturn /\ \A q \in Returns : q < r => return[q] # NoReturn

\* An exchange that has no replacement yet must give what its credit can.
ExchangeApplies(r, payments, total) ==
  /\ return[r].type = "EXCHANGE"
  /\ ~return[r].replaced
  /\ \E i \in DOMAIN payments :
       /\ payments[i].credit = r
       /\ \A j \in 1 .. i - 1 : payments[j].credit # r
       /\ payments[i].amount = Minimum(balance[r], total)

\* What an exchange leaves on its credit; it is refunded as a whole or kept.
Unused(r, total) == balance[r] - Minimum(balance[r], total)

CanRefundUnused(r, total, method) ==
  method # "NONE" =>
    /\ r # None
    /\ Unused(r, total) > 0
    /\ method = "CASH" => return[r].shift = shift

\* The sale is paid with ps; exchange is the return it replaces, or None, and
\* method how the unused credit is refunded, if it is.
Pay(x, priced, ps, exchange, method) ==
  LET total    == priced.total
      payments == SettlePayments(ps, total)
      refunded == IF method = "NONE" THEN 0 ELSE Unused(exchange, total)
      left     == [r \in Returns |-> balance[r] - Applied(payments, r)
                                       - (IF r = exchange THEN refunded ELSE 0)]
  IN  /\ exchange # None => ExchangeApplies(exchange, payments, total)
      /\ CanRefundUnused(exchange, total, method)
      /\ \A r \in Returns : left[r] >= 0
      /\ balance' = left
      /\ sale' = [sale EXCEPT ![x] = [priced EXCEPT !.payments = payments]]
      /\ return' = [r \in Returns |-> IF r = exchange
                                      THEN [return[r] EXCEPT !.replaced = TRUE]
                                      ELSE return[r]]
      /\ PayOut(exchange, method, refunded)
      /\ UNCHANGED <<shift, opened>>

Checkout(x, quantity, gross, discountOfLine, discountOfSale) ==
  LET priced == Priced(quantity, gross, discountOfLine, discountOfSale)
  IN  /\ NextSale(x)
      /\ shift # None
      /\ CanDiscount(gross, discountOfLine)
      /\ CanDiscount(priced.lineTotal, discountOfSale)
      /\ \E ps \in PaymentLists :
           /\ CanSettle(ps, priced.total)
           /\ \E exchange \in Returns \cup {None}, method \in {"NONE", "CASH", "OTHER"} :
                Pay(x, priced, ps, exchange, method)

ReturnsOf(x) == {r \in Returns : return[r].sale = x}

\* The payments become REFUNDED with the sale; store credit stays spent.
VoidReceipt(x) ==
  /\ sale[x].status = "COMPLETED"
  /\ ReturnsOf(x) = {}
  /\ sale' = [sale EXCEPT ![x].status = "VOIDED"]
  /\ UNCHANGED <<return, balance, paid, shift, opened, handedOut>>

-----------------------------------------------------------------------------
(* Returns.                                                                *)

Returned(x) ==
  SumOf([r \in Returns |-> IF r \in ReturnsOf(x) THEN return[r].quantity ELSE 0], MaxReturns)

\* Mutant: earlier returns of the line are forgotten.
RemainingOfSale(x) == sale[x].quantity

Remaining(x) == sale[x].quantity - Returned(x)

\* Mutant: an exchange may be refunded as well.
CanPayBackTwice(type, method, named) ==
  /\ type = "REFUND" => method # "NONE"
  /\ type = "REFUND" /\ method = "CASH" => named # None
  /\ named # None => named = shift

\* What may be paid for a return, which names the open shift or none.
CanPayBack(type, method, named) ==
  /\ type = "REFUND" => method # "NONE"
  /\ type = "EXCHANGE" => method = "NONE"
  /\ type = "REFUND" /\ method = "CASH" => named # None
  /\ named # None => named = shift

CreateReturn(r, x, type, quantity, method, named) ==
  LET amount == Rounded(sale[x].lineTotal * quantity, sale[x].quantity)
  IN  /\ NextReturn(r)
      /\ sale[x].status = "COMPLETED"
      /\ CanPayBack(type, method, named)
      /\ quantity <= Remaining(x)
      /\ return' = [return EXCEPT ![r] =
           [type |-> type, sale |-> x, quantity |-> quantity, amount |-> amount,
            shift |-> named, replaced |-> FALSE]]
      /\ balance' = [balance EXCEPT ![r] = IF type = "EXCHANGE" THEN amount ELSE 0]
      /\ PayOut(r, method, amount)
      /\ UNCHANGED <<sale, shift, opened>>

\* Mutant: cash is paid in whatever shift is open.
CanRefundInAnyShift(r, amount, method) ==
  /\ amount <= balance[r]
  /\ method = "CASH" => shift # None

\* Cash is paid in the shift of the exchange, while it is open.
CanRefund(r, amount, method) ==
  /\ amount <= balance[r]
  /\ method = "CASH" => return[r].shift # None /\ return[r].shift = shift

RefundStoreCredit(r, amount, method) ==
  /\ return[r].type = "EXCHANGE"
  /\ CanRefund(r, amount, method)
  /\ balance' = [balance EXCEPT ![r] = @ - amount]
  /\ PayOut(r, method, amount)
  /\ UNCHANGED <<sale, return, shift, opened>>

-----------------------------------------------------------------------------
Next ==
  \/ OpenShift
  \/ CloseShift
  \/ \E x \in Sales :
       \/ \E quantity \in Sold, gross \in Prices, discountOfLine, discountOfSale \in Discounts :
            Checkout(x, quantity, gross, discountOfLine, discountOfSale)
       \/ VoidReceipt(x)
       \/ \E r \in Returns, type \in {"REFUND", "DISPOSE", "EXCHANGE"},
             quantity \in Quantities, method \in {"NONE", "CASH", "OTHER"},
             named \in Shifts \cup {None} :
            CreateReturn(r, x, type, quantity, method, named)
  \/ \E r \in Returns, amount \in Amounts, method \in {"CASH", "OTHER"} :
       RefundStoreCredit(r, amount, method)

Spec == Init /\ [][Next]_vars

-----------------------------------------------------------------------------
(* Properties.                                                             *)

TypeOK ==
  /\ \A x \in Sales :
       /\ sale[x].status \in {"NONE", "COMPLETED", "VOIDED"}
       /\ sale[x].quantity \in Nat /\ sale[x].lineTotal \in Nat /\ sale[x].total \in Nat
       /\ \A i \in DOMAIN sale[x].payments : sale[x].payments[i].amount \in Int
  /\ return \in [Returns -> [type : {"NONE", "REFUND", "DISPOSE", "EXCHANGE"},
                             sale : Sales \cup {None}, quantity : Nat, amount : Nat,
                             shift : Shifts \cup {None}, replaced : BOOLEAN]]
  /\ balance \in [Returns -> Nat]
  /\ paid \in [Returns -> [{"CASH", "OTHER"} -> Nat]]
  /\ shift \in Shifts \cup {None} /\ opened \in 0 .. MaxShifts
  /\ handedOut \in [Shifts \cup {None} -> Nat]

PaidOut(r) == paid[r]["CASH"] + paid[r]["OTHER"]

SpentOn(x, r) == Applied(sale[x].payments, r)
Spent(r)      == SumOf([x \in Sales |-> SpentOn(x, r)], MaxSales)

\* The value of a return that the company owes or has paid.
Owed(r) == IF return[r].type = "DISPOSE" THEN PaidOut(r) ELSE return[r].amount

\* No credit is spent twice: what an exchange put on it is what is left, what
\* sales were paid with, voided ones included, and what was refunded of it
\* (the guarded decrements of checkout and refundStoreCredit).
CreditsAddUp ==
  \A r \in Returns :
    /\ return[r].type = "EXCHANGE" =>
         return[r].amount = balance[r] + Spent(r) + PaidOut(r)
    /\ return[r].type # "EXCHANGE" => balance[r] = 0 /\ Spent(r) = 0

TotalOf(f, status) ==
  SumOf([x \in Sales |-> IF sale[x].status = status THEN f[x] ELSE 0], MaxSales)

\* The books balance: money taken for sales that stand, less money paid back, is
\* what these sales are worth, less what returns are worth, plus what credits
\* still promise.  Credit spent in voided sales stays with the company
\* (settlePayments, ReturnsService, voidReceipt).
BooksBalance ==
  LET taken  == TotalOf([x \in Sales |-> Money(sale[x].payments)], "COMPLETED")
      worth  == TotalOf([x \in Sales |-> sale[x].total], "COMPLETED")
      kept   == TotalOf([x \in Sales |-> SumOf([r \in Returns |-> SpentOn(x, r)], MaxReturns)], "VOIDED")
      back   == SumOf([r \in Returns |-> PaidOut(r)], MaxReturns)
      owed   == SumOf([r \in Returns |-> Owed(r)], MaxReturns)
      credit == SumOf([r \in Returns |-> balance[r]], MaxReturns)
  IN  taken - back = worth - owed + credit + kept

RefundShare(x) == SumOf([r \in Returns |-> IF r \in ReturnsOf(x) THEN return[r].amount ELSE 0], MaxReturns)

\* No more comes back than was sold, and the shares of a line add up to it but
\* for half a cent of rounding for each return (ReturnsService.create).
ReturnsWithinLine ==
  \A x \in Sales :
    LET error == RefundShare(x) * sale[x].quantity - sale[x].lineTotal * Returned(x)
    IN  /\ Returned(x) <= sale[x].quantity
        /\ 2 * error <= sale[x].quantity * Cardinality(ReturnsOf(x))
        /\ -2 * error <= sale[x].quantity * Cardinality(ReturnsOf(x))

\* Cash refunds as the summary of a shift counts them.
CashRefunds(s) ==
  SumOf([r \in Returns |-> IF return[r].shift = s THEN paid[r]["CASH"] ELSE 0], MaxReturns)

\* Cash paid for disposed goods without naming a shift is counted in none.
Uncounted == {r \in Returns : return[r].type = "DISPOSE" /\ return[r].shift = None /\ paid[r]["CASH"] > 0}

\* Cash that leaves the drawer of a shift for returns, exchanges and credits is
\* what the summary of that shift counts, also when the credit is refunded long
\* after the exchange (refundStoreCredit, complete, create).
CashRefundsAreCounted ==
  Uncounted = {} => \A s \in Shifts : handedOut[s] = CashRefunds(s)
=============================================================================

-------------------------- MODULE SaleMoney_proofs --------------------------
(***************************************************************************)
(* What credits and books add up to, for every number of sales, returns,   *)
(* shifts and payments, all prices, discounts and quantities.              *)
(***************************************************************************)
EXTENDS Dashboard, QuantitySums_proofs

PaymentRows ==
  {p \in [method : {"CASH", "OTHER", "STORE_CREDIT"}, amount : Int, credit : Returns \cup {None}] :
     p.credit # None => p.method = "STORE_CREDIT" /\ p.amount \in Nat}

SaleRows == [status : {"NONE", "COMPLETED", "VOIDED"}, quantity : Nat, lineDiscount : Nat,
             lineTotal : Nat, discountTotal : Nat, total : Nat, payments : Seq(PaymentRows)]

ReturnRows == [type : {"NONE", "REFUND", "DISPOSE", "EXCHANGE"}, sale : Sales \cup {None},
               quantity : Nat, amount : Nat, shift : Shifts \cup {None}, replaced : BOOLEAN]

Typed ==
  /\ sale \in [Sales -> SaleRows]
  /\ return \in [Returns -> ReturnRows]
  /\ balance \in [Returns -> Nat]
  /\ paid \in [Returns -> [{"CASH", "OTHER"} -> Nat]]
  /\ shift \in Shifts \cup {None}
  /\ opened \in 0 .. MaxShifts
  /\ handedOut \in [Shifts \cup {None} -> Nat]

\* Every sale is of something and is paid to the cent.
Settled ==
  \A x \in Sales :
    IF sale[x].status = "NONE" THEN sale[x].payments = <<>>
    ELSE sale[x].quantity # 0 /\ Tendered(sale[x].payments) = sale[x].total

\* A refund is paid when it is made; nothing is paid for a return that is not.
PaidAtOnce ==
  \A r \in Returns :
    /\ return[r].type = "NONE" =>
         return[r].amount = 0 /\ return[r].shift = None
         /\ paid[r]["CASH"] = 0 /\ paid[r]["OTHER"] = 0
    /\ return[r].type = "REFUND" => PaidOut(r) = return[r].amount

IInv == Typed /\ Settled /\ PaidAtOnce /\ CreditsAddUp /\ CashRefundsAreCounted

-----------------------------------------------------------------------------
(* Prices.                                                                 *)

LEMMA QuotientType ==
  ASSUME NEW a \in Nat, NEW b \in Nat, b # 0
  PROVE  a \div b \in Nat
OBVIOUS

LEMMA RoundedType ==
  ASSUME NEW a \in Nat, NEW b \in Nat, b # 0
  PROVE  Rounded(a, b) \in Nat
<1>1. 2 * a + b \in Nat /\ 2 * b \in Nat /\ 2 * b # 0
  OBVIOUS
<1> QED BY <1>1, QuotientType DEF Rounded

\* A discount that is allowed is at most what it is taken from.
LEMMA DiscountType ==
  ASSUME NEW gross \in Nat, NEW discount \in Discounts, CanDiscount(gross, discount)
  PROVE  DiscountCents(gross, discount) \in Nat /\ DiscountCents(gross, discount) <= gross
<1>1. discount.value \in Nat
  BY DiscountDomain DEF DiscountInput
<1>2. CASE discount.type = "PERCENTAGE"
  <2> DEFINE v == discount.value
  <2>1. v \in Nat /\ v <= 100
    BY <1>1, <1>2 DEF CanDiscount
  <2> HIDE DEF v
  <2>2. gross * v \in Nat /\ gross * v <= gross * 100
    BY <2>1
  <2>3. Rounded(gross * v, 100) \in Nat
    BY <2>2, RoundedType
  <2>4. Rounded(gross * v, 100) <= gross
    BY <2>2 DEF Rounded
  <2> QED BY <1>2, <2>3, <2>4 DEF DiscountCents, v
<1>3. CASE discount.type # "PERCENTAGE"
  BY <1>1, <1>3 DEF CanDiscount, DiscountCents
<1> QED BY <1>2, <1>3

LEMMA PricedType ==
  ASSUME NEW quantity \in Sold, NEW gross \in Prices, NEW dl \in Discounts, NEW ds \in Discounts,
         CanDiscount(gross, dl), CanDiscount(Priced(quantity, gross, dl, ds).lineTotal, ds)
  PROVE  /\ Priced(quantity, gross, dl, ds) \in SaleRows
         /\ Priced(quantity, gross, dl, ds).status = "COMPLETED"
         /\ Priced(quantity, gross, dl, ds).quantity # 0
<1> DEFINE lineDiscount == DiscountCents(gross, dl)
<1> DEFINE lineTotal == gross - lineDiscount
<1> DEFINE saleDiscount == DiscountCents(lineTotal, ds)
<1>1. gross \in Nat /\ quantity \in Nat /\ quantity # 0
  BY PriceDomain, QuantityDomain
<1>2. lineDiscount \in Nat /\ lineTotal \in Nat
  BY <1>1, DiscountType
<1>3. Priced(quantity, gross, dl, ds) =
        [status |-> "COMPLETED", quantity |-> quantity, lineDiscount |-> lineDiscount,
         lineTotal |-> lineTotal, discountTotal |-> lineDiscount + saleDiscount,
         total |-> lineTotal - saleDiscount, payments |-> <<>>]
  BY DEF Priced
<1> HIDE DEF lineTotal, lineDiscount
<1>4. saleDiscount \in Nat /\ saleDiscount <= lineTotal
  BY <1>2, <1>3, DiscountType
<1> HIDE DEF saleDiscount
<1>5. lineDiscount + saleDiscount \in Nat /\ lineTotal - saleDiscount \in Nat
  BY <1>2, <1>4
<1> QED BY <1>1, <1>2, <1>3, <1>5 DEF SaleRows

-----------------------------------------------------------------------------
(* Payments.                                                               *)

LEMMA InputsAreRows ==
  ASSUME NEW ps \in PaymentLists
  PROVE  ps \in Seq(PaymentRows)
<1>1. ASSUME NEW p \in PaymentInputs PROVE p \in PaymentRows
  <2>1. p \in [method : {"CASH", "OTHER", "STORE_CREDIT"}, amount : Amounts, credit : Returns \cup {None}]
        /\ (p.credit # None => p.method = "STORE_CREDIT")
    BY DEF PaymentInputs
  <2>2. p.amount \in Nat /\ p.amount \in Int
    <3>1. p.amount \in Amounts
      BY <2>1
    <3>2. \A a \in Amounts : a \in Nat /\ a \in Int
      BY AmountDomain
    <3> QED BY <3>1, <3>2
  <2> QED BY <2>1, <2>2 DEF PaymentRows
<1> QED BY <1>1 DEF PaymentLists

\* Payment rows by what they are for, as functions on 1 .. Len(ps).
Amount(ps)      == [i \in 1 .. Len(ps) |-> ps[i].amount]
AmountOf(ps, r) == [i \in 1 .. Len(ps) |-> IF ps[i].credit = r THEN ps[i].amount ELSE 0]

LEMMA PaymentSums ==
  ASSUME NEW ps \in Seq(PaymentRows)
  PROVE  /\ Len(ps) \in Nat
         /\ Amount(ps) \in [1 .. Len(ps) -> Int]
         /\ \A r \in Returns \cup {None} : AmountOf(ps, r) \in [1 .. Len(ps) -> Int]
         /\ Tendered(ps) = SumOf(Amount(ps), Len(ps))
         /\ Money(ps) = SumOf(AmountOf(ps, None), Len(ps))
         /\ \A r \in Returns : Applied(ps, r) = SumOf(AmountOf(ps, r), Len(ps))
<1>1. Len(ps) \in Nat /\ DOMAIN ps = 1 .. Len(ps) /\ \A i \in 1 .. Len(ps) : ps[i].amount \in Int
  BY DEF PaymentRows
<1>2. Tendered(ps) = SumOf(Amount(ps), Len(ps))
  BY <1>1 DEF Tendered, SumOfPayments, Amount
<1>3. Money(ps) = SumOf(AmountOf(ps, None), Len(ps))
  BY <1>1 DEF Money, SumOfPayments, AmountOf
<1>4. \A r \in Returns : Applied(ps, r) = SumOf(AmountOf(ps, r), Len(ps))
  BY <1>1 DEF Applied, SumOfPayments, AmountOf
<1>5. Amount(ps) \in [1 .. Len(ps) -> Int]
      /\ \A r \in Returns \cup {None} : AmountOf(ps, r) \in [1 .. Len(ps) -> Int]
  BY <1>1 DEF Amount, AmountOf
<1> QED BY <1>1, <1>2, <1>3, <1>4, <1>5

LEMMA TenderedType ==
  ASSUME NEW ps \in Seq(PaymentRows)
  PROVE  Tendered(ps) \in Int
<1>1. SumOf(Amount(ps), Len(ps)) \in Int
  BY PaymentSums, SumType
<1> QED BY <1>1, PaymentSums

\* Store credit is never paid in negative amounts.
LEMMA AppliedType ==
  ASSUME NEW ps \in Seq(PaymentRows), NEW r \in Returns
  PROVE  Applied(ps, r) \in Nat
<1>1. r # None
  BY DEF Returns, None
<1>2. AmountOf(ps, r) \in [1 .. Len(ps) -> Nat]
  BY <1>1 DEF AmountOf, PaymentRows
<1> QED BY <1>2, PaymentSums, SumBounds

LEMMA NoPayments ==
  ASSUME NEW r \in Returns
  PROVE  Applied(<<>>, r) = 0
<1>1. <<>> \in Seq(PaymentRows) /\ Len(<<>>) = 0
  OBVIOUS
<1>2. \A k \in 1 .. 0 : AmountOf(<<>>, r)[k] = 0
  OBVIOUS
<1> QED BY <1>1, <1>2, PaymentSums, SumZero

\* Settled payments are rows that come to the total.
LEMMA SettledPayments ==
  ASSUME NEW ps \in Seq(PaymentRows), NEW total \in Nat, CanSettle(ps, total)
  PROVE  /\ SettlePayments(ps, total) \in Seq(PaymentRows)
         /\ Tendered(SettlePayments(ps, total)) = total
<1> DEFINE n == Len(ps)
<1> DEFINE qs == SettlePayments(ps, total)
<1> DEFINE change == Tendered(ps) - total
<1>1. Tendered(ps) \in Int /\ change \in Int
  BY TenderedType
<1>2. qs = [i \in 1 .. n |->
              IF i \in CashPayments(ps) /\ \A j \in CashPayments(ps) : j <= i
              THEN [ps[i] EXCEPT !.amount = @ - change] ELSE ps[i]]
  BY DEF SettlePayments
<1>3. ASSUME NEW i \in 1 .. n, ps[i].method = "CASH"
      PROVE  [ps[i] EXCEPT !.amount = @ - change] \in PaymentRows
  <2>1. ps[i] \in PaymentRows
    OBVIOUS
  <2>2. ps[i].credit = None
    BY <1>3, <2>1 DEF PaymentRows
  <2>3. ps[i].amount \in Int /\ ps[i].amount - change \in Int
    BY <1>1, <2>1 DEF PaymentRows
  <2> HIDE DEF change
  <2> QED BY <2>1, <2>2, <2>3 DEF PaymentRows
<1>4. \A i \in CashPayments(ps) : i \in 1 .. n /\ ps[i].method = "CASH"
  BY DEF CashPayments
<1> HIDE DEF change
<1>5. \A i \in 1 .. n : qs[i] \in PaymentRows
  BY <1>2, <1>3, <1>4
<1>6. qs \in Seq(PaymentRows) /\ Len(qs) = n
  BY <1>2, <1>5
<1> HIDE DEF qs
<1>7. Tendered(qs) = total
  <2>1. CASE CashPayments(ps) = {}
    <3>1. Tendered(ps) = total
      BY <2>1, <1>1 DEF CanSettle
    <3>2. \A i \in 1 .. n : qs[i] = ps[i]
      BY <1>2, <2>1
    <3>3. Amount(qs) = Amount(ps)
      BY <1>6, <3>2 DEF Amount
    <3> QED BY <1>6, <3>1, <3>3, PaymentSums
  <2>2. CASE CashPayments(ps) # {}
    <3>1. PICK last \in CashPayments(ps) : \A j \in CashPayments(ps) : j <= last
      <4>1. CashPayments(ps) \in SUBSET (1 .. n) /\ n \in Nat
        BY <1>4, PaymentSums
      <4> QED BY <4>1, <2>2, LastIndex
    <3>2. last \in 1 .. n /\ qs[last] = [ps[last] EXCEPT !.amount = @ - change]
      BY <1>2, <1>4, <3>1
    <3>3. \A i \in 1 .. n : i # last => qs[i] = ps[i]
      <4>1. \A i \in CashPayments(ps) : i # last => ~(last <= i)
        BY <1>4, <3>1
      <4> QED BY <1>2, <3>1, <4>1
    <3>4. ps[last].amount \in Int /\ qs[last].amount = ps[last].amount - change
      BY <1>1, <3>2 DEF PaymentRows
    <3> DEFINE f == Amount(ps)
    <3> DEFINE g == Amount(qs)
    <3>5. g[last] - f[last] = 0 - change /\ \A i \in 1 .. n : i # last => g[i] = f[i]
      <4>1. g[last] = qs[last].amount /\ f[last] = ps[last].amount
        BY <1>6, <3>2 DEF Amount
      <4>2. \A i \in 1 .. n : i # last => g[i] = f[i]
        BY <1>6, <3>3 DEF Amount
      <4> HIDE DEF f, g
      <4> QED BY <1>1, <3>4, <4>1, <4>2
    <3>6. n \in Nat /\ f \in [1 .. n -> Int] /\ g \in [1 .. n -> Int]
          /\ Tendered(ps) = SumOf(f, n) /\ Tendered(qs) = SumOf(g, n)
      BY <1>6, PaymentSums
    <3> HIDE DEF f, g
    <3>7. SumOf(g, n) = SumOf(f, n) + (g[last] - f[last])
      BY <3>2, <3>5, <3>6, SumChange, ZenonT(30)
    <3>8. Tendered(qs) = Tendered(ps) + (0 - change)
      BY <3>5, <3>6, <3>7
    <3> QED BY <1>1, <3>8 DEF change
  <2> QED BY <2>1, <2>2
<1> QED BY <1>6, <1>7 DEF qs

\* What is not paid with store credit is money.
LEMMA TenderedSplits ==
  ASSUME NEW ps \in Seq(PaymentRows)
  PROVE  Tendered(ps) = Money(ps) + SumOf([r \in Returns |-> Applied(ps, r)], MaxReturns)
<1> DEFINE n == Len(ps)
<1> DEFINE parts == [i \in 1 .. n |-> [r \in Returns |-> AmountOf(ps, r)[i]]]
<1> DEFINE credits == [i \in 1 .. n |-> SumOf(parts[i], MaxReturns)]
<1>1. n \in Nat /\ MaxReturns \in Nat /\ Returns = 1 .. MaxReturns
  BY RowBounds, PaymentSums DEF Returns
<1>2. parts \in [1 .. n -> [1 .. MaxReturns -> Int]]
  BY <1>1 DEF AmountOf, PaymentRows
<1>3. credits \in [1 .. n -> Int]
  BY <1>1, <1>2, SumType
<1>4. \A i \in 1 .. n : Amount(ps)[i] = AmountOf(ps, None)[i] + credits[i]
  <2> TAKE i \in 1 .. n
  <2>1. ps[i].amount \in Int /\ ps[i].credit \in Returns \cup {None} /\ None \notin Returns
    BY DEF PaymentRows, Returns, None
  <2>2. \A r \in Returns : parts[i][r] = IF ps[i].credit = r THEN ps[i].amount ELSE 0
    BY DEF AmountOf
  <2>3. parts[i] \in [1 .. MaxReturns -> Int]
    BY <1>2
  <2>4. credits[i] = SumOf(parts[i], MaxReturns)
    OBVIOUS
  <2> HIDE DEF parts, credits
  <2>5. CASE ps[i].credit = None
    <3>1. SumOf(parts[i], MaxReturns) = 0
      BY <1>1, <2>1, <2>2, <2>3, <2>5, SumZero
    <3> QED BY <2>1, <2>4, <2>5, <3>1 DEF Amount, AmountOf
  <2>6. CASE ps[i].credit \in Returns
    <3>1. SumOf(parts[i], MaxReturns) = ps[i].amount
      BY <1>1, <2>2, <2>3, <2>6, SumPoint
    <3> QED BY <2>1, <2>4, <2>6, <3>1 DEF Amount, AmountOf
  <2> QED BY <2>1, <2>5, <2>6
<1>5. Tendered(ps) = Money(ps) + SumOf(credits, n)
  <2> DEFINE f == AmountOf(ps, None)
  <2> DEFINE g == Amount(ps)
  <2>1. f \in [1 .. n -> Int] /\ g \in [1 .. n -> Int]
        /\ Tendered(ps) = SumOf(g, n) /\ Money(ps) = SumOf(f, n)
    BY PaymentSums
  <2> HIDE DEF f, g, credits, n
  <2>2. \A i \in 1 .. n : g[i] = f[i] + credits[i]
    BY <1>4 DEF f, g
  <2>3. SumOf(g, n) = SumOf(f, n) + SumOf(credits, n)
    BY <1>1, <1>3, <2>1, <2>2, SumAdd
  <2> QED BY <2>1, <2>3
<1>6. SumOf(credits, n)
        = SumOf([r \in 1 .. MaxReturns |-> SumOf([i \in 1 .. n |-> parts[i][r]], n)], MaxReturns)
  BY <1>1, <1>2, SumSwap
<1>7. \A r \in Returns : SumOf([i \in 1 .. n |-> parts[i][r]], n) = Applied(ps, r)
  <2> TAKE r \in Returns
  <2>1. [i \in 1 .. n |-> parts[i][r]] = AmountOf(ps, r)
    BY DEF AmountOf
  <2> QED BY <2>1, PaymentSums
<1>8. [r \in 1 .. MaxReturns |-> SumOf([i \in 1 .. n |-> parts[i][r]], n)]
        = [r \in Returns |-> Applied(ps, r)]
  BY <1>1, <1>7
<1> QED BY <1>5, <1>6, <1>8

-----------------------------------------------------------------------------
(* What sales were paid with.                                              *)

LEMMA Rows == /\ None \notin Returns /\ None \notin Shifts
              /\ Sales = 1 .. MaxSales /\ MaxSales \in Nat
              /\ Returns = 1 .. MaxReturns /\ MaxReturns \in Nat
BY RowBounds DEF None, Returns, Sales, Shifts

LEMMA SpentType ==
  ASSUME Typed, NEW r \in Returns
  PROVE  /\ [x \in Sales |-> SpentOn(x, r)] \in [1 .. MaxSales -> Nat]
         /\ Spent(r) \in Nat
<1>1. \A x \in Sales : SpentOn(x, r) \in Nat
  BY AppliedType DEF Typed, SaleRows, SpentOn
<1> QED BY <1>1, Rows, SumBounds DEF Spent

LEMMA SpentStays ==
  ASSUME \A x \in Sales : sale'[x].payments = sale[x].payments, NEW r \in Returns
  PROVE  Spent(r)' = Spent(r)
BY DEF Spent, SpentOn

LEMMA SpentGrows ==
  ASSUME Typed, NEW x \in Sales, NEW row \in SaleRows, sale[x].payments = <<>>,
         sale' = [sale EXCEPT ![x] = row], NEW r \in Returns
  PROVE  Spent(r)' = Spent(r) + Applied(row.payments, r)
<1> DEFINE f == [y \in Sales |-> SpentOn(y, r)]
<1> DEFINE g == [y \in Sales |-> SpentOn(y, r)']
<1>1. f[x] = 0
  BY NoPayments DEF SpentOn
<1>2. g[x] = Applied(row.payments, r)
  BY DEF Typed, SpentOn
<1>3. \A y \in Sales : y # x => g[y] = f[y]
  BY DEF Typed, SpentOn
<1>4. Applied(row.payments, r) \in Nat
  BY AppliedType DEF SaleRows
<1>5. f \in [1 .. MaxSales -> Int] /\ g \in [1 .. MaxSales -> Int]
  <2>1. \A y \in Sales : f[y] \in Int
    BY Rows, SpentType
  <2>2. \A y \in Sales : g[y] \in Int
    BY <1>2, <1>3, <1>4, <2>1
  <2> QED BY <2>1, <2>2, Rows
<1>6. Spent(r) = SumOf(f, MaxSales) /\ Spent(r)' = SumOf(g, MaxSales)
  BY DEF Spent
<1> HIDE DEF f, g
<1>7. SumOf(g, MaxSales) = SumOf(f, MaxSales) + (g[x] - f[x])
  BY <1>3, <1>5, Rows, SumChange
<1>8. SumOf(f, MaxSales) \in Int
  BY <1>5, Rows, SumType
<1> QED BY <1>1, <1>2, <1>4, <1>6, <1>7, <1>8

-----------------------------------------------------------------------------
(* Money that leaves.                                                      *)

LEMMA PayOutEffect ==
  ASSUME Typed, NEW r, NEW method \in {"NONE", "CASH", "OTHER"}, NEW amount \in Nat,
         PayOut(r, method, amount), method # "NONE" => r \in Returns
  PROVE  /\ paid' \in [Returns -> [{"CASH", "OTHER"} -> Nat]]
         /\ handedOut' \in [Shifts \cup {None} -> Nat]
         /\ \A q \in Returns :
              /\ paid'[q]["CASH"] = paid[q]["CASH"] + (IF q = r /\ method = "CASH" THEN amount ELSE 0)
              /\ paid'[q]["OTHER"] = paid[q]["OTHER"] + (IF q = r /\ method = "OTHER" THEN amount ELSE 0)
              /\ PaidOut(q)' = PaidOut(q) + (IF q = r /\ method # "NONE" THEN amount ELSE 0)
         /\ \A s \in Shifts :
              handedOut'[s] = handedOut[s] + (IF s = shift /\ method = "CASH" THEN amount ELSE 0)
<1>1. \A q \in Returns : paid[q]["CASH"] \in Nat /\ paid[q]["OTHER"] \in Nat
  BY DEF Typed
<1>2. \A s \in Shifts \cup {None} : handedOut[s] \in Nat
  BY DEF Typed
<1>3. paid' \in [Returns -> [{"CASH", "OTHER"} -> Nat]]
  BY DEF Typed, PayOut
<1>4. handedOut' \in [Shifts \cup {None} -> Nat]
  BY DEF Typed, PayOut
<1>5. \A q \in Returns :
        /\ paid'[q]["CASH"] = paid[q]["CASH"] + (IF q = r /\ method = "CASH" THEN amount ELSE 0)
        /\ paid'[q]["OTHER"] = paid[q]["OTHER"] + (IF q = r /\ method = "OTHER" THEN amount ELSE 0)
  <2>1. CASE method = "NONE"
    BY <1>1, <2>1 DEF PayOut
  <2>2. CASE method # "NONE"
    <3>1. paid' = [paid EXCEPT ![r] = [paid[r] EXCEPT ![method] = paid[r][method] + amount]]
      BY <2>2 DEF PayOut, Typed
    <3> QED BY <1>1, <2>2, <3>1 DEF Typed
  <2> QED BY <2>1, <2>2
<1>6. \A q \in Returns : PaidOut(q)' = PaidOut(q) + (IF q = r /\ method # "NONE" THEN amount ELSE 0)
  BY <1>1, <1>5 DEF PaidOut
<1>7. \A s \in Shifts :
        handedOut'[s] = handedOut[s] + (IF s = shift /\ method = "CASH" THEN amount ELSE 0)
  BY <1>2 DEF PayOut, Typed
<1> QED BY <1>3, <1>4, <1>5, <1>6, <1>7

\* A step that pays cash for one return, in the shift that the return names.
LEMMA CashCounted ==
  ASSUME Typed, CashRefundsAreCounted, NEW r \in Returns, NEW cash \in Nat,
         return' \in [Returns -> ReturnRows], paid' \in [Returns -> [{"CASH", "OTHER"} -> Nat]],
         \A q \in Returns \ {r} : /\ return'[q].type = return[q].type
                                  /\ return'[q].shift = return[q].shift
                                  /\ paid'[q]["CASH"] = paid[q]["CASH"],
         \/ return'[r].type = return[r].type /\ return'[r].shift = return[r].shift
         \/ return[r].type = "NONE" /\ paid[r]["CASH"] = 0,
         paid'[r]["CASH"] = paid[r]["CASH"] + cash,
         \A s \in Shifts : \/ r \in Uncounted'
                           \/ handedOut'[s] = handedOut[s] + IF s = return'[r].shift THEN cash ELSE 0
  PROVE  CashRefundsAreCounted'
<1> SUFFICES ASSUME Uncounted' = {}, NEW s \in Shifts PROVE handedOut'[s] = CashRefunds(s)'
  BY DEF CashRefundsAreCounted
<1>1. \A q \in Returns : /\ paid[q]["CASH"] \in Nat /\ paid'[q]["CASH"] \in Nat
                         /\ return[q] \in ReturnRows /\ return'[q] \in ReturnRows
  BY DEF Typed
<1>2. Uncounted = {}
  <2>1. \A q \in Returns : q \in Uncounted => q \in Uncounted'
    BY <1>1 DEF Uncounted
  <2> QED BY <2>1 DEF Uncounted
<1>3. handedOut[s] = CashRefunds(s)
  BY <1>2 DEF CashRefundsAreCounted
<1> DEFINE f == [q \in Returns |-> IF return[q].shift = s THEN paid[q]["CASH"] ELSE 0]
<1> DEFINE g == [q \in Returns |-> IF return'[q].shift = s THEN paid'[q]["CASH"] ELSE 0]
<1>4. f \in [1 .. MaxReturns -> Int] /\ g \in [1 .. MaxReturns -> Int]
  BY <1>1, Rows
<1>5. \A q \in Returns : q # r => g[q] = f[q]
  OBVIOUS
<1>6. g[r] - f[r] = IF s = return'[r].shift THEN cash ELSE 0
  BY <1>1
<1>7. CashRefunds(s) = SumOf(f, MaxReturns) /\ CashRefunds(s)' = SumOf(g, MaxReturns)
  BY DEF CashRefunds
<1> HIDE DEF f, g
<1>8. SumOf(g, MaxReturns) = SumOf(f, MaxReturns) + (g[r] - f[r])
  <2>1. r \in 1 .. MaxReturns /\ MaxReturns \in Nat
        /\ \A q \in 1 .. MaxReturns : q # r => g[q] = f[q]
    BY <1>5, Rows
  <2> QED BY <1>4, <2>1, SumChange
<1> QED BY <1>3, <1>6, <1>7, <1>8

LEMMA NoCash ==
  ASSUME CashRefundsAreCounted, UNCHANGED <<paid, handedOut>>,
         \A q \in Returns : return'[q].type = return[q].type /\ return'[q].shift = return[q].shift
  PROVE  CashRefundsAreCounted'
<1>1. Uncounted' = Uncounted
  BY DEF Uncounted
<1>2. \A s \in Shifts : CashRefunds(s)' = CashRefunds(s)
  BY DEF CashRefunds
<1> QED BY <1>1, <1>2 DEF CashRefundsAreCounted

-----------------------------------------------------------------------------
(* The invariant.                                                          *)

LEMMA Start == Init => IInv
<1> SUFFICES ASSUME Init PROVE IInv
  OBVIOUS
<1>1. Typed
  <2>1. NoSale \in SaleRows
    BY DEF NoSale, SaleRows
  <2>2. NoReturn \in ReturnRows
    BY DEF NoReturn, ReturnRows
  <2>3. 0 \in 0 .. MaxShifts
    BY RowBounds
  <2> QED BY <2>1, <2>2, <2>3 DEF Init, Typed
<1>2. Settled
  BY DEF Init, Settled, NoSale
<1>3. PaidAtOnce
  BY DEF Init, PaidAtOnce, NoReturn
<1>4. CreditsAddUp
  <2> SUFFICES ASSUME NEW r \in Returns PROVE balance[r] = 0 /\ Spent(r) = 0 /\ return[r].type = "NONE"
    BY DEF CreditsAddUp
  <2>1. \A x \in Sales : SpentOn(x, r) = 0
    BY NoPayments DEF Init, SpentOn, NoSale
  <2>2. Spent(r) = 0
    BY <2>1, Rows, SumZero DEF Spent
  <2> QED BY <2>2 DEF Init, NoReturn
<1>5. CashRefundsAreCounted
  <2> SUFFICES ASSUME NEW s \in Shifts PROVE handedOut[s] = CashRefunds(s)
    BY DEF CashRefundsAreCounted
  <2>1. CashRefunds(s) = 0
    BY Rows, SumZero DEF Init, CashRefunds
  <2> QED BY <2>1 DEF Init
<1> QED BY <1>1, <1>2, <1>3, <1>4, <1>5 DEF IInv

\* A shift opens or closes.
LEMMA ShiftKeeps ==
  ASSUME IInv, OpenShift \/ CloseShift \/ UNCHANGED vars
  PROVE  IInv'
<1>1. UNCHANGED <<sale, return, balance, paid, handedOut>>
  BY DEF OpenShift, CloseShift, vars
<1>2. opened' \in 0 .. MaxShifts /\ shift' \in Shifts \cup {None}
  BY RowBounds DEF IInv, Typed, OpenShift, CloseShift, vars, Shifts, None
<1>3. Typed' /\ Settled' /\ PaidAtOnce'
  BY <1>1, <1>2 DEF IInv, Typed, Settled, PaidAtOnce, PaidOut
<1>4. \A r \in Returns : Spent(r)' = Spent(r) /\ PaidOut(r)' = PaidOut(r)
  BY <1>1, SpentStays DEF PaidOut
<1>5. CreditsAddUp'
  BY <1>1, <1>4 DEF IInv, CreditsAddUp
<1> QED BY <1>1, <1>3, <1>5, NoCash DEF IInv

\* A void leaves what a sale was paid with.
LEMMA VoidKeeps ==
  ASSUME IInv, NEW x \in Sales, VoidReceipt(x)
  PROVE  IInv'
<1>1. UNCHANGED <<return, balance, paid, shift, opened, handedOut>>
      /\ sale' = [sale EXCEPT ![x] = [sale[x] EXCEPT !.status = "VOIDED"]]
  BY DEF VoidReceipt, IInv, Typed
<1>2. [sale[x] EXCEPT !.status = "VOIDED"] \in SaleRows
  BY ZenonT(30) DEF IInv, Typed, SaleRows
<1>3. \A y \in Sales : /\ sale'[y].payments = sale[y].payments /\ sale'[y].total = sale[y].total
                       /\ sale'[y].quantity = sale[y].quantity
                       /\ sale'[y].status = "NONE" <=> sale[y].status = "NONE"
  BY <1>1 DEF VoidReceipt, IInv, Typed, SaleRows
<1>4. Typed'
  BY <1>1, <1>2 DEF IInv, Typed
<1>5. Settled'
  BY <1>3 DEF IInv, Settled
<1>6. PaidAtOnce'
  BY <1>1 DEF IInv, PaidAtOnce, PaidOut
<1>7. \A r \in Returns : Spent(r)' = Spent(r) /\ PaidOut(r)' = PaidOut(r)
  BY <1>1, <1>3, SpentStays DEF PaidOut
<1>8. CreditsAddUp'
  BY <1>1, <1>7 DEF IInv, CreditsAddUp
<1> QED BY <1>1, <1>4, <1>5, <1>6, <1>8, NoCash DEF IInv

\* A return: its value goes to the customer or on the credit.
LEMMA ReturnKeeps ==
  ASSUME IInv, NEW r \in Returns, NEW x \in Sales, NEW type \in {"REFUND", "DISPOSE", "EXCHANGE"},
         NEW quantity \in Quantities, NEW method \in {"NONE", "CASH", "OTHER"},
         NEW named \in Shifts \cup {None}, CreateReturn(r, x, type, quantity, method, named)
  PROVE  IInv'
<1> DEFINE amount == Rounded(sale[x].lineTotal * quantity, sale[x].quantity)
<1> DEFINE row == [type |-> type, sale |-> x, quantity |-> quantity, amount |-> amount,
                   shift |-> named, replaced |-> FALSE]
<1>1. quantity \in Nat /\ amount \in Nat
  <2>1. quantity \in Nat
    BY QuantityDomain
  <2>2. sale[x].lineTotal \in Nat /\ sale[x].quantity \in Nat /\ sale[x].quantity # 0
    BY DEF CreateReturn, IInv, Typed, SaleRows, Settled
  <2>3. sale[x].lineTotal * quantity \in Nat
    BY <2>1, <2>2
  <2> QED BY <2>1, <2>2, <2>3, RoundedType
<1>2. /\ return' = [return EXCEPT ![r] = row]
      /\ balance' = [balance EXCEPT ![r] = IF type = "EXCHANGE" THEN amount ELSE 0]
      /\ PayOut(r, method, amount) /\ UNCHANGED <<sale, shift, opened>>
      /\ CanPayBack(type, method, named)
      /\ return[r].type = "NONE" /\ return[r].amount = 0
  BY DEF CreateReturn, NextReturn, NoReturn
<1> HIDE DEF amount
<1>3. row \in ReturnRows
  BY <1>1 DEF ReturnRows
<1>4. /\ row.type = type /\ row.amount = amount /\ row.shift = named
  OBVIOUS
<1> HIDE DEF row
<1>5. /\ paid' \in [Returns -> [{"CASH", "OTHER"} -> Nat]]
      /\ handedOut' \in [Shifts \cup {None} -> Nat]
      /\ \A q \in Returns :
           /\ paid'[q]["CASH"] = paid[q]["CASH"] + (IF q = r /\ method = "CASH" THEN amount ELSE 0)
           /\ paid'[q]["OTHER"] = paid[q]["OTHER"] + (IF q = r /\ method = "OTHER" THEN amount ELSE 0)
           /\ PaidOut(q)' = PaidOut(q) + (IF q = r /\ method # "NONE" THEN amount ELSE 0)
      /\ \A s \in Shifts :
           handedOut'[s] = handedOut[s] + (IF s = shift /\ method = "CASH" THEN amount ELSE 0)
  BY <1>1, <1>2, PayOutEffect, ZenonT(30) DEF IInv
<1>6. \A q \in Returns : /\ paid[q]["CASH"] \in Nat /\ paid[q]["OTHER"] \in Nat /\ PaidOut(q) \in Nat
                         /\ balance[q] \in Nat /\ Spent(q) \in Nat
  BY SpentType DEF IInv, Typed, PaidOut
<1>7. return'[r] = row /\ \A q \in Returns : q # r => return'[q] = return[q]
  BY <1>2 DEF IInv, Typed
<1>8. \A q \in Returns : balance'[q] = IF q # r THEN balance[q] ELSE IF type = "EXCHANGE" THEN amount ELSE 0
  BY <1>2 DEF IInv, Typed
<1>9. Typed'
  <2>1. return' \in [Returns -> ReturnRows]
    BY <1>2, <1>3 DEF IInv, Typed
  <2>2. balance' \in [Returns -> Nat]
    BY <1>1, <1>2 DEF IInv, Typed
  <2> QED BY <1>2, <1>5, <2>1, <2>2 DEF IInv, Typed
<1>10. Settled'
  BY <1>2 DEF IInv, Settled
<1>11. paid[r]["CASH"] = 0 /\ PaidOut(r) = 0
  BY <1>2 DEF IInv, PaidAtOnce, PaidOut
<1>12. PaidAtOnce'
  <2> SUFFICES ASSUME NEW q \in Returns
               PROVE  /\ return'[q].type = "NONE" =>
                           return'[q].amount = 0 /\ return'[q].shift = None
                           /\ paid'[q]["CASH"] = 0 /\ paid'[q]["OTHER"] = 0
                      /\ return'[q].type = "REFUND" => PaidOut(q)' = return'[q].amount
    BY DEF PaidAtOnce
  <2>1. CASE q = r
    BY <2>1, <1>1, <1>2, <1>4, <1>5, <1>7, <1>11 DEF CanPayBack
  <2>2. CASE q # r
    BY <2>2, <1>5, <1>6, <1>7 DEF IInv, PaidAtOnce
  <2> QED BY <2>1, <2>2
<1>13. CreditsAddUp'
  <2>1. \A q \in Returns : Spent(q)' = Spent(q)
    BY <1>2, SpentStays
  <2> SUFFICES ASSUME NEW q \in Returns
               PROVE  /\ return'[q].type = "EXCHANGE" =>
                           return'[q].amount = balance'[q] + Spent(q)' + PaidOut(q)'
                      /\ return'[q].type # "EXCHANGE" => balance'[q] = 0 /\ Spent(q)' = 0
    BY DEF CreditsAddUp
  <2>2. CASE q = r
    <3>1. Spent(r) = 0
      BY <1>2 DEF IInv, CreditsAddUp
    <3>2. type = "EXCHANGE" => PaidOut(r)' = 0
      BY <1>2, <1>5, <1>11 DEF CanPayBack
    <3> QED BY <2>1, <2>2, <3>1, <3>2, <1>1, <1>4, <1>7, <1>8
  <2>3. CASE q # r
    BY <2>1, <2>3, <1>5, <1>6, <1>7, <1>8 DEF IInv, CreditsAddUp
  <2> QED BY <2>2, <2>3
<1>14. CashRefundsAreCounted'
  <2> DEFINE cash == IF method = "CASH" THEN amount ELSE 0
  <2>1. cash \in Nat /\ paid'[r]["CASH"] = paid[r]["CASH"] + cash
    BY <1>1, <1>5
  <2>2. \A q \in Returns \ {r} : /\ return'[q].type = return[q].type
                                 /\ return'[q].shift = return[q].shift
                                 /\ paid'[q]["CASH"] = paid[q]["CASH"]
    BY <1>5, <1>6, <1>7
  <2>3. ASSUME NEW s \in Shifts, r \notin Uncounted'
        PROVE  handedOut'[s] = handedOut[s] + IF s = return'[r].shift THEN cash ELSE 0
    <3>1. handedOut[s] \in Nat /\ s # None
      BY Rows DEF IInv, Typed
    <3>2. handedOut'[s] = handedOut[s] + (IF s = shift /\ method = "CASH" THEN amount ELSE 0)
      BY <1>5
    <3>3. CASE cash = 0
      BY <3>1, <3>2, <3>3
    <3>4. CASE cash # 0
      <4>1. method = "CASH" /\ paid'[r]["CASH"] > 0
        BY <3>4, <2>1, <1>11
      <4>2. named = shift
        BY <4>1, <1>2, <1>4, <1>7, <2>3 DEF CanPayBack, Uncounted
      <4> QED BY <4>1, <4>2, <3>1, <3>2, <1>4, <1>7
    <3> QED BY <3>3, <3>4
  <2>4. return' \in [Returns -> ReturnRows]
    BY <1>9 DEF Typed
  <2> HIDE DEF cash
  <2> QED BY <1>2, <1>5, <1>11, <2>1, <2>2, <2>3, <2>4, CashCounted DEF IInv
<1> QED BY <1>9, <1>10, <1>12, <1>13, <1>14 DEF IInv

\* A refund of what a credit holds.
LEMMA RefundKeeps ==
  ASSUME IInv, NEW r \in Returns, NEW amount \in Amounts, NEW method \in {"CASH", "OTHER"},
         RefundStoreCredit(r, amount, method)
  PROVE  IInv'
<1>1. amount \in Nat
  BY AmountDomain
<1>2. /\ balance' = [balance EXCEPT ![r] = balance[r] - amount] /\ amount <= balance[r]
      /\ PayOut(r, method, amount) /\ UNCHANGED <<sale, return, shift, opened>>
      /\ return[r].type = "EXCHANGE"
      /\ method = "CASH" => return[r].shift = shift
  BY DEF RefundStoreCredit, CanRefund, IInv, Typed
<1>3. /\ paid' \in [Returns -> [{"CASH", "OTHER"} -> Nat]]
      /\ handedOut' \in [Shifts \cup {None} -> Nat]
      /\ \A q \in Returns :
           /\ paid'[q]["CASH"] = paid[q]["CASH"] + (IF q = r /\ method = "CASH" THEN amount ELSE 0)
           /\ paid'[q]["OTHER"] = paid[q]["OTHER"] + (IF q = r /\ method = "OTHER" THEN amount ELSE 0)
           /\ PaidOut(q)' = PaidOut(q) + (IF q = r /\ method # "NONE" THEN amount ELSE 0)
      /\ \A s \in Shifts :
           handedOut'[s] = handedOut[s] + (IF s = shift /\ method = "CASH" THEN amount ELSE 0)
  <2>1. method \in {"NONE", "CASH", "OTHER"} /\ Typed
    BY DEF IInv
  <2> QED BY <1>1, <1>2, <2>1, PayOutEffect
<1>4. \A q \in Returns : /\ paid[q]["CASH"] \in Nat /\ paid[q]["OTHER"] \in Nat /\ PaidOut(q) \in Nat
                         /\ balance[q] \in Nat /\ Spent(q) \in Nat
  BY SpentType DEF IInv, Typed, PaidOut
<1>5. \A q \in Returns : balance'[q] = balance[q] - IF q = r THEN amount ELSE 0
  BY <1>2, <1>4 DEF IInv, Typed
<1>6. Typed'
  <2>1. balance' \in [Returns -> Nat]
    <3>1. balance[r] - amount \in Nat
      BY <1>1, <1>2, <1>4
    <3> QED BY <1>2, <3>1 DEF IInv, Typed
  <2> QED BY <1>2, <1>3, <2>1 DEF IInv, Typed
<1>7. Settled'
  BY <1>2 DEF IInv, Settled
<1>8. PaidAtOnce'
  <2> SUFFICES ASSUME NEW q \in Returns, return[q].type \in {"NONE", "REFUND"}
               PROVE  /\ paid'[q]["CASH"] = paid[q]["CASH"] /\ paid'[q]["OTHER"] = paid[q]["OTHER"]
                      /\ PaidOut(q)' = PaidOut(q)
    BY <1>2 DEF IInv, PaidAtOnce
  <2>1. q # r
    BY <1>2
  <2> QED BY <2>1, <1>3, <1>4
<1>9. CreditsAddUp'
  <2>1. \A q \in Returns : Spent(q)' = Spent(q)
    BY <1>2, SpentStays
  <2> SUFFICES ASSUME NEW q \in Returns
               PROVE  /\ return[q].type = "EXCHANGE" =>
                           return[q].amount = balance'[q] + Spent(q)' + PaidOut(q)'
                      /\ return[q].type # "EXCHANGE" => balance'[q] = 0 /\ Spent(q)' = 0
    BY <1>2 DEF CreditsAddUp
  <2>2. CASE q = r
    <3>1. return[r].amount = balance[r] + Spent(r) + PaidOut(r)
      BY <1>2 DEF IInv, CreditsAddUp
    <3>2. balance'[r] = balance[r] - amount /\ PaidOut(r)' = PaidOut(r) + amount
      BY <1>3, <1>5
    <3> QED BY <2>1, <2>2, <3>1, <3>2, <1>1, <1>2, <1>4
  <2>3. CASE q # r
    BY <2>1, <2>3, <1>3, <1>4, <1>5 DEF IInv, CreditsAddUp
  <2> QED BY <2>2, <2>3
<1>10. CashRefundsAreCounted'
  <2> DEFINE cash == IF method = "CASH" THEN amount ELSE 0
  <2>1. cash \in Nat /\ paid'[r]["CASH"] = paid[r]["CASH"] + cash
    BY <1>1, <1>3
  <2>2. \A q \in Returns \ {r} : paid'[q]["CASH"] = paid[q]["CASH"]
    BY <1>3, <1>4
  <2>3. \A s \in Shifts : handedOut'[s] = handedOut[s] + IF s = return'[r].shift THEN cash ELSE 0
    <3> TAKE s \in Shifts
    <3>1. handedOut'[s] = handedOut[s] + (IF s = shift /\ method = "CASH" THEN amount ELSE 0)
          /\ handedOut[s] \in Nat
      BY <1>3 DEF IInv, Typed
    <3> QED BY <3>1, <1>2
  <2>4. return' \in [Returns -> ReturnRows]
    BY <1>6 DEF Typed
  <2> HIDE DEF cash
  <2> QED BY <1>2, <1>3, <2>1, <2>2, <2>3, <2>4, CashCounted DEF IInv
<1> QED BY <1>6, <1>7, <1>8, <1>9, <1>10 DEF IInv

\* What a checkout does, without how it came to its amounts.
Sells(x, row, exchange, method, refunded) ==
  /\ sale[x] = NoSale
  /\ row \in SaleRows /\ row.status = "COMPLETED" /\ row.quantity # 0
  /\ Tendered(row.payments) = row.total
  /\ sale' = [sale EXCEPT ![x] = row]
  /\ exchange # None => return[exchange].type = "EXCHANGE"
  /\ method # "NONE" => exchange # None
  /\ method = "NONE" => refunded = 0
  /\ method = "CASH" => return[exchange].shift = shift
  /\ shift # None
  /\ \A r \in Returns : balance[r] - Applied(row.payments, r) - (IF r = exchange THEN refunded ELSE 0) >= 0
  /\ balance' = [r \in Returns |-> balance[r] - Applied(row.payments, r)
                                     - (IF r = exchange THEN refunded ELSE 0)]
  /\ return' = [r \in Returns |-> IF r = exchange THEN [return[r] EXCEPT !.replaced = TRUE] ELSE return[r]]
  /\ PayOut(exchange, method, refunded)
  /\ UNCHANGED <<shift, opened>>

LEMMA CheckoutEffect ==
  ASSUME IInv, NEW x \in Sales, NEW quantity \in Sold, NEW gross \in Prices,
         NEW dl \in Discounts, NEW ds \in Discounts, Checkout(x, quantity, gross, dl, ds)
  PROVE  \E row \in SaleRows, exchange \in Returns \cup {None}, method \in {"NONE", "CASH", "OTHER"},
            refunded \in Nat : Sells(x, row, exchange, method, refunded)
<1> DEFINE priced == Priced(quantity, gross, dl, ds)
<1>1. /\ sale[x] = NoSale /\ shift # None
      /\ CanDiscount(gross, dl) /\ CanDiscount(priced.lineTotal, ds)
  BY DEF Checkout, NextSale
<1>2. priced \in SaleRows /\ priced.status = "COMPLETED" /\ priced.quantity # 0
  BY <1>1, PricedType
<1>3. PICK ps \in PaymentLists, exchange \in Returns \cup {None}, method \in {"NONE", "CASH", "OTHER"} :
        CanSettle(ps, priced.total) /\ Pay(x, priced, ps, exchange, method)
  BY DEF Checkout
<1> HIDE DEF priced
<1>4. priced.total \in Nat
  BY <1>2 DEF SaleRows
<1> DEFINE payments == SettlePayments(ps, priced.total)
<1>5. payments \in Seq(PaymentRows) /\ Tendered(payments) = priced.total
  BY <1>3, <1>4, InputsAreRows, SettledPayments
<1> DEFINE refunded == IF method = "NONE" THEN 0 ELSE Unused(exchange, priced.total)
<1> DEFINE left == [r \in Returns |-> balance[r] - Applied(payments, r)
                                        - (IF r = exchange THEN refunded ELSE 0)]
<1>6. /\ exchange # None => ExchangeApplies(exchange, payments, priced.total)
      /\ CanRefundUnused(exchange, priced.total, method)
      /\ \A r \in Returns : left[r] >= 0
      /\ balance' = left
      /\ sale' = [sale EXCEPT ![x] = [priced EXCEPT !.payments = payments]]
      /\ return' = [r \in Returns |-> IF r = exchange THEN [return[r] EXCEPT !.replaced = TRUE]
                                                      ELSE return[r]]
      /\ PayOut(exchange, method, refunded)
      /\ UNCHANGED <<shift, opened>>
  BY <1>3 DEF Pay
<1>7. method # "NONE" => exchange # None
  BY <1>6 DEF CanRefundUnused
<1>8. refunded \in Nat
  <2>1. CASE method = "NONE"
    BY <2>1
  <2>2. CASE method # "NONE"
    <3>1. balance[exchange] \in Nat
      BY <1>7, <2>2 DEF IInv, Typed
    <3>2. Unused(exchange, priced.total) \in Nat
      BY <3>1, <1>4 DEF Unused, Minimum
    <3> QED BY <2>2, <3>2
  <2> QED BY <2>1, <2>2
<1> HIDE DEF payments
<1> DEFINE row == [priced EXCEPT !.payments = payments]
<1>9. /\ row \in SaleRows /\ row.status = "COMPLETED" /\ row.quantity # 0
      /\ row.payments = payments /\ row.total = priced.total
  BY <1>2, <1>5 DEF SaleRows
<1>10. /\ exchange # None => return[exchange].type = "EXCHANGE"
       /\ method = "CASH" => return[exchange].shift = shift
  BY <1>6 DEF ExchangeApplies, CanRefundUnused
<1>11. method = "NONE" => refunded = 0
  OBVIOUS
<1> HIDE DEF refunded
<1>12. \A r \in Returns : balance[r] - Applied(payments, r) - (IF r = exchange THEN refunded ELSE 0) >= 0
  BY <1>6
<1>13. sale' = [sale EXCEPT ![x] = row]
  BY <1>6
<1> HIDE DEF row
<1>14. Sells(x, row, exchange, method, refunded)
  BY <1>1, <1>5, <1>6, <1>7, <1>9, <1>10, <1>11, <1>12, <1>13 DEF Sells
<1> QED BY <1>8, <1>9, <1>14

LEMMA CheckoutKeeps ==
  ASSUME IInv, NEW x \in Sales, NEW row \in SaleRows, NEW exchange \in Returns \cup {None},
         NEW method \in {"NONE", "CASH", "OTHER"}, NEW refunded \in Nat,
         Sells(x, row, exchange, method, refunded)
  PROVE  IInv'
<1> DEFINE back(r) == IF r = exchange THEN refunded ELSE 0
<1>1. /\ PayOut(exchange, method, refunded) /\ UNCHANGED <<shift, opened>>
      /\ sale' = [sale EXCEPT ![x] = row]
      /\ exchange # None => return[exchange].type = "EXCHANGE"
      /\ method # "NONE" => exchange # None
      /\ method = "NONE" => refunded = 0
  BY DEF Sells
<1>2. method # "NONE" => exchange \in Returns
  BY <1>1
<1>3. /\ paid' \in [Returns -> [{"CASH", "OTHER"} -> Nat]]
      /\ handedOut' \in [Shifts \cup {None} -> Nat]
      /\ \A q \in Returns :
           /\ paid'[q]["CASH"] = paid[q]["CASH"] + (IF q = exchange /\ method = "CASH" THEN refunded ELSE 0)
           /\ paid'[q]["OTHER"] = paid[q]["OTHER"] + (IF q = exchange /\ method = "OTHER" THEN refunded ELSE 0)
           /\ PaidOut(q)' = PaidOut(q) + (IF q = exchange /\ method # "NONE" THEN refunded ELSE 0)
      /\ \A s \in Shifts :
           handedOut'[s] = handedOut[s] + (IF s = shift /\ method = "CASH" THEN refunded ELSE 0)
  <2>1. Typed
    BY DEF IInv
  <2> QED BY <1>1, <1>2, <2>1, PayOutEffect
<1>4. \A q \in Returns : /\ paid[q]["CASH"] \in Nat /\ paid[q]["OTHER"] \in Nat /\ PaidOut(q) \in Nat
                         /\ balance[q] \in Nat /\ Spent(q) \in Nat /\ Applied(row.payments, q) \in Nat
  <2> TAKE q \in Returns
  <2>1. row.payments \in Seq(PaymentRows)
    BY DEF SaleRows
  <2>2. Applied(row.payments, q) \in Nat
    BY <2>1, AppliedType
  <2>3. Spent(q) \in Nat
    BY SpentType DEF IInv
  <2> QED BY <2>2, <2>3 DEF IInv, Typed, PaidOut
<1>5. \A q \in Returns : /\ PaidOut(q)' = PaidOut(q) + back(q)
                         /\ balance'[q] = balance[q] - Applied(row.payments, q) - back(q)
                         /\ balance'[q] \in Nat
  <2> TAKE q \in Returns
  <2>1. PaidOut(q)' = PaidOut(q) + back(q)
    BY <1>1, <1>3, <1>4
  <2>2. balance'[q] = balance[q] - Applied(row.payments, q) - back(q) /\ balance'[q] >= 0
    BY DEF Sells
  <2>3. back(q) \in Nat
    OBVIOUS
  <2> HIDE DEF back
  <2> QED BY <1>4, <2>1, <2>2, <2>3
<1>6. \A q \in Returns : /\ return'[q] \in ReturnRows
                         /\ return'[q].type = return[q].type /\ return'[q].shift = return[q].shift
                         /\ return'[q].amount = return[q].amount
  <2> TAKE q \in Returns
  <2>1. return[q] \in ReturnRows /\ return'[q] \in {return[q], [return[q] EXCEPT !.replaced = TRUE]}
    BY DEF Sells, IInv, Typed
  <2> QED BY <2>1 DEF ReturnRows
<1>7. return' \in [Returns -> ReturnRows] /\ balance' \in [Returns -> Nat]
  BY <1>5, <1>6 DEF Sells
<1>8. Typed'
  BY <1>1, <1>3, <1>7 DEF IInv, Typed
<1>9. Settled'
  BY DEF Sells, IInv, Settled, Typed
<1>10. PaidAtOnce'
  <2> SUFFICES ASSUME NEW q \in Returns, return[q].type \in {"NONE", "REFUND"}
               PROVE  /\ paid'[q]["CASH"] = paid[q]["CASH"] /\ paid'[q]["OTHER"] = paid[q]["OTHER"]
                      /\ PaidOut(q)' = PaidOut(q)
    BY <1>6 DEF IInv, PaidAtOnce
  <2>1. q # exchange
    BY <1>1, Rows
  <2> QED BY <2>1, <1>3, <1>4
<1>11. CreditsAddUp'
  <2> SUFFICES ASSUME NEW q \in Returns
               PROVE  /\ return[q].type = "EXCHANGE" =>
                           return[q].amount = balance'[q] + Spent(q)' + PaidOut(q)'
                      /\ return[q].type # "EXCHANGE" => balance'[q] = 0 /\ Spent(q)' = 0
    BY <1>6 DEF CreditsAddUp
  <2>1. Spent(q)' = Spent(q) + Applied(row.payments, q)
    <3>1. sale[x].payments = <<>> /\ sale' = [sale EXCEPT ![x] = row] /\ Typed
      BY DEF Sells, NoSale, IInv
    <3> QED BY <3>1, SpentGrows
  <2>2. back(q) \in Nat
    OBVIOUS
  <2>3. return[q].type # "EXCHANGE" => back(q) = 0
    BY <1>1, Rows
  <2> HIDE DEF back
  <2>4. CASE return[q].type = "EXCHANGE"
    <3>1. return[q].amount = balance[q] + Spent(q) + PaidOut(q)
      BY <2>4 DEF IInv, CreditsAddUp
    <3> QED BY <1>4, <1>5, <2>1, <2>2, <2>4, <3>1
  <2>5. CASE return[q].type # "EXCHANGE"
    <3>1. balance[q] = 0 /\ Spent(q) = 0
      BY <2>5 DEF IInv, CreditsAddUp
    <3>2. Applied(row.payments, q) = 0
      BY <1>4, <1>5, <2>3, <2>5, <3>1
    <3> QED BY <1>5, <2>1, <2>3, <2>5, <3>1, <3>2, SMTT(30)
  <2> QED BY <2>4, <2>5
<1>12. CashRefundsAreCounted'
  <2>1. CASE method = "CASH"
    <3>1. exchange \in Returns /\ return[exchange].shift = shift
      BY <1>2, <2>1 DEF Sells
    <3>2. paid'[exchange]["CASH"] = paid[exchange]["CASH"] + refunded
      BY <1>3, <2>1, <3>1
    <3>3. \A q \in Returns \ {exchange} : /\ return'[q].type = return[q].type
                                          /\ return'[q].shift = return[q].shift
                                          /\ paid'[q]["CASH"] = paid[q]["CASH"]
      BY <1>3, <1>4, <1>6
    <3>4. \A s \in Shifts : handedOut'[s] = handedOut[s] + IF s = return'[exchange].shift THEN refunded ELSE 0
      BY <1>3, <1>6, <2>1, <3>1
    <3> QED BY <1>3, <1>6, <1>7, <3>1, <3>2, <3>3, <3>4, CashCounted DEF IInv
  <2>2. CASE method # "CASH"
    <3>1. \A q \in Returns : return'[q].type = return[q].type /\ return'[q].shift = return[q].shift
                             /\ paid'[q]["CASH"] = paid[q]["CASH"]
      BY <1>3, <1>4, <1>6, <2>2
    <3>2. \A s \in Shifts : handedOut'[s] = handedOut[s]
      BY <1>1, <2>2 DEF PayOut
    <3>3. Uncounted' = Uncounted /\ \A s \in Shifts : CashRefunds(s)' = CashRefunds(s)
      BY <3>1 DEF Uncounted, CashRefunds
    <3> QED BY <3>2, <3>3 DEF IInv, CashRefundsAreCounted
  <2> QED BY <2>1, <2>2
<1> QED BY <1>8, <1>9, <1>10, <1>11, <1>12 DEF IInv

LEMMA Step ==
  ASSUME IInv, [Next]_vars
  PROVE  IInv'
<1>1. CASE OpenShift \/ CloseShift \/ UNCHANGED vars
  BY <1>1, ShiftKeeps
<1>2. ASSUME NEW x \in Sales, NEW quantity \in Sold, NEW gross \in Prices,
             NEW dl \in Discounts, NEW ds \in Discounts, Checkout(x, quantity, gross, dl, ds)
      PROVE  IInv'
  <2>1. PICK row \in SaleRows, exchange \in Returns \cup {None}, method \in {"NONE", "CASH", "OTHER"},
             refunded \in Nat : Sells(x, row, exchange, method, refunded)
    BY <1>2, CheckoutEffect
  <2> QED BY <2>1, CheckoutKeeps
<1>3. ASSUME NEW x \in Sales, VoidReceipt(x) PROVE IInv'
  BY <1>3, VoidKeeps
<1>4. ASSUME NEW r \in Returns, NEW x \in Sales, NEW type \in {"REFUND", "DISPOSE", "EXCHANGE"},
             NEW quantity \in Quantities, NEW method \in {"NONE", "CASH", "OTHER"},
             NEW named \in Shifts \cup {None}, CreateReturn(r, x, type, quantity, method, named)
      PROVE  IInv'
  BY <1>4, ReturnKeeps
<1>5. ASSUME NEW r \in Returns, NEW amount \in Amounts, NEW method \in {"CASH", "OTHER"},
             RefundStoreCredit(r, amount, method)
      PROVE  IInv'
  BY <1>5, RefundKeeps
<1> QED BY <1>1, <1>2, <1>3, <1>4, <1>5 DEF Next

LEMMA Invariant == Spec => []IInv
<1>1. Init => IInv
  BY Start
<1>2. IInv /\ [Next]_vars => IInv'
  BY Step
<1> QED BY <1>1, <1>2, PTL DEF Spec

-----------------------------------------------------------------------------
(* The books.                                                              *)

\* What is owed for returns is what credits hold, what sales were paid with and
\* what was paid back.
LEMMA OwedSplits ==
  ASSUME IInv
  PROVE  SumOf([r \in Returns |-> Owed(r)], MaxReturns)
           = SumOf([r \in Returns |-> balance[r]], MaxReturns)
             + SumOf([r \in Returns |-> Spent(r)], MaxReturns)
             + SumOf([r \in Returns |-> PaidOut(r)], MaxReturns)
<1> DEFINE owed == [r \in Returns |-> Owed(r)]
<1> DEFINE held == [r \in Returns |-> balance[r]]
<1> DEFINE spent == [r \in Returns |-> Spent(r)]
<1> DEFINE back == [r \in Returns |-> PaidOut(r)]
<1> DEFINE both == [r \in Returns |-> balance[r] + Spent(r)]
<1>1. \A r \in Returns : /\ balance[r] \in Nat /\ Spent(r) \in Nat /\ PaidOut(r) \in Nat
                         /\ return[r] \in ReturnRows
  BY SpentType DEF IInv, Typed, PaidOut
<1>2. \A r \in Returns : Owed(r) = balance[r] + Spent(r) + PaidOut(r)
  <2> TAKE r \in Returns
  <2>1. CASE return[r].type = "EXCHANGE"
    BY <2>1 DEF IInv, CreditsAddUp, Owed
  <2>2. CASE return[r].type # "EXCHANGE"
    <3>1. balance[r] = 0 /\ Spent(r) = 0
      BY <2>2 DEF IInv, CreditsAddUp
    <3>2. Owed(r) = PaidOut(r)
      BY <1>1, <2>2 DEF IInv, PaidAtOnce, PaidOut, Owed, ReturnRows
    <3> QED BY <1>1, <3>1, <3>2
  <2> QED BY <2>1, <2>2
<1>3. /\ owed \in [1 .. MaxReturns -> Int] /\ held \in [1 .. MaxReturns -> Int]
      /\ spent \in [1 .. MaxReturns -> Int] /\ back \in [1 .. MaxReturns -> Int]
      /\ both \in [1 .. MaxReturns -> Int]
  <2>1. \A r \in Returns : Owed(r) \in Int
    BY <1>1, <1>2
  <2> QED BY <1>1, <2>1, Rows
<1>4. /\ \A r \in 1 .. MaxReturns : both[r] = held[r] + spent[r]
      /\ \A r \in 1 .. MaxReturns : owed[r] = both[r] + back[r]
  BY <1>2, Rows
<1> HIDE DEF owed, held, spent, back, both
<1>5. SumOf(both, MaxReturns) = SumOf(held, MaxReturns) + SumOf(spent, MaxReturns)
  BY <1>3, <1>4, Rows, SumAdd, ZenonT(30)
<1>6. SumOf(owed, MaxReturns) = SumOf(both, MaxReturns) + SumOf(back, MaxReturns)
  BY <1>3, <1>4, Rows, SumAdd, ZenonT(30)
<1> QED BY <1>5, <1>6 DEF owed, held, spent, back

Credits(x) == SumOf([r \in Returns |-> SpentOn(x, r)], MaxReturns)

LEMMA CreditsType ==
  ASSUME Typed, NEW x \in Sales
  PROVE  [r \in Returns |-> SpentOn(x, r)] \in [1 .. MaxReturns -> Int] /\ Credits(x) \in Int
<1>1. \A r \in Returns : SpentOn(x, r) \in Int
  BY AppliedType DEF Typed, SaleRows, SpentOn
<1> QED BY <1>1, Rows, SumType DEF Credits

\* The credit that was spent, sale by sale and return by return.
LEMMA SpentSwap ==
  ASSUME Typed
  PROVE  SumOf([r \in Returns |-> Spent(r)], MaxReturns)
           = SumOf([x \in Sales |-> Credits(x)], MaxSales)
<1> DEFINE f == [x \in 1 .. MaxSales |-> [r \in 1 .. MaxReturns |-> SpentOn(x, r)]]
<1>1. f \in [1 .. MaxSales -> [1 .. MaxReturns -> Int]]
  BY CreditsType, Rows
<1>2. SumOf([x \in 1 .. MaxSales |-> SumOf(f[x], MaxReturns)], MaxSales)
        = SumOf([r \in 1 .. MaxReturns |-> SumOf([x \in 1 .. MaxSales |-> f[x][r]], MaxSales)], MaxReturns)
  <2> HIDE DEF f
  <2> QED BY <1>1, Rows, SumSwap
<1>3. [x \in 1 .. MaxSales |-> SumOf(f[x], MaxReturns)] = [x \in Sales |-> Credits(x)]
  BY Rows DEF Credits
<1>4. [r \in 1 .. MaxReturns |-> SumOf([x \in 1 .. MaxSales |-> f[x][r]], MaxSales)]
        = [r \in Returns |-> Spent(r)]
  BY Rows DEF Spent
<1> QED BY <1>2, <1>3, <1>4

\* Money and credit make up every sale that stands; a sale that does not exist
\* took no credit.
LEMMA SalesSplit ==
  ASSUME IInv
  PROVE  LET taken == TotalOf([x \in Sales |-> Money(sale[x].payments)], "COMPLETED")
             worth == TotalOf([x \in Sales |-> sale[x].total], "COMPLETED")
             kept  == TotalOf([x \in Sales |-> Credits(x)], "VOIDED")
         IN  /\ taken \in Int /\ kept \in Int
             /\ worth + kept = taken + SumOf([x \in Sales |-> Credits(x)], MaxSales)
<1> DEFINE all == [x \in Sales |-> Credits(x)]
<1> DEFINE money == [x \in Sales |-> Money(sale[x].payments)]
<1> DEFINE total == [x \in Sales |-> sale[x].total]
<1> DEFINE only(f, status) == [x \in Sales |-> IF sale[x].status = status THEN f[x] ELSE 0]
<1> DEFINE taken == only(money, "COMPLETED")
<1> DEFINE worth == only(total, "COMPLETED")
<1> DEFINE kept == only(all, "VOIDED")
<1> DEFINE sum == [x \in Sales |-> worth[x] + kept[x]]
<1>1. \A x \in Sales : /\ Credits(x) \in Int /\ Money(sale[x].payments) \in Int /\ sale[x].total \in Int
                       /\ sale[x].status \in {"NONE", "COMPLETED", "VOIDED"}
                       /\ sale[x].status # "NONE" =>
                            sale[x].total = Money(sale[x].payments) + Credits(x)
                       /\ sale[x].status = "NONE" => Credits(x) = 0
  <2> TAKE x \in Sales
  <2>1. sale[x] \in SaleRows
    BY DEF IInv, Typed
  <2>2. sale[x].payments \in Seq(PaymentRows) /\ sale[x].total \in Int
        /\ sale[x].status \in {"NONE", "COMPLETED", "VOIDED"}
    BY <2>1 DEF SaleRows
  <2>3. Credits(x) \in Int
    BY CreditsType DEF IInv
  <2>4. Money(sale[x].payments) \in Int
    <3>1. /\ SumOf(AmountOf(sale[x].payments, None), Len(sale[x].payments)) \in Int
          /\ Money(sale[x].payments) = SumOf(AmountOf(sale[x].payments, None), Len(sale[x].payments))
      BY <2>2, PaymentSums, SumType
    <3> QED BY <3>1
  <2>5. Tendered(sale[x].payments) = Money(sale[x].payments) + Credits(x)
    BY <2>2, TenderedSplits DEF Credits, SpentOn
  <2>6. sale[x].status # "NONE" => sale[x].total = Money(sale[x].payments) + Credits(x)
    BY <2>5 DEF IInv, Settled
  <2>7. ASSUME sale[x].status = "NONE" PROVE Credits(x) = 0
    <3>1. sale[x].payments = <<>>
      BY <2>7 DEF IInv, Settled
    <3>2. \A r \in Returns : SpentOn(x, r) = 0
      BY <3>1, NoPayments DEF SpentOn
    <3> QED BY <3>2, Rows, SumZero DEF Credits
  <2> QED BY <2>2, <2>3, <2>4, <2>6, <2>7
<1>2. /\ taken \in [1 .. MaxSales -> Int] /\ worth \in [1 .. MaxSales -> Int]
      /\ kept \in [1 .. MaxSales -> Int] /\ all \in [1 .. MaxSales -> Int]
      /\ sum \in [1 .. MaxSales -> Int]
  BY <1>1, Rows
<1>3. \A x \in Sales : sum[x] = worth[x] + kept[x]
  OBVIOUS
<1>4. \A x \in Sales : sum[x] = taken[x] + all[x]
  BY <1>1
<1>5. TotalOf(money, "COMPLETED") = SumOf(taken, MaxSales)
      /\ TotalOf(total, "COMPLETED") = SumOf(worth, MaxSales)
      /\ TotalOf(all, "VOIDED") = SumOf(kept, MaxSales)
  BY DEF TotalOf
<1> HIDE DEF taken, worth, kept, sum
<1>6. SumOf(taken, MaxSales) \in Int /\ SumOf(kept, MaxSales) \in Int
  BY <1>2, Rows, SumType
<1> HIDE DEF all
<1>7. SumOf(sum, MaxSales) = SumOf(worth, MaxSales) + SumOf(kept, MaxSales)
  BY <1>2, <1>3, Rows, SumAdd
<1>8. SumOf(sum, MaxSales) = SumOf(taken, MaxSales) + SumOf(all, MaxSales)
  BY <1>2, <1>4, Rows, SumAdd
<1> QED BY <1>5, <1>6, <1>7, <1>8 DEF all

LEMMA Books == IInv => BooksBalance
<1> SUFFICES ASSUME IInv PROVE BooksBalance
  OBVIOUS
<1> DEFINE taken  == TotalOf([x \in Sales |-> Money(sale[x].payments)], "COMPLETED")
<1> DEFINE worth  == TotalOf([x \in Sales |-> sale[x].total], "COMPLETED")
<1> DEFINE kept   == TotalOf([x \in Sales |-> Credits(x)], "VOIDED")
<1> DEFINE back   == SumOf([r \in Returns |-> PaidOut(r)], MaxReturns)
<1> DEFINE owed   == SumOf([r \in Returns |-> Owed(r)], MaxReturns)
<1> DEFINE credit == SumOf([r \in Returns |-> balance[r]], MaxReturns)
<1> DEFINE spent  == SumOf([r \in Returns |-> Spent(r)], MaxReturns)
<1>1. owed = credit + spent + back
  BY OwedSplits
<1>2. taken \in Int /\ kept \in Int /\ worth + kept = taken + spent
  <2>1. Typed
    BY DEF IInv
  <2> QED BY <2>1, SalesSplit, SpentSwap
<1>3. worth \in Int /\ back \in Int /\ credit \in Int /\ spent \in Int
  <2>1. \A r \in Returns : balance[r] \in Nat /\ Spent(r) \in Nat /\ PaidOut(r) \in Nat
    BY SpentType DEF IInv, Typed, PaidOut
  <2>2. /\ [r \in Returns |-> PaidOut(r)] \in [1 .. MaxReturns -> Int]
        /\ [r \in Returns |-> balance[r]] \in [1 .. MaxReturns -> Int]
        /\ [r \in Returns |-> Spent(r)] \in [1 .. MaxReturns -> Int]
    BY <2>1, Rows
  <2>3. back \in Int /\ credit \in Int /\ spent \in Int
    BY <2>2, Rows, SumType
  <2>4. worth \in Int
    <3> DEFINE f == [x \in Sales |-> IF sale[x].status = "COMPLETED" THEN sale[x].total ELSE 0]
    <3>1. f \in [1 .. MaxSales -> Int]
      BY Rows DEF IInv, Typed, SaleRows
    <3>2. worth = SumOf(f, MaxSales)
      BY DEF TotalOf
    <3> HIDE DEF f
    <3> QED BY <3>1, <3>2, Rows, SumType
  <2> QED BY <2>3, <2>4
<1>4. BooksBalance <=> taken - back = worth - owed + credit + kept
  BY DEF BooksBalance, Credits
<1> HIDE DEF taken, worth, kept, back, owed, credit, spent
<1> QED BY <1>1, <1>2, <1>3, <1>4

-----------------------------------------------------------------------------
(* The lines that goods come back to.                                      *)

\* Quantities, and shares of l by rounding, of what came back of q in count parts.
Within(q, l, given, share, count) ==
  /\ given <= q
  /\ 2 * (share * q - l * given) <= q * count
  /\ -2 * (share * q - l * given) <= q * count

\* Math.round is off by half at most.
LEMMA RoundingError ==
  ASSUME NEW a \in Nat, NEW b \in Nat, b # 0
  PROVE  2 * (Rounded(a, b) * b - a) <= b /\ -2 * (Rounded(a, b) * b - a) <= b
<1> DEFINE n == 2 * a + b
<1> DEFINE d == 2 * b
<1> DEFINE k == n \div d
<1>1. n \in Nat /\ d \in Nat /\ d > 0
  OBVIOUS
<1> HIDE DEF n, d
<1>2. k \in Nat /\ d * k <= n /\ n < d * k + d
  BY <1>1, QuotientType
<1>3. Rounded(a, b) = k
  BY DEF Rounded, n, d
<1> HIDE DEF k
<1>4. d * k = 2 * (k * b)
  BY <1>2 DEF d
<1> DEFINE kb == k * b
<1>5. kb \in Nat
  BY <1>2
<1> HIDE DEF kb
<1>6. 2 * kb <= 2 * a + b /\ 2 * a + b < 2 * kb + 2 * b
  BY <1>2, <1>4 DEF n, d, kb
<1>7. 2 * (kb - a) <= b /\ -2 * (kb - a) <= b
  BY <1>5, <1>6
<1> QED BY <1>3, <1>7 DEF kb

LEMMA WithinGrows ==
  ASSUME NEW q \in Nat, q # 0, NEW l \in Nat, NEW given \in Nat, NEW share \in Nat, NEW count \in Nat,
         NEW n \in Nat, n <= q - given, Within(q, l, given, share, count)
  PROVE  Within(q, l, given + n, share + Rounded(l * n, q), count + 1)
<1> DEFINE a == Rounded(l * n, q)
<1> DEFINE aq == a * q
<1> DEFINE ln == l * n
<1> DEFINE sq == share * q
<1> DEFINE lg == l * given
<1> DEFINE qc == q * count
<1>1. ln \in Nat /\ sq \in Nat /\ lg \in Nat /\ qc \in Nat
  OBVIOUS
<1>2. a \in Nat
  BY <1>1, RoundedType
<1>3. 2 * (aq - ln) <= q /\ -2 * (aq - ln) <= q
  <2> HIDE DEF ln
  <2>1. a = Rounded(ln, q)
    BY DEF ln
  <2> QED BY <1>1, <2>1, RoundingError
<1> HIDE DEF a
<1>4. aq \in Nat
  BY <1>2
<1>5. (share + a) * q = sq + aq /\ l * (given + n) = lg + ln /\ q * (count + 1) = qc + q
  BY <1>2
<1>6. 2 * (sq - lg) <= qc /\ -2 * (sq - lg) <= qc
  BY DEF Within
<1> HIDE DEF aq, ln, sq, lg, qc
<1>7. 2 * ((sq + aq) - (lg + ln)) <= qc + q /\ -2 * ((sq + aq) - (lg + ln)) <= qc + q
  BY <1>1, <1>3, <1>4, <1>6
<1>8. given + n <= q
  OBVIOUS
<1> QED BY <1>5, <1>7, <1>8 DEF Within, a

LEMMA WithinDef ==
  ReturnsWithinLine <=>
    \A x \in Sales : Within(sale[x].quantity, sale[x].lineTotal, Returned(x), RefundShare(x),
                            Cardinality(ReturnsOf(x)))
BY DEF ReturnsWithinLine, Within

\* Goods come back to sales only.
LinesExist ==
  \A r \in Returns :
    IF return[r].type = "NONE" THEN return[r].sale = None
    ELSE return[r].sale \in Sales /\ sale[return[r].sale].status # "NONE"

LineInv == IInv /\ LinesExist /\ ReturnsWithinLine

Back(x)  == [r \in Returns |-> IF r \in ReturnsOf(x) THEN return[r].quantity ELSE 0]
Share(x) == [r \in Returns |-> IF r \in ReturnsOf(x) THEN return[r].amount ELSE 0]

LEMMA LineTypes ==
  ASSUME Typed, NEW x \in Sales
  PROVE  /\ Back(x) \in [1 .. MaxReturns -> Nat] /\ Returned(x) = SumOf(Back(x), MaxReturns)
         /\ Share(x) \in [1 .. MaxReturns -> Nat] /\ RefundShare(x) = SumOf(Share(x), MaxReturns)
         /\ Returned(x) \in Nat /\ RefundShare(x) \in Nat
         /\ IsFiniteSet(ReturnsOf(x)) /\ Cardinality(ReturnsOf(x)) \in Nat
<1>1. Back(x) \in [1 .. MaxReturns -> Nat] /\ Share(x) \in [1 .. MaxReturns -> Nat]
  BY Rows DEF Typed, ReturnRows, Back, Share
<1>2. Returned(x) = SumOf(Back(x), MaxReturns) /\ RefundShare(x) = SumOf(Share(x), MaxReturns)
  BY DEF Returned, RefundShare, Back, Share
<1>3. IsFiniteSet(ReturnsOf(x)) /\ Cardinality(ReturnsOf(x)) \in Nat
  <2>1. IsFiniteSet(1 .. MaxReturns)
    BY Rows, FS_Interval
  <2>2. ReturnsOf(x) \subseteq 1 .. MaxReturns
    BY Rows DEF ReturnsOf
  <2> QED BY <2>1, <2>2, FS_Subset, FS_CardinalityType
<1> QED BY <1>1, <1>2, <1>3, Rows, SumBounds

\* A step that touches no return keeps what came back of every line.
LEMMA LinesStay ==
  ASSUME \A r \in Returns : /\ return'[r].sale = return[r].sale /\ return'[r].amount = return[r].amount
                            /\ return'[r].quantity = return[r].quantity,
         NEW x \in Sales
  PROVE  /\ ReturnsOf(x)' = ReturnsOf(x) /\ Returned(x)' = Returned(x)
         /\ RefundShare(x)' = RefundShare(x)
<1>1. ReturnsOf(x)' = ReturnsOf(x)
  BY DEF ReturnsOf
<1> QED BY <1>1 DEF ReturnsOf, Returned, RefundShare

\* Nothing came back of a sale that is yet to be.
LEMMA NothingBack ==
  ASSUME Typed, LinesExist, NEW x \in Sales, sale[x].status = "NONE"
  PROVE  ReturnsOf(x) = {} /\ Returned(x) = 0 /\ RefundShare(x) = 0
<1>1. ReturnsOf(x) = {}
  <2>1. \A r \in Returns : return[r].sale # x
    BY Rows DEF LinesExist, None
  <2> QED BY <2>1 DEF ReturnsOf
<1>2. \A r \in 1 .. MaxReturns : Back(x)[r] = 0 /\ Share(x)[r] = 0
  BY <1>1, Rows DEF Back, Share
<1>3. Back(x) \in [1 .. MaxReturns -> Int] /\ Share(x) \in [1 .. MaxReturns -> Int]
  BY LineTypes
<1> QED BY <1>1, <1>2, <1>3, LineTypes, Rows, SumZero

\* The steps that create no return.
LEMMA OthersKeepLines ==
  ASSUME LineInv, IInv',
         \A r \in Returns : /\ return'[r].sale = return[r].sale /\ return'[r].amount = return[r].amount
                            /\ return'[r].quantity = return[r].quantity
                            /\ return'[r].type = return[r].type,
         \A x \in Sales : \/ /\ sale'[x].quantity = sale[x].quantity
                             /\ sale'[x].lineTotal = sale[x].lineTotal
                             /\ sale[x].status # "NONE" => sale'[x].status # "NONE"
                          \/ sale[x].status = "NONE" /\ sale'[x] \in SaleRows /\ sale'[x].status # "NONE"
  PROVE  LineInv'
<1>1. LinesExist'
  BY Rows DEF LineInv, LinesExist
<1>2. ReturnsWithinLine'
  <2> SUFFICES ASSUME NEW x \in Sales
               PROVE  Within(sale'[x].quantity, sale'[x].lineTotal, Returned(x)', RefundShare(x)',
                             Cardinality(ReturnsOf(x)'))
    BY DEF ReturnsWithinLine, Within
  <2>1. ReturnsOf(x)' = ReturnsOf(x) /\ Returned(x)' = Returned(x) /\ RefundShare(x)' = RefundShare(x)
    BY LinesStay
  <2>2. CASE sale'[x].quantity = sale[x].quantity /\ sale'[x].lineTotal = sale[x].lineTotal
    BY <2>1, <2>2, WithinDef DEF LineInv
  <2>3. CASE sale[x].status = "NONE" /\ sale'[x] \in SaleRows
    <3>1. ReturnsOf(x) = {} /\ Returned(x) = 0 /\ RefundShare(x) = 0
      BY <2>3, NothingBack DEF LineInv, IInv
    <3>2. Cardinality({}) = 0
      BY FS_EmptySet
    <3>3. sale'[x].quantity \in Nat /\ sale'[x].lineTotal \in Nat
      BY <2>3 DEF SaleRows
    <3> QED BY <2>1, <3>1, <3>2, <3>3 DEF Within
  <2> QED BY <2>2, <2>3
<1> QED BY <1>1, <1>2 DEF LineInv

LEMMA ReturnKeepsLines ==
  ASSUME LineInv, IInv',
         NEW r \in Returns, NEW x \in Sales, NEW type \in {"REFUND", "DISPOSE", "EXCHANGE"},
         NEW quantity \in Quantities, NEW method \in {"NONE", "CASH", "OTHER"},
         NEW named \in Shifts \cup {None}, CreateReturn(r, x, type, quantity, method, named)
  PROVE  LineInv'
<1> DEFINE amount == Rounded(sale[x].lineTotal * quantity, sale[x].quantity)
<1> DEFINE row == [type |-> type, sale |-> x, quantity |-> quantity, amount |-> amount,
                   shift |-> named, replaced |-> FALSE]
<1>1. /\ return' = [return EXCEPT ![r] = row] /\ sale' = sale
      /\ return[r].type = "NONE" /\ sale[x].status = "COMPLETED"
      /\ quantity <= sale[x].quantity - Returned(x)
  BY DEF CreateReturn, NextReturn, NoReturn, Remaining
<1>2. row.type # "NONE" /\ row.sale = x /\ row.quantity = quantity /\ row.amount = amount
  OBVIOUS
<1>3. /\ sale[x].quantity \in Nat /\ sale[x].quantity # 0 /\ sale[x].lineTotal \in Nat /\ quantity \in Nat
  BY <1>1, QuantityDomain DEF LineInv, IInv, Typed, SaleRows, Settled
<1> HIDE DEF row
<1>4. return'[r] = row /\ \A q \in Returns : q # r => return'[q] = return[q]
  BY <1>1 DEF LineInv, IInv, Typed
<1>5. return[r].sale = None /\ \A y \in Sales : r \notin ReturnsOf(y)
  BY <1>1, Rows DEF LineInv, LinesExist, ReturnsOf, None
<1>6. LinesExist'
  <2> SUFFICES ASSUME NEW q \in Returns
               PROVE  IF return'[q].type = "NONE" THEN return'[q].sale = None
                      ELSE return'[q].sale \in Sales /\ sale'[return'[q].sale].status # "NONE"
    BY DEF LinesExist
  <2>1. CASE q = r
    BY <2>1, <1>1, <1>2, <1>4
  <2>2. CASE q # r
    BY <2>2, <1>1, <1>4 DEF LineInv, LinesExist
  <2> QED BY <2>1, <2>2
<1>7. ReturnsWithinLine'
  <2> SUFFICES ASSUME NEW y \in Sales
               PROVE  Within(sale[y].quantity, sale[y].lineTotal, Returned(y)', RefundShare(y)',
                             Cardinality(ReturnsOf(y)'))
    BY <1>1 DEF ReturnsWithinLine, Within
  <2>1. Within(sale[y].quantity, sale[y].lineTotal, Returned(y), RefundShare(y), Cardinality(ReturnsOf(y)))
    BY WithinDef DEF LineInv
  <2>2. Typed /\ Typed'
    BY DEF LineInv, IInv
  <2>3. CASE y # x
    <3>1. ReturnsOf(y)' = ReturnsOf(y)
      BY <2>3, <1>2, <1>4, <1>5 DEF ReturnsOf
    <3>2. Returned(y)' = Returned(y) /\ RefundShare(y)' = RefundShare(y)
      BY <3>1, <1>4, <1>5 DEF Returned, RefundShare
    <3> QED BY <2>1, <3>1, <3>2
  <2>4. CASE y = x
    <3>1. ReturnsOf(x)' = ReturnsOf(x) \cup {r}
      BY <1>2, <1>4, <1>5 DEF ReturnsOf
    <3>2. Cardinality(ReturnsOf(x)') = Cardinality(ReturnsOf(x)) + 1
      BY <1>5, <2>2, <3>1, LineTypes, FS_AddElement
    <3> DEFINE f == Back(x)
    <3> DEFINE g == Back(x)'
    <3> DEFINE h == Share(x)
    <3> DEFINE k == Share(x)'
    <3>3. /\ f[r] = 0 /\ g[r] = quantity /\ \A q \in Returns : q # r => g[q] = f[q]
          /\ h[r] = 0 /\ k[r] = amount /\ \A q \in Returns : q # r => k[q] = h[q]
      BY <1>2, <1>4, <1>5, <3>1 DEF Back, Share
    <3>4. /\ f \in [1 .. MaxReturns -> Nat] /\ h \in [1 .. MaxReturns -> Nat]
          /\ Returned(x) = SumOf(f, MaxReturns) /\ RefundShare(x) = SumOf(h, MaxReturns)
          /\ Returned(x) \in Nat /\ RefundShare(x) \in Nat /\ Cardinality(ReturnsOf(x)) \in Nat
      BY <2>2, LineTypes
    <3>5. amount \in Nat
      <4>1. sale[x].lineTotal * quantity \in Nat
        BY <1>3
      <4> QED BY <1>3, <4>1, RoundedType
    <3>6. /\ g = [q \in Returns |-> IF q \in ReturnsOf(x)' THEN return'[q].quantity ELSE 0]
          /\ k = [q \in Returns |-> IF q \in ReturnsOf(x)' THEN return'[q].amount ELSE 0]
          /\ Returned(x)' = SumOf(g, MaxReturns) /\ RefundShare(x)' = SumOf(k, MaxReturns)
      BY DEF Returned, RefundShare, Back, Share
    <3> HIDE DEF f, g, h, k, amount
    <3>7. /\ g \in [1 .. MaxReturns -> Int] /\ k \in [1 .. MaxReturns -> Int]
          /\ f \in [1 .. MaxReturns -> Int] /\ h \in [1 .. MaxReturns -> Int]
          /\ r \in 1 .. MaxReturns /\ MaxReturns \in Nat
          /\ \A q \in 1 .. MaxReturns : q # r => g[q] = f[q]
          /\ \A q \in 1 .. MaxReturns : q # r => k[q] = h[q]
      <4>1. \A q \in Returns : g[q] \in Int /\ k[q] \in Int
        <5> TAKE q \in Returns
        <5>1. f[q] \in Int /\ h[q] \in Int /\ quantity \in Int /\ amount \in Int
          BY <1>3, <3>4, <3>5, Rows
        <5> QED BY <3>3, <5>1
      <4>2. Returns = 1 .. MaxReturns /\ r \in Returns /\ MaxReturns \in Nat
        BY Rows
      <4>3. g \in [Returns -> Int] /\ k \in [Returns -> Int]
        BY <3>6, <4>1
      <4>4. f \in [Returns -> Int] /\ h \in [Returns -> Int]
        BY <3>4, <4>2
      <4> QED BY <3>3, <4>2, <4>3, <4>4
    <3>8. Returned(x)' = Returned(x) + quantity
      <4>1. SumOf(g, MaxReturns) = SumOf(f, MaxReturns) + (g[r] - f[r])
        BY <3>7, SumChange
      <4> QED BY <1>3, <3>3, <3>4, <3>6, <4>1
    <3>9. RefundShare(x)' = RefundShare(x) + amount
      <4>1. SumOf(k, MaxReturns) = SumOf(h, MaxReturns) + (k[r] - h[r])
        BY <3>7, SumChange
      <4> QED BY <3>3, <3>4, <3>5, <3>6, <4>1
    <3>10. Within(sale[x].quantity, sale[x].lineTotal, Returned(x) + quantity, RefundShare(x) + amount,
                  Cardinality(ReturnsOf(x)) + 1)
      BY <1>1, <1>3, <2>1, <2>4, <3>4, WithinGrows DEF amount
    <3> QED BY <2>4, <3>2, <3>8, <3>9, <3>10
  <2> QED BY <2>3, <2>4
<1> QED BY <1>6, <1>7 DEF LineInv

LEMMA LinesStep ==
  ASSUME LineInv, [Next]_vars
  PROVE  LineInv'
<1>1. IInv' /\ IInv
  BY Step DEF LineInv
<1>2. CASE OpenShift \/ CloseShift \/ UNCHANGED vars
           \/ \E r \in Returns, amount \in Amounts, method \in {"CASH", "OTHER"} :
                RefundStoreCredit(r, amount, method)
  <2>1. UNCHANGED <<sale, return>>
    BY <1>2 DEF OpenShift, CloseShift, vars, RefundStoreCredit
  <2> QED BY <1>1, <2>1, OthersKeepLines
<1>3. ASSUME NEW x \in Sales, NEW quantity \in Sold, NEW gross \in Prices,
             NEW dl \in Discounts, NEW ds \in Discounts, Checkout(x, quantity, gross, dl, ds)
      PROVE  LineInv'
  <2>1. PICK row \in SaleRows, exchange \in Returns \cup {None}, method \in {"NONE", "CASH", "OTHER"},
             refunded \in Nat : Sells(x, row, exchange, method, refunded)
    BY <1>1, <1>3, CheckoutEffect
  <2>2. \A r \in Returns : /\ return'[r].sale = return[r].sale /\ return'[r].amount = return[r].amount
                           /\ return'[r].quantity = return[r].quantity
                           /\ return'[r].type = return[r].type
    <3> TAKE r \in Returns
    <3>1. return[r] \in ReturnRows /\ return'[r] \in {return[r], [return[r] EXCEPT !.replaced = TRUE]}
      BY <1>1, <2>1 DEF Sells, IInv, Typed
    <3> QED BY <3>1 DEF ReturnRows
  <2>3. sale'[x] = row /\ sale[x].status = "NONE" /\ row.status # "NONE"
        /\ \A y \in Sales : y # x => sale'[y] = sale[y]
    BY <1>1, <2>1 DEF Sells, IInv, Typed, NoSale
  <2> QED BY <1>1, <2>2, <2>3, OthersKeepLines
<1>4. ASSUME NEW x \in Sales, VoidReceipt(x) PROVE LineInv'
  <2>1. return' = return
    BY <1>4 DEF VoidReceipt
  <2>2. \A y \in Sales : /\ sale'[y].quantity = sale[y].quantity
                         /\ sale'[y].lineTotal = sale[y].lineTotal
                         /\ sale[y].status # "NONE" => sale'[y].status # "NONE"
    BY <1>1, <1>4 DEF VoidReceipt, IInv, Typed, SaleRows
  <2> QED BY <1>1, <2>1, <2>2, OthersKeepLines
<1>5. ASSUME NEW r \in Returns, NEW x \in Sales, NEW type \in {"REFUND", "DISPOSE", "EXCHANGE"},
             NEW quantity \in Quantities, NEW method \in {"NONE", "CASH", "OTHER"},
             NEW named \in Shifts \cup {None}, CreateReturn(r, x, type, quantity, method, named)
      PROVE  LineInv'
  BY <1>1, <1>5, ReturnKeepsLines
<1> QED BY <1>2, <1>3, <1>4, <1>5 DEF Next

LEMMA LinesStart == Init => LineInv
<1> SUFFICES ASSUME Init PROVE LineInv
  OBVIOUS
<1>1. IInv
  BY Start
<1>2. LinesExist
  BY DEF Init, LinesExist, NoReturn
<1>3. ReturnsWithinLine
  <2> SUFFICES ASSUME NEW x \in Sales
               PROVE  Within(sale[x].quantity, sale[x].lineTotal, Returned(x), RefundShare(x),
                             Cardinality(ReturnsOf(x)))
    BY WithinDef
  <2>1. sale[x] = NoSale /\ NoSale.status = "NONE" /\ NoSale.quantity = 0 /\ NoSale.lineTotal = 0
    BY DEF Init, NoSale
  <2>2. ReturnsOf(x) = {} /\ Returned(x) = 0 /\ RefundShare(x) = 0
    BY <1>1, <1>2, <2>1, NothingBack DEF IInv
  <2>3. Cardinality({}) = 0
    BY FS_EmptySet
  <2> QED BY <2>1, <2>2, <2>3 DEF Within
<1> QED BY <1>1, <1>2, <1>3 DEF LineInv

-----------------------------------------------------------------------------
\* The rows of the module have their types: no credit, refund or drawer total is
\* ever negative, whatever is discounted, paid in excess, refunded or returned.
THEOREM Types == Spec => []TypeOK
<1>1. IInv => TypeOK
  <2> SUFFICES ASSUME IInv PROVE TypeOK
    OBVIOUS
  <2>1. \A x \in Sales :
          /\ sale[x].status \in {"NONE", "COMPLETED", "VOIDED"}
          /\ sale[x].quantity \in Nat /\ sale[x].lineTotal \in Nat /\ sale[x].total \in Nat
          /\ sale[x].payments \in Seq(PaymentRows)
    BY DEF IInv, Typed, SaleRows
  <2>2. \A x \in Sales : \A i \in DOMAIN sale[x].payments : sale[x].payments[i].amount \in Int
    <3> TAKE x \in Sales
    <3>1. \A i \in DOMAIN sale[x].payments : sale[x].payments[i] \in PaymentRows
      BY <2>1
    <3>2. \A p \in PaymentRows : p.amount \in Int
      BY DEF PaymentRows
    <3> QED BY <3>1, <3>2
  <2> QED BY <2>1, <2>2 DEF IInv, Typed, ReturnRows, TypeOK
<1> QED BY <1>1, Invariant, PTL

\* Every receipt is paid to the cent, change taken off (settlePayments).
THEOREM ReceiptsSettled == Spec => []Settled
<1>1. IInv => Settled
  BY DEF IInv
<1> QED BY <1>1, Invariant, PTL

\* No store credit is spent twice (the guarded decrements of checkout and of
\* refundStoreCredit).
THEOREM CreditsHold == Spec => []CreditsAddUp
<1>1. IInv => CreditsAddUp
  BY DEF IInv
<1> QED BY <1>1, Invariant, PTL

\* The books balance, for any number of sales, returns and payments.
THEOREM BooksHold == Spec => []BooksBalance
<1>1. IInv => BooksBalance
  BY Books
<1> QED BY <1>1, Invariant, PTL

\* The summary of a shift counts the cash that its drawer paid back.
THEOREM CashHolds == Spec => []CashRefundsAreCounted
<1>1. IInv => CashRefundsAreCounted
  BY DEF IInv
<1> QED BY <1>1, Invariant, PTL

\* No line gives back more than was sold, and its shares add up to it but for half
\* a cent for each return, however many there are.
THEOREM LinesHold == Spec => []ReturnsWithinLine
<1>1. Init => LineInv
  BY LinesStart
<1>2. LineInv /\ [Next]_vars => LineInv'
  BY LinesStep
<1>3. LineInv => ReturnsWithinLine
  BY DEF LineInv
<1> QED BY <1>1, <1>2, <1>3, PTL DEF Spec

-----------------------------------------------------------------------------
(* The figures of the back office.                                         *)

\* The discount that a line and its sale were given is what the customer did not
\* pay; Sale.discountTotal has both parts.
PricesAddUp ==
  \A x \in Sales :
    sale[x].total + sale[x].discountTotal = sale[x].lineTotal + sale[x].lineDiscount

LEMMA PricedAddsUp ==
  ASSUME NEW quantity \in Sold, NEW gross \in Prices, NEW dl \in Discounts, NEW ds \in Discounts,
         CanDiscount(gross, dl), CanDiscount(Priced(quantity, gross, dl, ds).lineTotal, ds)
  PROVE  LET row == Priced(quantity, gross, dl, ds)
         IN  row.total + row.discountTotal = row.lineTotal + row.lineDiscount
<1> DEFINE lineDiscount == DiscountCents(gross, dl)
<1> DEFINE lineTotal == gross - lineDiscount
<1> DEFINE saleDiscount == DiscountCents(lineTotal, ds)
<1>1. gross \in Nat
  BY PriceDomain
<1>2. lineDiscount \in Nat /\ lineTotal \in Nat
  BY <1>1, DiscountType
<1>3. /\ Priced(quantity, gross, dl, ds).lineTotal = lineTotal
      /\ Priced(quantity, gross, dl, ds).lineDiscount = lineDiscount
      /\ Priced(quantity, gross, dl, ds).discountTotal = lineDiscount + saleDiscount
      /\ Priced(quantity, gross, dl, ds).total = lineTotal - saleDiscount
  BY DEF Priced
<1> HIDE DEF lineTotal, lineDiscount
<1>4. saleDiscount \in Nat
  BY <1>2, <1>3, DiscountType
<1> HIDE DEF saleDiscount
<1>5. (lineTotal - saleDiscount) + (lineDiscount + saleDiscount) = lineTotal + lineDiscount
  BY <1>2, <1>4
<1> QED BY <1>3, <1>5

LEMMA PricesStep ==
  ASSUME IInv, PricesAddUp, [Next]_vars
  PROVE  PricesAddUp'
<1>1. sale \in [Sales -> SaleRows]
  BY DEF IInv, Typed
<1>2. CASE UNCHANGED sale
  BY <1>2 DEF PricesAddUp
<1>3. ASSUME NEW x \in Sales, NEW quantity \in Sold, NEW gross \in Prices,
             NEW dl \in Discounts, NEW ds \in Discounts, Checkout(x, quantity, gross, dl, ds)
      PROVE  PricesAddUp'
  <2> DEFINE priced == Priced(quantity, gross, dl, ds)
  <2>1. CanDiscount(gross, dl) /\ CanDiscount(priced.lineTotal, ds)
    BY <1>3 DEF Checkout
  <2>2. priced \in SaleRows
        /\ priced.total + priced.discountTotal = priced.lineTotal + priced.lineDiscount
    BY <2>1, PricedType, PricedAddsUp
  <2>3. PICK ps \in PaymentLists :
          \E exchange, method : Pay(x, priced, ps, exchange, method)
    BY <1>3 DEF Checkout
  <2> HIDE DEF priced
  <2> DEFINE row == [priced EXCEPT !.payments = SettlePayments(ps, priced.total)]
  <2>4. sale' = [sale EXCEPT ![x] = row]
    BY <2>3 DEF Pay
  <2>5. /\ row.total = priced.total /\ row.discountTotal = priced.discountTotal
        /\ row.lineTotal = priced.lineTotal /\ row.lineDiscount = priced.lineDiscount
    BY <2>2 DEF SaleRows
  <2> HIDE DEF row
  <2> QED BY <1>1, <2>2, <2>4, <2>5 DEF PricesAddUp
<1>4. ASSUME NEW x \in Sales, VoidReceipt(x) PROVE PricesAddUp'
  <2> DEFINE row == [sale[x] EXCEPT !.status = "VOIDED"]
  <2>1. sale' = [sale EXCEPT ![x] = row]
    BY <1>4 DEF VoidReceipt
  <2>2. /\ row.total = sale[x].total /\ row.discountTotal = sale[x].discountTotal
        /\ row.lineTotal = sale[x].lineTotal /\ row.lineDiscount = sale[x].lineDiscount
    BY <1>1 DEF SaleRows
  <2> HIDE DEF row
  <2> QED BY <1>1, <2>1, <2>2 DEF PricesAddUp
<1>5. CASE OpenShift \/ CloseShift \/ UNCHANGED vars
  BY <1>2, <1>5 DEF OpenShift, CloseShift, vars
<1>6. ASSUME NEW r, NEW x, NEW type, NEW quantity, NEW method, NEW named,
             CreateReturn(r, x, type, quantity, method, named)
      PROVE  PricesAddUp'
  BY <1>2, <1>6 DEF CreateReturn
<1>7. ASSUME NEW r, NEW amount, NEW method, RefundStoreCredit(r, amount, method)
      PROVE  PricesAddUp'
  BY <1>2, <1>7 DEF RefundStoreCredit
<1> QED BY <1>3, <1>4, <1>5, <1>6, <1>7 DEF Next

LEMMA StandingAdd ==
  ASSUME NEW f \in [Sales -> Int], NEW g \in [Sales -> Int], NEW h \in [Sales -> Int],
         \A x \in Standing : h[x] = f[x] + g[x]
  PROVE  /\ SumOverSales(h) = SumOverSales(f) + SumOverSales(g)
         /\ SumOverSales(f) \in Int /\ SumOverSales(g) \in Int
<1> DEFINE F == [x \in Sales |-> IF x \in Standing THEN f[x] ELSE 0]
           G == [x \in Sales |-> IF x \in Standing THEN g[x] ELSE 0]
           H == [x \in Sales |-> IF x \in Standing THEN h[x] ELSE 0]
<1>1. \A x \in Sales : f[x] \in Int /\ g[x] \in Int /\ h[x] \in Int
  OBVIOUS
<1>2. /\ F \in [1 .. MaxSales -> Int] /\ G \in [1 .. MaxSales -> Int]
      /\ H \in [1 .. MaxSales -> Int]
  <2>1. F \in [Sales -> Int] /\ G \in [Sales -> Int] /\ H \in [Sales -> Int]
    BY <1>1
  <2> QED BY <2>1, Rows
<1>3. \A x \in 1 .. MaxSales : H[x] = F[x] + G[x]
  <2>1. ASSUME NEW x \in Sales PROVE H[x] = F[x] + G[x]
    BY <1>1
  <2> QED BY <2>1, Rows
<1>4. SumOverSales(f) = SumOf(F, MaxSales) /\ SumOverSales(g) = SumOf(G, MaxSales)
      /\ SumOverSales(h) = SumOf(H, MaxSales)
  BY DEF SumOverSales
<1>5. MaxSales \in Nat
  BY Rows
<1> HIDE DEF F, G, H
<1>6. SumOf(H, MaxSales) = SumOf(F, MaxSales) + SumOf(G, MaxSales)
  BY <1>2, <1>3, <1>5, SumAdd, ZenonT(30)
<1>7. SumOf(F, MaxSales) \in Int /\ SumOf(G, MaxSales) \in Int
  BY <1>2, <1>5, SumType
<1> QED BY <1>4, <1>6, <1>7

LEMMA Figures == IInv /\ PricesAddUp => FiguresDiffer
<1> SUFFICES ASSUME IInv, PricesAddUp PROVE FiguresDiffer
  OBVIOUS
<1> DEFINE total     == [x \in Sales |-> sale[x].total]
           line      == [x \in Sales |-> sale[x].lineDiscount]
           given     == [x \in Sales |-> sale[x].discountTotal]
           revenue   == [x \in Sales |-> sale[x].lineTotal - AllocatedDiscount(x)]
           discounts == [x \in Sales |-> sale[x].lineDiscount + AllocatedDiscount(x)]
           tendered  == [x \in Sales |-> Tendered(sale[x].payments)]
           nothing   == [x \in Sales |-> 0]
<1>1. \A x \in Sales :
        /\ sale[x].total \in Int /\ sale[x].lineDiscount \in Int
        /\ sale[x].discountTotal \in Int /\ sale[x].lineTotal \in Int
        /\ Tendered(sale[x].payments) \in Int
  BY TenderedType DEF IInv, Typed, SaleRows
<1>2. /\ total \in [Sales -> Int] /\ line \in [Sales -> Int] /\ given \in [Sales -> Int]
      /\ revenue \in [Sales -> Int] /\ discounts \in [Sales -> Int]
      /\ tendered \in [Sales -> Int] /\ nothing \in [Sales -> Int]
  BY <1>1 DEF AllocatedDiscount
<1>3. \A x \in Standing :
        /\ total[x] = revenue[x] + line[x] /\ discounts[x] = line[x] + given[x]
        /\ tendered[x] = total[x] + nothing[x] /\ nothing[x] = nothing[x] + nothing[x]
  <2> SUFFICES ASSUME NEW x \in Sales, sale[x].status = "COMPLETED"
               PROVE  /\ sale[x].total = sale[x].lineTotal - sale[x].discountTotal
                                           + sale[x].lineDiscount
                      /\ Tendered(sale[x].payments) = sale[x].total
    BY <1>1 DEF Standing, AllocatedDiscount
  <2>1. sale[x].total + sale[x].discountTotal = sale[x].lineTotal + sale[x].lineDiscount
    BY DEF PricesAddUp
  <2> QED BY <1>1, <2>1 DEF IInv, Settled
<1> HIDE DEF total, line, given, revenue, discounts, tendered, nothing
<1>4. /\ SumOverSales(total) = SumOverSales(revenue) + SumOverSales(line)
      /\ SumOverSales(discounts) = SumOverSales(line) + SumOverSales(given)
      /\ SumOverSales(tendered) = SumOverSales(total) + SumOverSales(nothing)
      /\ SumOverSales(nothing) = SumOverSales(nothing) + SumOverSales(nothing)
      /\ SumOverSales(revenue) \in Int /\ SumOverSales(line) \in Int
      /\ SumOverSales(given) \in Int /\ SumOverSales(total) \in Int
      /\ SumOverSales(nothing) \in Int
  <2>0. /\ \A x \in Standing : total[x] = revenue[x] + line[x]
        /\ \A x \in Standing : discounts[x] = line[x] + given[x]
        /\ \A x \in Standing : tendered[x] = total[x] + nothing[x]
        /\ \A x \in Standing : nothing[x] = nothing[x] + nothing[x]
    BY <1>3
  <2>1. SumOverSales(total) = SumOverSales(revenue) + SumOverSales(line)
        /\ SumOverSales(revenue) \in Int /\ SumOverSales(line) \in Int
    BY <1>2, <2>0, StandingAdd, ZenonT(30)
  <2>2. SumOverSales(discounts) = SumOverSales(line) + SumOverSales(given)
        /\ SumOverSales(given) \in Int
    BY <1>2, <2>0, StandingAdd, ZenonT(30)
  <2>3. SumOverSales(tendered) = SumOverSales(total) + SumOverSales(nothing)
        /\ SumOverSales(total) \in Int /\ SumOverSales(nothing) \in Int
    BY <1>2, <2>0, StandingAdd, ZenonT(30)
  <2>4. SumOverSales(nothing) = SumOverSales(nothing) + SumOverSales(nothing)
    BY <1>2, <2>0, StandingAdd, ZenonT(30)
  <2> QED BY <2>1, <2>2, <2>3, <2>4
<1> DEFINE amounts == [r \in Returns |-> return[r].amount]
           back    == [r \in Returns |-> PaidOut(r)]
           unpaid  == [r \in Returns |-> return[r].amount - PaidOut(r)]
<1>5. \A r \in Returns : return[r].amount \in Int /\ PaidOut(r) \in Int
  BY DEF IInv, Typed, ReturnRows, PaidOut
<1>6. /\ amounts \in [1 .. MaxReturns -> Int] /\ back \in [1 .. MaxReturns -> Int]
      /\ unpaid \in [1 .. MaxReturns -> Int]
      /\ \A r \in 1 .. MaxReturns : amounts[r] = unpaid[r] + back[r]
  BY <1>5, Rows
<1> HIDE DEF amounts, back, unpaid
<1>7. /\ SumOf(amounts, MaxReturns) = SumOf(unpaid, MaxReturns) + SumOf(back, MaxReturns)
      /\ SumOf(unpaid, MaxReturns) \in Int /\ SumOf(back, MaxReturns) \in Int
      /\ SumOf(amounts, MaxReturns) \in Int
  BY <1>6, Rows, SumAdd, SumType
<1>8. /\ NetSales = SumOverSales(total) - SumOf(amounts, MaxReturns)
      /\ ProductRevenue = SumOverSales(revenue) - SumOf(amounts, MaxReturns)
      /\ ProductDiscounts = SumOverSales(discounts)
      /\ PaymentMix = SumOverSales(tendered) - SumOf(back, MaxReturns)
      /\ SumOverReturns([r \in Returns |-> return[r].amount - PaidOut(r)])
           = SumOf(unpaid, MaxReturns)
  BY DEF NetSales, GrossSales, ReturnsTotal, ProductRevenue, ProductDiscounts, PaymentMix,
         ReturnedRevenue, SumOverReturns, total, revenue, discounts, tendered, amounts, back, unpaid
<1>9. /\ NetSales - ProductRevenue = SumOverSales(line)
      /\ ProductDiscounts - SumOverSales(given) = SumOverSales(line)
      /\ PaymentMix - NetSales = SumOf(unpaid, MaxReturns)
  <2> DEFINE sold == SumOverSales(total)
             kept == SumOverSales(revenue)
             less == SumOverSales(line)
             off  == SumOverSales(given)
             zero == SumOverSales(nothing)
             owed == SumOf(unpaid, MaxReturns)
             out  == SumOf(back, MaxReturns)
  <2>1. /\ sold \in Int /\ kept \in Int /\ less \in Int /\ off \in Int /\ zero \in Int
        /\ owed \in Int /\ out \in Int /\ sold = kept + less /\ zero = zero + zero
    BY <1>4, <1>7
  <2>2. /\ NetSales = sold - (owed + out) /\ ProductRevenue = kept - (owed + out)
        /\ ProductDiscounts = less + off /\ PaymentMix = sold + zero - out
    BY <1>4, <1>7, <1>8
  <2> HIDE DEF sold, kept, less, off, zero, owed, out
  <2>3. /\ NetSales - ProductRevenue = less /\ ProductDiscounts - off = less
        /\ PaymentMix - NetSales = owed
    BY <2>1, <2>2
  <2> QED BY <2>3 DEF less, off, owed
<1> QED BY <1>8, <1>9 DEF FiguresDiffer, line, given

\* The figures of the back office differ by the line discounts, which the products
\* lose twice, and by what returns have not paid out, which the payments count
\* again, for any number of receipts and returns (dashboard).
THEOREM FiguresExplained == Spec => []FiguresDiffer
<1>1. Init => PricesAddUp
  BY DEF Init, NoSale, PricesAddUp
<1>2. IInv /\ PricesAddUp /\ [Next]_vars => PricesAddUp'
  BY PricesStep
<1> QED BY <1>1, <1>2, Figures, Invariant, PTL DEF Spec
=============================================================================

------------------------------ MODULE TillCart ------------------------------
(***************************************************************************)
(* The cart of the till: its lines, their discounts, the credit of an      *)
(* exchange, and the checkout that turns the cart into a sale.             *)
(*                                                                         *)
(* The handlers of app.js run to their next await; there, other handlers   *)
(* may change the cart.  Nothing keeps a checkout from being confirmed     *)
(* again while the first one is under way.  A line keeps the price it was  *)
(* added with, through merges, reloads and restarts; the server prices     *)
(* what it is sent by its own tariff, which may have moved on, and refuses *)
(* what does not agree with its own total.                                 *)
(*                                                                         *)
(* Quantities are in ten-thousandths of a unit, prices in cents, and the   *)
(* till's unrounded amounts in millionths of a cent.                       *)
(***************************************************************************)
EXTENDS QuantitySums, Sequences, FiniteSets, SequencesExt

CONSTANTS
  Items,        \* products at their first unit
  Tariffs,      \* what the server charges and what things cost it, one after the other
  Discounts,    \* discounts that cashiers type
  CreditValue,  \* value of the goods returned for an exchange, in cents
  MaxLines,     \* bound on the lines ever added
  MaxEdits,     \* bound on changes: of lines, discounts, prices, products and shifts, and reloads
  MaxQuantity,  \* bound on the quantity of a line
  MaxCalls      \* bound on the checkouts confirmed

Unit == 10000      \* one unit, in ten-thousandths
Cent == 1000000    \* one cent, in millionths
Calls == 1 .. MaxCalls

NoDiscount == [type |-> "NONE", value |-> 0, quantity |-> 0]

ASSUME TariffDomain   == /\ Tariffs \in Seq([Items -> [price : Nat \ {0}, cost : Nat]]) /\ Tariffs # <<>>
                         /\ CreditValue \in Nat
ASSUME DiscountDomain == /\ Discounts \subseteq [type : {"PERCENTAGE", "FIXED"}, value : Nat \ {0}]
                         /\ \A d \in Discounts : d.type = "PERCENTAGE" => d.value <= 100
ASSUME TillBounds     == {MaxLines, MaxEdits, MaxQuantity, MaxCalls} \subseteq Nat

VARIABLES
  cart,      \* state.cart; a line's id, and the quantity its discount was typed for, are history
  lines,     \* number of lines ever added
  edits,     \* number of changes so far
  errors,    \* state.discountErrors: positions in the cart
  credit,    \* state.exchangeCredit is set
  balance,   \* StoreCredit.balance on the server, in cents
  replaced,  \* the return of the credit has its replacement sale
  tariff,    \* the server's tariff: ProductPrice.amount and Product.basePurchaseCost
  withdrawn, \* products that are no longer active
  lapses,    \* how often a shift was closed or a session ran out
  joined,    \* lapses when the till's shift and session began
  call,      \* call[c]: a confirmed checkout
  exposed    \* history: lines confirmed again while a call with them was open

server   == <<tariff, withdrawn, lapses>>
cartVars == <<cart, lines, edits, errors, credit, balance, replaced, server, joined, call, exposed>>

(***************************************************************************)
(* at: CREDIT while the balance of the credit is fetched, SENT while the   *)
(* server has not decided, then SOLD or REFUSED, DONE or QUEUED when the   *)
(* till has an answer or gave up; LEFT: a reload came before it was sent;  *)
(* here: the page that made the call is still there; due: the total shown; *)
(* lines: the cart it was sent with; joined: the shift and session it was  *)
(* sent in; applied, paid: the credit and the other payment; tariff: the   *)
(* one it was sold at; changed: history, the cart has changed since the    *)
(* confirmation.                                                           *)
(***************************************************************************)
NoCall == [at |-> "NONE", here |-> TRUE, method |-> "CASH", due |-> 0, lines |-> <<>>, joined |-> 0,
           applied |-> 0, paid |-> 0, tariff |-> 0, changed |-> FALSE]

CartInit ==
  /\ cart = <<>> /\ lines = 0 /\ edits = 0 /\ errors = {}
  /\ credit = FALSE /\ balance = 0 /\ replaced = FALSE
  /\ tariff = 1 /\ withdrawn = {} /\ lapses = 0 /\ joined = 0
  /\ call = [c \in Calls |-> NoCall] /\ exposed = {}

-----------------------------------------------------------------------------
(* What a line comes to, at the till and on the server.                    *)

Least(a, b) == IF a < b THEN a ELSE b

Price(line) == Tariffs[line.tariff][line.item].price
Cost(line)  == Tariffs[line.tariff][line.item].cost

LineGross(line) == Price(line) * line.quantity * 100

\* Mutant: a fixed discount counts for every unit.
DiscountAmountPerUnit(line) ==
  IF line.discount.type = "PERCENTAGE" THEN (LineGross(line) \div 100) * line.discount.value
  ELSE Least(LineGross(line), line.discount.value * 100 * line.quantity)

\* The till caps a fixed discount at the line.
DiscountAmount(line) ==
  IF line.discount.type = "PERCENTAGE" THEN (LineGross(line) \div 100) * line.discount.value
  ELSE Least(LineGross(line), line.discount.value * Cent)

Total(ls) == SumOf([i \in DOMAIN ls |-> LineGross(ls[i]) - DiscountAmount(ls[i])], Len(ls))

\* Math.round; binary fractions may tip a half either way.
Rounded(amount) ==
  {c \in {amount \div Cent, amount \div Cent + 1} : 2 * amount \in (2 * c - 1) * Cent .. (2 * c + 1) * Cent}

\* The server rounds every line, and refuses what the till would cap.
GrossCents(line)  == (LineGross(line) + Cent \div 2) \div Cent
DiscountCents(line) ==
  IF line.discount.type = "PERCENTAGE" THEN (2 * GrossCents(line) * line.discount.value + 100) \div 200
                                       ELSE line.discount.value
GrandTotal(ls) == SumOf([i \in DOMAIN ls |-> GrossCents(ls[i]) - DiscountCents(ls[i])], Len(ls))

CanDiscount(line) == line.discount.type = "FIXED" => line.discount.value <= GrossCents(line)

\* A line at a tariff: the payload has no prices, the server looks them up.
At(line, t)   == [line EXCEPT !.tariff = t]
Priced(ls, t) == [i \in DOMAIN ls |-> At(ls[i], t)]

BelowCost(line) ==
  LineGross(line) - DiscountAmount(line) < Cost(line) * line.quantity * 100

-----------------------------------------------------------------------------
(* The lines of the cart.                                                  *)

Edit == edits < MaxEdits /\ edits' = edits + 1

\* Every change of the cart is saved by the same handler.
CartBecomes(ls) ==
  /\ cart' = ls
  /\ call' = [c \in Calls |->
       IF call[c].at \in {"CREDIT", "SENT", "SOLD"} /\ ls # cart
       THEN [call[c] EXCEPT !.changed = TRUE] ELSE call[c]]

\* The price is that of a result, a recent item or a cached product: of any tariff so far.
NewLine(item, t) ==
  [id |-> lines + 1, item |-> item, tariff |-> t, quantity |-> Unit, discount |-> NoDiscount]

Mergeable(item) == {i \in DOMAIN cart : cart[i].item = item /\ cart[i].discount = NoDiscount}

\* A product joins its line, at that line's price, unless that has a discount.
AddProduct(item) ==
  /\ Edit
  /\ IF Mergeable(item) = {}
     THEN /\ lines < MaxLines /\ lines' = lines + 1
          /\ \E t \in 1 .. tariff : CartBecomes(Append(cart, NewLine(item, t)))
     ELSE \E i \in Mergeable(item) :
          /\ \A j \in Mergeable(item) : i <= j
          /\ cart[i].quantity + Unit <= MaxQuantity
          /\ CartBecomes([cart EXCEPT ![i].quantity = @ + Unit]) /\ UNCHANGED lines
  /\ UNCHANGED <<errors, credit, balance, replaced, server, joined, exposed>>

\* The buttons of a line and its quantity field.
ChangeQuantity(i) ==
  /\ Edit
  /\ \E quantity \in {cart[i].quantity + Unit,
                      IF cart[i].quantity > Unit THEN cart[i].quantity - Unit ELSE 1, Unit} :
       /\ quantity \in 1 .. MaxQuantity /\ quantity # cart[i].quantity
       /\ CartBecomes([cart EXCEPT ![i].quantity = quantity])
  /\ UNCHANGED <<lines, errors, credit, balance, replaced, server, joined, exposed>>

\* The errors of other lines keep their positions.
RemoveLine(i) ==
  /\ Edit
  /\ CartBecomes(RemoveAt(cart, i))
  /\ UNCHANGED <<lines, errors, credit, balance, replaced, server, joined, exposed>>

-----------------------------------------------------------------------------
(* Discounts.                                                              *)

TypeInvalidDiscount(i) ==
  /\ Edit
  /\ errors' = errors \cup {i}
  /\ UNCHANGED <<cart, lines, credit, balance, replaced, server, joined, call, exposed>>

RemoveDiscount(i) ==
  /\ Edit
  /\ errors' = errors \ {i}
  /\ CartBecomes([cart EXCEPT ![i].discount = NoDiscount])
  /\ UNCHANGED <<lines, credit, balance, replaced, server, joined, exposed>>

\* No cart line is given a cost, so the question whether a discount goes below it
\* is never asked here, and a manager never is: the server will refuse it.
ApplyInlineDiscount(i, input) ==
  /\ Edit
  /\ IF input.type = "FIXED" /\ input.value * Cent > LineGross(cart[i])
     THEN errors' = errors \cup {i} /\ UNCHANGED <<cart, call>>
     ELSE /\ errors' = errors \ {i}
          /\ CartBecomes([cart EXCEPT ![i].discount =
               [type |-> input.type, value |-> input.value, quantity |-> cart[i].quantity]])
  /\ UNCHANGED <<lines, credit, balance, replaced, server, joined, exposed>>

-----------------------------------------------------------------------------
(* Exchanges.                                                              *)

\* Replacement items become lines of their own.
CompleteExchange(item) ==
  /\ Edit /\ lines < MaxLines
  /\ ~credit /\ ~replaced /\ balance = 0 /\ CreditValue > 0
  /\ credit' = TRUE /\ balance' = CreditValue
  /\ lines' = lines + 1
  /\ \E t \in 1 .. tariff : CartBecomes(Append(cart, NewLine(item, t)))
  /\ UNCHANGED <<errors, replaced, server, joined, exposed>>

ClearExchangeCredit ==
  /\ credit
  /\ credit' = FALSE
  /\ UNCHANGED <<cart, lines, edits, errors, balance, replaced, server, joined, call, exposed>>

-----------------------------------------------------------------------------
(* What others do meanwhile.                                               *)

\* A manager or a synchronisation changes prices and costs.
NewTariff ==
  /\ Edit /\ tariff < Len(Tariffs) /\ tariff' = tariff + 1
  /\ UNCHANGED <<cart, lines, errors, credit, balance, replaced, withdrawn, lapses, joined, call, exposed>>

\* A product is deactivated, or archived in Bukku; not taken up again.
Withdraw(item) ==
  /\ Edit /\ item \notin withdrawn /\ withdrawn' = withdrawn \cup {item}
  /\ UNCHANGED <<cart, lines, errors, credit, balance, replaced, tariff, lapses, joined, call, exposed>>

\* The shift is closed, from elsewhere or by the scheduler, or the session runs out.
Lapse ==
  /\ Edit /\ lapses' = lapses + 1
  /\ UNCHANGED <<cart, lines, errors, credit, balance, replaced, tariff, withdrawn, joined, call, exposed>>

\* Somebody signs in or opens a shift at the till.
JoinShift ==
  /\ joined # lapses /\ joined' = lapses
  /\ UNCHANGED <<cart, lines, edits, errors, credit, balance, replaced, server, call, exposed>>

-----------------------------------------------------------------------------
(* Checkout.                                                               *)

Ids(ls) == {ls[i].id : i \in DOMAIN ls}

\* No answer has come, or ever will.
Open(c) == call[c].at \in {"SENT", "SOLD"}

\* What is sent when the credit is known; splits have no credit.
Sent(c, applied, paid) ==
  [c EXCEPT !.at = "SENT", !.lines = cart, !.joined = joined, !.applied = applied, !.paid = paid]

\* The amounts beside the credit, in millionths of a cent: splits add up to
\* the rounded total, cash covers the rest in whole cents.
Payments(method, remaining, total) ==
  CASE method = "SPLIT" -> {amount * Cent : amount \in Rounded(total)}
    [] method = "CASH"  -> {((remaining + Cent - 1) \div Cent) * Cent}
    [] method = "CARD"  -> {remaining}

Expose == exposed' = exposed \cup (Ids(cart) \cap UNION {Ids(call[c].lines) : c \in {d \in Calls : Open(d)}})

ConfirmCheckout(c, method) ==
  /\ call[c] = NoCall /\ \A d \in Calls : d < c => call[d] # NoCall
  /\ cart # <<>> /\ errors = {}
  /\ method = "SPLIT" => ~credit /\ \E amount \in Rounded(Total(cart)) : amount > 0
  /\ IF credit
     THEN /\ call' = [call EXCEPT ![c] = [NoCall EXCEPT !.at = "CREDIT", !.method = method, !.due = Total(cart)]]
          /\ UNCHANGED exposed
     ELSE /\ \E paid \in Payments(method, Total(cart), Total(cart)) :
               call' = [call EXCEPT ![c] = Sent([NoCall EXCEPT !.method = method, !.due = Total(cart)], 0, paid)]
          /\ Expose
  /\ UNCHANGED <<cart, lines, edits, errors, credit, balance, replaced, server, joined>>

\* Mutant: the credit is applied in full.
AppliedInFull(due) == balance * Cent

Applied(due) == Least(balance * Cent, due)

\* The payments are of the total that was confirmed, the lines those of now.
CreditFetched(c) ==
  /\ call[c].at = "CREDIT" /\ call[c].here
  /\ LET applied == Applied(call[c].due) IN
     \E paid \in Payments(call[c].method, call[c].due - Least(applied, call[c].due), call[c].due) :
       call' = [call EXCEPT ![c] = Sent(@, applied, paid)]
  /\ Expose
  /\ UNCHANGED <<cart, lines, edits, errors, credit, balance, replaced, server, joined>>

\* Validation wants two decimals at most: amounts the till computed may have
\* more, and binary fractions add some to any but the price of one unit.
WholeCents(amount) == amount % Cent = 0
Plain(ls) == Len(ls) = 1 /\ ls[1].quantity = Unit /\ ls[1].discount = NoDiscount

Computed(c) == c.applied # 0 \/ c.method = "CARD"

Noisy(c) == Computed(c) /\ (~Plain(c.lines) \/ c.changed)

ValidAmounts(c) == WholeCents(c.applied) /\ WholeCents(c.paid) /\ c.applied + c.paid > 0

\* The lines as the server prices them.
Bill(c) == Priced(c.lines, tariff)

Settles(c) ==
  LET total == GrandTotal(Bill(c)) * Cent IN
  IF c.method = "CASH" /\ c.paid > 0 THEN c.applied + c.paid >= total ELSE c.applied + c.paid = total

CreditGood(c) ==
  c.applied > 0 => ~replaced /\ c.applied = Least(balance, GrandTotal(Bill(c))) * Cent

\* A line the server sells: an active product, at no discount it cannot take off
\* and none below cost, as no manager has approved it.
Sellable(line) ==
  /\ line.item \notin withdrawn /\ CanDiscount(line)
  /\ line.discount # NoDiscount => ~BelowCost(line)

Acceptable(c) ==
  /\ c.joined = lapses
  /\ c.lines # <<>> /\ \A i \in DOMAIN c.lines : Sellable(Bill(c)[i])
  /\ ValidAmounts(c) /\ Settles(c) /\ CreditGood(c)

ServerSells(c) ==
  /\ call[c].at = "SENT" /\ Acceptable(call[c])
  /\ call' = [call EXCEPT ![c].at = "SOLD", ![c].tariff = tariff]
  /\ balance' = balance - call[c].applied \div Cent
  /\ replaced' = (replaced \/ call[c].applied > 0)
  /\ UNCHANGED <<cart, lines, edits, errors, credit, server, joined, exposed>>

ServerRefuses(c) ==
  /\ call[c].at = "SENT" /\ (Acceptable(call[c]) => Noisy(call[c]))
  /\ call' = [call EXCEPT ![c].at = "REFUSED"]
  /\ UNCHANGED <<cart, lines, edits, errors, credit, balance, replaced, server, joined, exposed>>

\* Mutant: a sale that was queued leaves the cart as it is.
AnsweredIfOnline(c, at) ==
  /\ call' = [call EXCEPT ![c].at = at, ![c].due = IF at = "QUEUED" THEN Total(cart) ELSE @]
  /\ cart' = IF at = "QUEUED" THEN cart ELSE <<>>
  /\ credit' = FALSE

\* The cart is emptied, whatever it has become; the total of a queued sale is
\* that of the cart, too.
Answered(c, at) ==
  /\ call' = [d \in Calls |->
       IF d = c THEN [call[c] EXCEPT !.at = at, !.due = IF at = "QUEUED" THEN Total(cart) ELSE @]
       ELSE [call[d] EXCEPT !.changed = @ \/ cart # <<>>]]
  /\ cart' = <<>>
  /\ credit' = FALSE

TillAnswered(c) ==
  /\ call[c].at = "SOLD" /\ call[c].here
  /\ Answered(c, "DONE")
  /\ UNCHANGED <<lines, edits, errors, balance, replaced, server, joined, exposed>>

\* Without an answer the sale is queued; OfflineSales has what becomes of it.
QueueOfflineSale(c) ==
  /\ Open(c) /\ call[c].here
  /\ Answered(c, "QUEUED")
  /\ UNCHANGED <<lines, edits, errors, balance, replaced, server, joined, exposed>>

\* The cart is restored with its prices, and the shift; nothing else.
ReloadPage ==
  /\ Edit
  /\ errors' = {} /\ credit' = FALSE
  /\ call' = [c \in Calls |-> [call[c] EXCEPT !.here = @ /\ call[c] = NoCall,
                                              !.at = IF @ = "CREDIT" THEN "LEFT" ELSE @]]
  /\ UNCHANGED <<cart, lines, balance, replaced, server, joined, exposed>>

Cashier ==
  \/ \E item \in Items : AddProduct(item) \/ CompleteExchange(item)
  \/ \E i \in DOMAIN cart :
       \/ ChangeQuantity(i) \/ RemoveLine(i) \/ TypeInvalidDiscount(i) \/ RemoveDiscount(i)
       \/ \E input \in Discounts : ApplyInlineDiscount(i, input)
  \/ ClearExchangeCredit \/ ReloadPage \/ JoinShift
  \/ \E c \in Calls, method \in {"CASH", "CARD", "SPLIT"} : ConfirmCheckout(c, method)

Answers == \E c \in Calls :
  CreditFetched(c) \/ ServerSells(c) \/ ServerRefuses(c) \/ TillAnswered(c) \/ QueueOfflineSale(c)

Others == NewTariff \/ Lapse \/ \E item \in Items : Withdraw(item)

CartNext == Cashier \/ Answers \/ Others

CartSpec == CartInit /\ [][CartNext]_cartVars

-----------------------------------------------------------------------------
(* Properties.                                                             *)

CartTypeOK ==
  /\ \A i \in DOMAIN cart :
       /\ cart[i].item \in Items /\ cart[i].quantity \in 1 .. MaxQuantity
       /\ cart[i].id \in 1 .. lines /\ cart[i].tariff \in 1 .. tariff
  /\ errors \subseteq 1 .. MaxLines /\ exposed \subseteq 1 .. lines
  /\ balance \in 0 .. CreditValue /\ edits \in 0 .. MaxEdits
  /\ tariff \in 1 .. Len(Tariffs) /\ joined \in 0 .. lapses /\ withdrawn \subseteq Items

Kept == {c \in Calls : call[c].at \in {"SOLD", "DONE", "QUEUED"}}

\* A line is sold twice only if it was confirmed again while a call with it was
\* without an answer, or had been left without one by a reload (completeCheckout
\* empties the cart when a sale is answered or queued, and only then).
LinesSoldOnce ==
  \A c, d \in Kept : c # d => Ids(call[c].lines) \cap Ids(call[d].lines) \subseteq exposed

Fractional(line) == ~WholeCents(LineGross(line) - DiscountAmount(line))

Roundings(line) ==
  (IF WholeCents(LineGross(line)) THEN 0 ELSE 1) + (IF line.discount.type = "PERCENTAGE" THEN 1 ELSE 0)

SlackOf(ls) == SumOf([i \in DOMAIN ls |-> Roundings(ls[i])], Len(ls))

\* By how much the lines of a cart have become dearer.
DearerOf(old, new) == SumOf([i \in DOMAIN new |->
  IF LineGross(new[i]) > LineGross(old[i]) THEN LineGross(new[i]) - LineGross(old[i]) ELSE 0], Len(new))

\* The tariff a sale was made at; a queued sale gets that of its replay.
SaleTariffs(c) == IF call[c].tariff # 0 THEN {call[c].tariff} ELSE tariff .. Len(Tariffs)

\* What the customer was shown and what the server books differ by no more than
\* prices have changed since the lines were added, and by half a cent for each
\* gross and each percentage that the server rounds, unless the cart changed
\* meanwhile: no discount makes a change of price any larger, and without one
\* the unrounded total of the till, and the receipt of a queued sale, are the
\* server's total (totals, restoreCart, complete, calculateCheckout).
ShownIsSold ==
  \A c \in Kept : ~call[c].changed => \A t \in SaleTariffs(c) :
    LET old   == call[c].lines
        new   == Priced(old, t)
        sold  == GrandTotal(new) * Cent
        slack == SlackOf(new) * (Cent \div 2) IN
    (\A i \in DOMAIN new : CanDiscount(new[i])) =>
      /\ sold <= call[c].due + DearerOf(old, new) + slack
      /\ call[c].due <= sold + DearerOf(new, old) + slack

\* A fixed discount that was typed for more of the product than the line has now.
Outgrown(line) == line.discount.type = "FIXED" /\ line.quantity < line.discount.quantity

Repriced(line) == Price(At(line, tariff)) # Price(line)

\* What the server may object to in a line.
Objectionable(line) ==
  \/ Fractional(line) \/ Outgrown(line) \/ Repriced(line) \/ line.item \in withdrawn
  \/ line.discount # NoDiscount /\ BelowCost(At(line, tariff))

Explained(c) ==
  \/ Noisy(call[c]) \/ call[c].changed
  \/ call[c].joined # lapses
  \/ \E i \in DOMAIN call[c].lines : Objectionable(call[c].lines[i])
  \/ call[c].applied > 0 /\ \E d \in Calls \ {c} : call[d].applied > 0
  \/ call[c].applied + call[c].paid = 0

\* When the server refuses a confirmed checkout, then over amounts the till computed
\* or fractions of cents, a cart that changed meanwhile, a shift or session that has
\* ended, a price that has changed or a product that was withdrawn since its line was
\* added, a discount below cost or one its line has outgrown, an exchange that was paid
\* for already, or nothing to pay: a checkout that nobody has disturbed passes
\* (completeCheckout, PaymentInputDto, complete, calculateCheckout, settlePayments,
\* assertApproval).
RefusalsExplained ==
  [][\A c \in Calls : call'[c].at = "REFUSED" /\ call[c].at # "REFUSED" => Explained(c)]_cartVars
=============================================================================

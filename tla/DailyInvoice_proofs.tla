------------------------ MODULE DailyInvoice_proofs ------------------------
(***************************************************************************)
(* The shifts of a register and what follows their close, for any sets of  *)
(* shifts and requests, any number of checkouts and any amounts: first the *)
(* steps of CashierShift, then those of DailyInvoice, each of which is a   *)
(* step of CashierShift or leaves its variables alone.                     *)
(***************************************************************************)
EXTENDS DailyInvoice, QuantitySums_proofs

ShiftRow == [status: {"NONE", "OPEN", "CLOSED"}, opening: Nat, expiredOn: Int,
             closedBy: {None} \cup Closers \cup Sweeps, closedOn: Days]

SaleRow == [status: {"NONE", "BEGUN", "COMPLETED", "VOIDED"}, shift: Shifts \cup {None},
            amount: Nat, change: Nat, short: BOOLEAN]

RefundRow == [at: {"none", "begun", "done"}, shift: Shifts \cup {None}]

Request == [at: {"idle", "create", "check", "update", "audit", "done"},
            shift: Shifts \cup {None}, amount: Int, ack: BOOLEAN, seen: SUBSET Sales,
            day: Days]

RowTypes ==
  /\ shift \in [Shifts -> ShiftRow]
  /\ sale \in [Sales -> SaleRow]
  /\ refund \in [Sales -> RefundRow]
  /\ moved \in [Shifts -> Int] /\ drawer \in [Shifts -> Int]
  /\ today \in Days

RequestTypes ==
  /\ opener \in [Openers -> Request] /\ mover \in [Movers -> Request]
  /\ corrector \in [Correctors -> Request]
  /\ closer \in [Closers -> Request] /\ sweep \in [Sweeps -> Request]

Exists(s) == s \in Shifts /\ shift[s].status # "NONE"
Final(x)  == sale[x].status \in {"COMPLETED", "VOIDED"}

\* What sales and refunds name exists, and a refund is of a sale that stands.
SaleOk(x) ==
  /\ sale[x].status # "NONE" => Exists(sale[x].shift)
  /\ refund[x].at # "none" => Exists(refund[x].shift) /\ Final(x)
  /\ refund[x].at = "done" => sale[x].status = "COMPLETED"

\* A shift that does not exist yet has had no cash, and a closed one has been
\* closed by somebody.
ShiftOk(s) ==
  /\ shift[s].status = "NONE" => shift[s].opening = 0 /\ drawer[s] = 0
  /\ (shift[s].status = "CLOSED") <=> (shift[s].closedBy # None)

MoverOk(r) ==
  /\ r.at \in {"idle", "check", "create", "done"}
  /\ r.at \in {"check", "create"} => Exists(r.shift)

CorrectorOk(r) == r.at = "update" => Exists(r.shift)

\* A request or a pass that closes a shift, once it has asked for shortages, has
\* seen sales that stand, and without an acknowledgement no short one.
CloseOk(r) ==
  /\ r.at \in {"idle", "check", "update", "audit", "done"}
  /\ r.at \in {"check", "update", "audit"} => Exists(r.shift)
  /\ r.at = "audit" => IsClosed(r.shift)
  /\ \A x \in r.seen : Final(x)
  /\ r.at \in {"update", "audit"} /\ ~r.ack => StockShortagesForShift(r.shift) \cap r.seen = {}

SweepOk(r) == CloseOk(r) /\ ~r.ack /\ r.at # "done"

\* The cash of a shift without its change.
Balanced ==
  \A s \in Shifts : shift[s].opening + CashOf(s) - RefundsOf(s) + moved[s] = drawer[s]

RowsOk ==
  /\ RowTypes
  /\ \A x \in Sales : SaleOk(x)
  /\ \A s \in Shifts : ShiftOk(s)

RequestsOk ==
  /\ RequestTypes
  /\ \A m \in Movers : MoverOk(mover[m])
  /\ \A k \in Correctors : CorrectorOk(corrector[k])
  /\ \A c \in Closers : CloseOk(closer[c])
  /\ \A w \in Sweeps : SweepOk(sweep[w])

IInv == RowsOk /\ RequestsOk /\ Balanced

-----------------------------------------------------------------------------
(* What no step undoes.                                                    *)

GoesOn ==
  /\ \A x \in Sales : Final(x) =>
       /\ sale'[x].status \in {"COMPLETED", "VOIDED"}
       /\ sale'[x].status = "COMPLETED" => sale[x].status = "COMPLETED"
       /\ sale'[x].shift = sale[x].shift
       /\ sale'[x].short = sale[x].short
  /\ \A x \in Sales : refund[x].at = "done" => refund'[x] = refund[x]
  /\ \A s \in Shifts : shift[s].status # "NONE" => shift'[s].status # "NONE"
  /\ \A s \in Shifts : IsClosed(s) => shift'[s].status = "CLOSED"

Kept == IInv' /\ GoesOn

LEMMA Steady ==
  ASSUME UNCHANGED <<shift, sale, refund>>
  PROVE  GoesOn
BY DEF GoesOn, Final, IsClosed

LEMMA ShortagesShrink ==
  ASSUME IInv, GoesOn, NEW s \in Shifts, NEW X \in SUBSET Sales, \A x \in X : Final(x),
         StockShortagesForShift(s) \cap X = {}
  PROVE  (\A x \in X : sale'[x].status \in {"COMPLETED", "VOIDED"})
         /\ StockShortagesForShift(s)' \cap X = {}
BY DEF StockShortagesForShift, SalesOf, GoesOn

LEMMA MoverStays ==
  ASSUME IInv, GoesOn, NEW m \in Movers, mover'[m] = mover[m]
  PROVE  MoverOk(mover[m])'
BY DEF IInv, RequestsOk, MoverOk, GoesOn, Exists

LEMMA CorrectorStays ==
  ASSUME IInv, GoesOn, NEW k \in Correctors, corrector'[k] = corrector[k]
  PROVE  CorrectorOk(corrector[k])'
BY DEF IInv, RequestsOk, CorrectorOk, GoesOn, Exists

LEMMA CloseStays ==
  ASSUME IInv, GoesOn, NEW r \in Request, CloseOk(r)
  PROVE  /\ r.at \in {"idle", "check", "update", "audit", "done"}
         /\ r.at \in {"check", "update", "audit"} => Exists(r.shift)'
         /\ r.at = "audit" => IsClosed(r.shift)'
         /\ \A x \in r.seen : Final(x)'
         /\ r.at \in {"update", "audit"} /\ ~r.ack =>
              StockShortagesForShift(r.shift)' \cap r.seen = {}
<1>1. r.at \in {"check", "update", "audit"} => Exists(r.shift)'
  BY DEF CloseOk, GoesOn, Exists
<1>2. r.at = "audit" => IsClosed(r.shift)'
  BY DEF CloseOk, GoesOn, Exists, IsClosed
<1>3. \A x \in r.seen : Final(x)'
  BY DEF CloseOk, GoesOn, Final, Request
<1>4. r.at \in {"update", "audit"} /\ ~r.ack =>
        StockShortagesForShift(r.shift)' \cap r.seen = {}
  BY DEF CloseOk, GoesOn, Request, StockShortagesForShift, SalesOf
<1> QED BY <1>1, <1>2, <1>3, <1>4 DEF CloseOk

LEMMA CloserStays ==
  ASSUME IInv, GoesOn, NEW c \in Closers, closer'[c] = closer[c]
  PROVE  CloseOk(closer[c])'
<1>1. closer[c] \in Request /\ CloseOk(closer[c])
  BY DEF IInv, RequestsOk, RequestTypes
<1> QED BY <1>1, CloseStays DEF CloseOk

LEMMA SweepStays ==
  ASSUME IInv, GoesOn, NEW w \in Sweeps, sweep'[w] = sweep[w]
  PROVE  SweepOk(sweep[w])'
<1>1. sweep[w] \in Request /\ SweepOk(sweep[w])
  BY DEF IInv, RequestsOk, RequestTypes
<1> QED BY <1>1, CloseStays DEF CloseOk, SweepOk

LEMMA RequestsStay ==
  ASSUME IInv, GoesOn, UNCHANGED requests
  PROVE  RequestsOk'
<1>1. RequestTypes' /\ UNCHANGED <<mover, corrector, closer, sweep>>
  BY DEF requests, IInv, RequestsOk, RequestTypes
<1> QED BY <1>1, MoverStays, CorrectorStays, CloserStays, SweepStays DEF RequestsOk

\* A request that rests or is done is in order.
LEMMA IdleRequests ==
  /\ Idle \in Request /\ Gone \in Request /\ Idle.at = "idle" /\ Gone.at = "done"
  /\ Idle.shift = None /\ Gone.shift = None /\ Idle.seen = {} /\ Gone.seen = {}
  /\ Idle.ack = FALSE /\ Gone.ack = FALSE
<1>1. Idle \in Request /\ Idle.at = "idle" /\ Idle.shift = None /\ Idle.seen = {} /\ Idle.ack = FALSE
  BY BoundDomain DEF Idle, Request, Days
<1> QED BY <1>1 DEF Gone, Request

-----------------------------------------------------------------------------
(* The cash of a shift.                                                    *)

Taken(x, s) == IF x \in SalesOf(s) THEN sale[x].amount ELSE 0
Given(x, s) == IF refund[x] = [at |-> "done", shift |-> s] THEN sale[x].amount ELSE 0

LEMMA SumsAreOf ==
  /\ \A s : CashOf(s) = SumOf([x \in Sales |-> Taken(x, s)], MaxSales)
  /\ \A s : RefundsOf(s) = SumOf([x \in Sales |-> Given(x, s)], MaxSales)
BY DEF CashOf, RefundsOf, Taken, Given

LEMMA CashTypes ==
  ASSUME RowTypes, NEW s
  PROVE  /\ CashOf(s) \in Int /\ RefundsOf(s) \in Int /\ ChangeOf(s) \in Int
         /\ [x \in Sales |-> Taken(x, s)] \in [1 .. MaxSales -> Int]
         /\ [x \in Sales |-> Given(x, s)] \in [1 .. MaxSales -> Int]
<1>1. \A x \in Sales : sale[x].amount \in Nat /\ sale[x].change \in Nat
  BY DEF RowTypes, SaleRow
<1>2. /\ [x \in Sales |-> Taken(x, s)] \in [1 .. MaxSales -> Int]
      /\ [x \in Sales |-> Given(x, s)] \in [1 .. MaxSales -> Int]
      /\ [x \in Sales |-> IF x \in SalesOf(s) THEN sale[x].change ELSE 0]
           \in [1 .. MaxSales -> Int]
  BY <1>1 DEF Sales, Taken, Given
<1> QED BY <1>2, SumType, SumsAreOf, SalesBound DEF ChangeOf

LEMMA CashSame ==
  ASSUME NEW s, \A x \in Sales : Taken(x, s)' = Taken(x, s) /\ Given(x, s)' = Given(x, s)
  PROVE  CashOf(s)' = CashOf(s) /\ RefundsOf(s)' = RefundsOf(s)
<1>1. /\ [x \in Sales |-> Taken(x, s)]' = [x \in Sales |-> Taken(x, s)]
      /\ [x \in Sales |-> Given(x, s)]' = [x \in Sales |-> Given(x, s)]
  OBVIOUS
<1>2. /\ CashOf(s)' = SumOf([x \in Sales |-> Taken(x, s)]', MaxSales)
      /\ RefundsOf(s)' = SumOf([x \in Sales |-> Given(x, s)]', MaxSales)
  BY DEF CashOf, RefundsOf, Taken, Given
<1> QED BY <1>1, <1>2, SumsAreOf

LEMMA CashOnceMore ==
  ASSUME RowTypes, RowTypes', NEW s, NEW x \in Sales,
         \A y \in Sales \ {x} : sale'[y] = sale[y] /\ refund'[y] = refund[y]
  PROVE  /\ CashOf(s)' = CashOf(s) + (Taken(x, s)' - Taken(x, s))
         /\ RefundsOf(s)' = RefundsOf(s) + (Given(x, s)' - Given(x, s))
<1> DEFINE f == [y \in Sales |-> Taken(y, s)]
           g == [y \in Sales |-> Taken(y, s)']
           f2 == [y \in Sales |-> Given(y, s)]
           g2 == [y \in Sales |-> Given(y, s)']
<1>1. \A y \in Sales : y # x => Taken(y, s)' = Taken(y, s) /\ Given(y, s)' = Given(y, s)
  BY DEF Taken, Given, SalesOf
<1>2. f \in [1 .. MaxSales -> Int] /\ f2 \in [1 .. MaxSales -> Int]
  BY CashTypes
<1>3. \A y \in Sales : sale'[y].amount \in Nat
  BY DEF RowTypes, SaleRow
<1>4. g \in [1 .. MaxSales -> Int] /\ g2 \in [1 .. MaxSales -> Int]
  BY <1>3 DEF Sales, Taken, Given
<1>5. CashOf(s)' = SumOf(g, MaxSales) /\ RefundsOf(s)' = SumOf(g2, MaxSales)
  BY DEF CashOf, RefundsOf, Taken, Given
<1>6. CashOf(s) = SumOf(f, MaxSales) /\ RefundsOf(s) = SumOf(f2, MaxSales)
  BY SumsAreOf
<1>7. /\ \A y \in 1 .. MaxSales : y # x => g[y] = f[y]
      /\ \A y \in 1 .. MaxSales : y # x => g2[y] = f2[y]
      /\ g[x] = Taken(x, s)' /\ f[x] = Taken(x, s)
      /\ g2[x] = Given(x, s)' /\ f2[x] = Given(x, s)
      /\ x \in 1 .. MaxSales
  BY <1>1 DEF Sales
<1> HIDE DEF f, g, f2, g2
<1>8. SumOf(g, MaxSales) = SumOf(f, MaxSales) + (g[x] - f[x])
  BY <1>2, <1>4, <1>7, SumChange, SalesBound
<1>9. SumOf(g2, MaxSales) = SumOf(f2, MaxSales) + (g2[x] - f2[x])
  BY <1>2, <1>4, <1>7, SumChange, SalesBound
<1> QED BY <1>5, <1>6, <1>7, <1>8, <1>9

LEMMA Start == Init => IInv
<1> SUFFICES ASSUME Init PROVE IInv
  OBVIOUS
<1>1. /\ \A s \in Shifts : /\ shift[s].status = "NONE" /\ shift[s].opening = 0
                           /\ shift[s].closedBy = None
                           /\ drawer[s] = 0 /\ moved[s] = 0
      /\ \A x \in Sales : /\ sale[x].status = "NONE" /\ refund[x].at = "none"
                          /\ sale[x].amount = 0
  BY DEF Init, NoSale
<1>2. RowTypes
  <2>1. shift \in [Shifts -> ShiftRow] /\ today \in Days
    BY BoundDomain DEF Init, ShiftRow, Days, Never
  <2>2. sale \in [Sales -> SaleRow] /\ refund \in [Sales -> RefundRow]
    BY DEF Init, SaleRow, RefundRow, NoSale
  <2>3. moved \in [Shifts -> Int] /\ drawer \in [Shifts -> Int]
    BY DEF Init
  <2> QED BY <2>1, <2>2, <2>3 DEF RowTypes
<1>3. RequestsOk
  <2>1. /\ \A o \in Openers : opener[o] = Idle
        /\ \A m \in Movers : mover[m] = Idle /\ \A k \in Correctors : corrector[k] = Idle
        /\ \A c \in Closers : closer[c] = Idle /\ \A w \in Sweeps : sweep[w] = Idle
    BY DEF Init
  <2>2. RequestTypes
    BY IdleRequests DEF Init, RequestTypes
  <2> QED BY <2>1, <2>2, IdleRequests
          DEF RequestsOk, MoverOk, CorrectorOk, CloseOk, SweepOk, Init
<1>4. RowsOk
  BY <1>1, <1>2 DEF RowsOk, SaleOk, ShiftOk
<1>5. Balanced
  <2> SUFFICES ASSUME NEW s \in Shifts
               PROVE  shift[s].opening + CashOf(s) - RefundsOf(s) + moved[s] = drawer[s]
    BY DEF Balanced
  <2>1. \A x \in Sales : Taken(x, s) = 0 /\ Given(x, s) = 0
    BY <1>1 DEF Taken, Given
  <2>2. CashOf(s) = 0 /\ RefundsOf(s) = 0
    BY <1>2, <2>1, CashTypes, SumZero, SumsAreOf, SalesBound DEF Sales
  <2> QED BY <1>1, <2>2
<1> QED BY <1>3, <1>4, <1>5 DEF IInv

-----------------------------------------------------------------------------
(* Statements of a request that only read.                                 *)

Rows == <<shift, sale, refund, moved, drawer, today>>

LEMMA ReadKeeps ==
  ASSUME IInv, UNCHANGED Rows, RequestsOk'
  PROVE  Kept
<1> USE DEF Rows
<1>1. GoesOn
  BY Steady
<1>2. RowsOk'
  BY DEF IInv, RowsOk, RowTypes, SaleOk, ShiftOk, Exists, Final
<1>3. Balanced'
  <2>1. \A s \in Shifts : CashOf(s)' = CashOf(s) /\ RefundsOf(s)' = RefundsOf(s)
    BY CashSame DEF Taken, Given, SalesOf
  <2> QED BY <2>1 DEF IInv, Balanced
<1> QED BY <1>1, <1>2, <1>3 DEF Kept, IInv

LEMMA OpenCheckKeeps ==
  ASSUME IInv, NEW o \in Openers, OpenCheck(o)
  PROVE  Kept
<1>1. UNCHANGED Rows /\ UNCHANGED <<mover, corrector, closer, sweep>>
  BY DEF OpenCheck, Rows, trade, cash, clock
<1>2. opener' \in [Openers -> Request]
  <2>1. [Idle EXCEPT !.at = "create"] \in Request
    BY IdleRequests DEF Request
  <2> QED BY <2>1 DEF OpenCheck, IInv, RequestsOk, RequestTypes
<1>3. RequestsOk'
  BY <1>1, <1>2, Steady, MoverStays, CorrectorStays, CloserStays, SweepStays
     DEF RequestsOk, RequestTypes, IInv, Rows
<1> QED BY <1>1, <1>3, ReadKeeps

\* A movement that moves on to r changes nothing else.
LEMMA MoverKeeps ==
  ASSUME IInv, NEW m \in Movers, NEW r \in Request, MoverOk(r),
         UNCHANGED Rows, UNCHANGED <<opener, corrector, closer, sweep>>,
         mover' = [mover EXCEPT ![m] = r]
  PROVE  Kept
<1>1. mover' \in [Movers -> Request] /\ mover'[m] = r
      /\ \A n \in Movers \ {m} : mover'[n] = mover[n]
  BY DEF IInv, RequestsOk, RequestTypes
<1>2. MoverOk(mover[m])'
  BY <1>1 DEF MoverOk, Exists, Rows
<1>3. RequestsOk'
  BY <1>1, <1>2, Steady, MoverStays, CorrectorStays, CloserStays, SweepStays
     DEF RequestsOk, RequestTypes, IInv, Rows
<1> QED BY <1>3, ReadKeeps

LEMMA MovementBeginKeeps ==
  ASSUME IInv, NEW m \in Movers, NEW s \in Shifts, NEW a \in Int, MovementBegin(m, s, a)
  PROVE  Kept
<1> DEFINE r == [Idle EXCEPT !.shift = s, !.amount = a,
                   !.at = IF a < 0 THEN "check" ELSE "create"]
<1>1. r \in Request /\ r.shift = s /\ r.at \in {"check", "create"}
  BY IdleRequests DEF Request
<1>2. /\ UNCHANGED Rows /\ UNCHANGED <<opener, corrector, closer, sweep>> /\ IsOpen(s)
      /\ mover' = [mover EXCEPT ![m] = r]
  BY DEF MovementBegin, Rows, trade, cash, clock
<1> HIDE DEF r
<1>3. MoverOk(r)
  BY <1>1, <1>2 DEF MoverOk, Exists, IsOpen
<1> QED BY <1>1, <1>2, <1>3, MoverKeeps

LEMMA MovementCheckKeeps ==
  ASSUME IInv, NEW m \in Movers, MovementCheck(m)
  PROVE  Kept
<1> DEFINE r == [mover[m] EXCEPT !.at = "create"]
<1>1. mover[m] \in Request /\ MoverOk(mover[m])
  BY DEF IInv, RequestsOk, RequestTypes
<1>2. r \in Request /\ r.shift = mover[m].shift /\ r.at = "create"
  BY <1>1 DEF Request
<1>3. /\ UNCHANGED Rows /\ UNCHANGED <<opener, corrector, closer, sweep>>
      /\ mover' = [mover EXCEPT ![m] = r] /\ mover[m].at = "check"
  BY DEF MovementCheck, Rows, trade, cash, clock
<1> HIDE DEF r
<1>4. MoverOk(r)
  BY <1>1, <1>2, <1>3 DEF MoverOk
<1> QED BY <1>2, <1>3, <1>4, MoverKeeps

LEMMA CorrectFloatBeginKeeps ==
  ASSUME IInv, NEW k \in Correctors, NEW s \in Shifts, CorrectFloatBegin(k, s)
  PROVE  Kept
<1> DEFINE r == [Idle EXCEPT !.at = "update", !.shift = s, !.amount = shift[s].opening]
<1>1. r \in Request /\ r.shift = s
  <2>1. shift[s].opening \in Int
    BY DEF IInv, RowsOk, RowTypes, ShiftRow
  <2> QED BY <2>1, IdleRequests DEF Request
<1>2. /\ UNCHANGED Rows /\ UNCHANGED <<opener, mover, closer, sweep>> /\ IsOpen(s)
      /\ corrector' = [corrector EXCEPT ![k] = r]
  BY DEF CorrectFloatBegin, Rows, trade, cash, clock
<1> HIDE DEF r
<1>3. /\ corrector' \in [Correctors -> Request] /\ corrector'[k] = r
      /\ \A j \in Correctors \ {k} : corrector'[j] = corrector[j]
  BY <1>1, <1>2 DEF IInv, RequestsOk, RequestTypes
<1>4. CorrectorOk(corrector[k])'
  BY <1>1, <1>2, <1>3 DEF CorrectorOk, Exists, IsOpen, Rows
<1>5. RequestsOk'
  BY <1>2, <1>3, <1>4, Steady, MoverStays, CorrectorStays, CloserStays, SweepStays
     DEF RequestsOk, RequestTypes, IInv, Rows
<1> QED BY <1>2, <1>5, ReadKeeps

\* A closing request, or a pass, that moves on to r.
LEMMA CloserKeeps ==
  ASSUME IInv, NEW c \in Closers, NEW r \in Request, CloseOk(r),
         UNCHANGED Rows, UNCHANGED <<opener, mover, corrector, sweep>>,
         closer' = [closer EXCEPT ![c] = r]
  PROVE  Kept
<1>1. closer' \in [Closers -> Request] /\ closer'[c] = r
      /\ \A d \in Closers \ {c} : closer'[d] = closer[d]
  BY DEF IInv, RequestsOk, RequestTypes
<1>2. GoesOn
  BY Steady DEF Rows
<1>3. CloseOk(closer[c])'
  BY <1>1, <1>2, CloseStays DEF CloseOk
<1>4. RequestsOk'
  BY <1>1, <1>2, <1>3, MoverStays, CorrectorStays, CloserStays, SweepStays
     DEF RequestsOk, RequestTypes, IInv
<1> QED BY <1>4, ReadKeeps

LEMMA SweepKeeps ==
  ASSUME IInv, NEW w \in Sweeps, NEW r \in Request, SweepOk(r),
         UNCHANGED Rows, UNCHANGED <<opener, mover, corrector, closer>>,
         sweep' = [sweep EXCEPT ![w] = r]
  PROVE  Kept
<1>1. sweep' \in [Sweeps -> Request] /\ sweep'[w] = r
      /\ \A v \in Sweeps \ {w} : sweep'[v] = sweep[v]
  BY DEF IInv, RequestsOk, RequestTypes
<1>2. GoesOn
  BY Steady DEF Rows
<1>3. SweepOk(sweep[w])'
  BY <1>1, <1>2, CloseStays DEF CloseOk, SweepOk
<1>4. RequestsOk'
  BY <1>1, <1>2, <1>3, MoverStays, CorrectorStays, CloserStays, SweepStays
     DEF RequestsOk, RequestTypes, IInv
<1> QED BY <1>4, ReadKeeps

LEMMA CloseBeginKeeps ==
  ASSUME IInv, NEW c \in Closers, NEW s \in Shifts, NEW ack \in BOOLEAN, CloseBegin(c, s, ack)
  PROVE  Kept
<1> DEFINE r == [Idle EXCEPT !.at = "check", !.shift = s, !.ack = ack]
<1>1. r \in Request /\ r.shift = s /\ r.at = "check" /\ r.seen = {}
  BY IdleRequests DEF Request
<1>2. /\ UNCHANGED Rows /\ UNCHANGED <<opener, mover, corrector, sweep>> /\ IsOpen(s)
      /\ closer' = [closer EXCEPT ![c] = r]
  BY DEF CloseBegin, Rows, trade, cash, clock
<1> HIDE DEF r
<1>3. CloseOk(r)
  BY <1>1, <1>2 DEF CloseOk, Exists, IsOpen
<1> QED BY <1>1, <1>2, <1>3, CloserKeeps

LEMMA CloseCheckKeeps ==
  ASSUME IInv, NEW c \in Closers, CloseCheck(c)
  PROVE  Kept
<1> DEFINE s == closer[c].shift
           r == [closer[c] EXCEPT !.at = "update", !.seen = SalesOf(s), !.day = today]
<1>1. closer[c] \in Request /\ CloseOk(closer[c])
  BY DEF IInv, RequestsOk, RequestTypes
<1>2. SalesOf(s) \in SUBSET Sales /\ today \in Days
  BY DEF SalesOf, IInv, RowsOk, RowTypes
<1>3. r \in Request /\ r.shift = s /\ r.at = "update" /\ r.seen = SalesOf(s)
      /\ r.ack = closer[c].ack
  BY <1>1, <1>2 DEF Request
<1>4. /\ UNCHANGED Rows /\ UNCHANGED <<opener, mover, corrector, sweep>>
      /\ closer' = [closer EXCEPT ![c] = r] /\ closer[c].at = "check"
      /\ StockShortagesForShift(s) # {} => closer[c].ack
  BY DEF CloseCheck, Rows, trade, cash, clock
<1> HIDE DEF r
<1>5. CloseOk(r)
  BY <1>1, <1>3, <1>4 DEF CloseOk, SalesOf, Final
<1> QED BY <1>3, <1>4, <1>5, CloserKeeps

LEMMA SweepBeginKeeps ==
  ASSUME IInv, NEW w \in Sweeps, NEW s \in Shifts, NEW day \in Days, SweepBegin(w, s, day)
  PROVE  Kept
<1> DEFINE r == [Idle EXCEPT !.at = "check", !.shift = s, !.day = day]
<1>1. r \in Request /\ r.shift = s /\ r.at = "check" /\ r.seen = {} /\ ~r.ack
  BY IdleRequests DEF Request
<1>2. /\ UNCHANGED Rows /\ UNCHANGED <<opener, mover, corrector, closer>> /\ IsOpen(s)
      /\ sweep' = [sweep EXCEPT ![w] = r]
  BY DEF SweepBegin, Rows, trade, cash, clock
<1> HIDE DEF r
<1>3. SweepOk(r)
  BY <1>1, <1>2 DEF CloseOk, SweepOk, Exists, IsOpen
<1> QED BY <1>1, <1>2, <1>3, SweepKeeps

LEMMA SweepCheckKeeps ==
  ASSUME IInv, NEW w \in Sweeps, SweepCheck(w)
  PROVE  Kept
<1> DEFINE s == sweep[w].shift
           seeing == [sweep[w] EXCEPT !.at = "update", !.seen = SalesOf(s)]
           r == IF StockShortagesForShift(s) # {} THEN Idle ELSE seeing
<1>1. sweep[w] \in Request /\ SweepOk(sweep[w])
  BY DEF IInv, RequestsOk, RequestTypes
<1>2. SalesOf(s) \in SUBSET Sales
  BY DEF SalesOf
<1>3. /\ seeing \in Request /\ seeing.shift = s /\ seeing.at = "update"
      /\ seeing.seen = SalesOf(s) /\ seeing.ack = sweep[w].ack
  BY <1>1, <1>2 DEF Request
<1>4. /\ UNCHANGED Rows /\ UNCHANGED <<opener, mover, corrector, closer>>
      /\ sweep' = [sweep EXCEPT ![w] = r] /\ sweep[w].at = "check"
  BY DEF SweepCheck, Rows, trade, cash, clock
<1> HIDE DEF seeing
<1>5. r \in Request /\ SweepOk(r)
  BY <1>1, <1>3, <1>4, IdleRequests DEF CloseOk, SweepOk, SalesOf, Final
<1> HIDE DEF r
<1> QED BY <1>4, <1>5, SweepKeeps

-----------------------------------------------------------------------------
(* Checkouts, voids and refunds.                                           *)

\* A step of sale x: the drawer of each shift changes by what the sale and its
\* refund come to count for.
LEMMA SaleKeeps ==
  ASSUME IInv, NEW x \in Sales, NEW row \in SaleRow, NEW paid \in RefundRow,
         sale' = [sale EXCEPT ![x] = row], refund' = [refund EXCEPT ![x] = paid],
         UNCHANGED <<shift, moved, today>>, UNCHANGED requests,
         drawer' \in [Shifts -> Int], GoesOn, SaleOk(x)',
         \A s \in Shifts :
           /\ shift[s].status = "NONE" => drawer'[s] = drawer[s]
           /\ drawer'[s] = drawer[s] + (Taken(x, s)' - Taken(x, s))
                             - (Given(x, s)' - Given(x, s))
  PROVE  Kept
<1>1. /\ sale' \in [Sales -> SaleRow] /\ sale'[x] = row
      /\ refund' \in [Sales -> RefundRow] /\ refund'[x] = paid
      /\ \A y \in Sales \ {x} : sale'[y] = sale[y] /\ refund'[y] = refund[y]
  BY DEF IInv, RowsOk, RowTypes
<1>2. RowTypes /\ RowTypes'
  BY <1>1 DEF IInv, RowsOk, RowTypes
<1>3. \A y \in Sales : SaleOk(y)'
  BY <1>1 DEF IInv, RowsOk, SaleOk, Exists, Final
<1>4. \A s \in Shifts : ShiftOk(s)'
  BY DEF IInv, RowsOk, ShiftOk
<1>5. RequestsOk'
  BY RequestsStay
<1>6. Balanced'
  <2> SUFFICES ASSUME NEW s \in Shifts
               PROVE  shift'[s].opening + CashOf(s)' - RefundsOf(s)' + moved'[s] = drawer'[s]
    BY DEF Balanced
  <2>1. /\ CashOf(s)' = CashOf(s) + (Taken(x, s)' - Taken(x, s))
        /\ RefundsOf(s)' = RefundsOf(s) + (Given(x, s)' - Given(x, s))
    BY <1>1, <1>2, CashOnceMore
  <2>2. /\ Taken(x, s) \in Int /\ Given(x, s) \in Int
        /\ Taken(x, s)' \in Int /\ Given(x, s)' \in Int
    BY <1>2 DEF Taken, Given, RowTypes, SaleRow
  <2>3. /\ CashOf(s) \in Int /\ RefundsOf(s) \in Int
        /\ shift[s].opening \in Int /\ moved[s] \in Int /\ drawer[s] \in Int
    BY <1>2, CashTypes DEF RowTypes, ShiftRow
  <2>4. shift[s].opening + CashOf(s) - RefundsOf(s) + moved[s] = drawer[s]
    BY DEF IInv, Balanced
  <2>5. drawer'[s] = drawer[s] + (Taken(x, s)' - Taken(x, s)) - (Given(x, s)' - Given(x, s))
    OBVIOUS
  <2> QED BY <2>1, <2>2, <2>3, <2>4, <2>5
<1> QED BY <1>2, <1>3, <1>4, <1>5, <1>6 DEF Kept, IInv, RowsOk

LEMMA NoSaleRow == NoSale \in SaleRow /\ NoSale.status = "NONE" /\ NoSale.shift = None
BY DEF NoSale, SaleRow

LEMMA CheckoutBeginKeeps ==
  ASSUME IInv, NEW x \in Sales, NEW s \in Shifts, CheckoutBegin(x, s)
  PROVE  Kept
<1> DEFINE row == [NoSale EXCEPT !.status = "BEGUN", !.shift = s]
<1>1. row \in SaleRow /\ row.status = "BEGUN" /\ row.shift = s
  BY NoSaleRow DEF SaleRow
<1>2. /\ sale[x].status = "NONE" /\ sale \in [Sales -> SaleRow]
      /\ refund \in [Sales -> RefundRow] /\ refund[x].at = "none" /\ IsOpen(s)
      /\ sale' = [sale EXCEPT ![x] = row]
      /\ UNCHANGED <<shift, refund, moved, today, drawer>> /\ UNCHANGED requests
  BY NoSaleRow DEF CheckoutBegin, trade, cash, clock, IInv, RowsOk, RowTypes, RefundRow, SaleOk, Final
<1> HIDE DEF row
<1>3. sale'[x] = row /\ \A y \in Sales \ {x} : sale'[y] = sale[y]
  BY <1>2
<1>4. GoesOn
  BY <1>2, <1>3 DEF GoesOn, Final, IsClosed
<1>5. SaleOk(x)'
  BY <1>1, <1>2, <1>3 DEF SaleOk, Exists, IsOpen
<1>6. \A z \in Shifts : /\ Taken(x, z) = 0 /\ Taken(x, z)' = 0
                        /\ Given(x, z) = 0 /\ Given(x, z)' = 0
  BY <1>1, <1>2, <1>3 DEF Taken, Given, SalesOf
<1>7. drawer' \in [Shifts -> Int] /\ drawer \in [Shifts -> Int]
  BY <1>2 DEF IInv, RowsOk, RowTypes
<1>8. refund' = [refund EXCEPT ![x] = refund[x]] /\ refund[x] \in RefundRow
  BY <1>2
<1>9. \A z \in Shifts : drawer'[z] = drawer[z] + (Taken(x, z)' - Taken(x, z))
                                       - (Given(x, z)' - Given(x, z))
  BY <1>2, <1>6, <1>7
<1> QED BY <1>1, <1>2, <1>4, <1>5, <1>7, <1>8, <1>9, SaleKeeps

LEMMA CheckoutAbortKeeps ==
  ASSUME IInv, NEW x \in Sales, CheckoutAbort(x)
  PROVE  Kept
<1>2. /\ sale[x].status = "BEGUN" /\ sale \in [Sales -> SaleRow]
      /\ refund \in [Sales -> RefundRow] /\ refund[x].at = "none"
      /\ sale' = [sale EXCEPT ![x] = NoSale]
      /\ UNCHANGED <<shift, refund, moved, today, drawer>> /\ UNCHANGED requests
  BY DEF CheckoutAbort, trade, cash, clock, IInv, RowsOk, RowTypes, RefundRow, SaleOk, Final
<1>3. sale'[x] = NoSale /\ \A y \in Sales \ {x} : sale'[y] = sale[y]
  BY <1>2
<1>4. GoesOn
  BY <1>2, <1>3 DEF GoesOn, Final, IsClosed
<1>5. SaleOk(x)'
  BY <1>2, <1>3, NoSaleRow DEF SaleOk
<1>6. \A z \in Shifts : /\ Taken(x, z) = 0 /\ Taken(x, z)' = 0
                        /\ Given(x, z) = 0 /\ Given(x, z)' = 0
  BY NoSaleRow, <1>2, <1>3 DEF Taken, Given, SalesOf
<1>7. drawer' \in [Shifts -> Int] /\ drawer \in [Shifts -> Int]
  BY <1>2 DEF IInv, RowsOk, RowTypes
<1>8. refund' = [refund EXCEPT ![x] = refund[x]] /\ refund[x] \in RefundRow
  BY <1>2
<1>9. \A z \in Shifts : drawer'[z] = drawer[z] + (Taken(x, z)' - Taken(x, z))
                                       - (Given(x, z)' - Given(x, z))
  BY <1>2, <1>6, <1>7
<1> QED BY NoSaleRow, <1>2, <1>4, <1>5, <1>7, <1>8, <1>9, SaleKeeps

LEMMA CheckoutCommitKeeps ==
  ASSUME IInv, NEW x \in Sales, NEW a \in Nat, NEW c \in Nat, NEW short \in BOOLEAN,
         CheckoutCommit(x, a, c, short)
  PROVE  Kept
<1> DEFINE row == [sale[x] EXCEPT !.status = "COMPLETED", !.amount = a, !.change = c,
                                  !.short = short]
           s == sale[x].shift
<1>1. /\ sale \in [Sales -> SaleRow] /\ sale[x] \in SaleRow /\ drawer \in [Shifts -> Int]
      /\ refund \in [Sales -> RefundRow]
  BY DEF IInv, RowsOk, RowTypes
<1>2. row \in SaleRow /\ row.status = "COMPLETED" /\ row.shift = s /\ row.amount = a
  BY <1>1 DEF SaleRow
<1>3. /\ sale[x].status = "BEGUN" /\ refund[x].at = "none" /\ Exists(s)
      /\ sale' = [sale EXCEPT ![x] = row]
      /\ drawer' = [drawer EXCEPT ![s] = @ + a]
      /\ UNCHANGED <<shift, refund, moved, today>> /\ UNCHANGED requests
  BY <1>1 DEF CheckoutCommit, trade, cash, clock, IInv, RowsOk, SaleOk, Final, RefundRow
<1> HIDE DEF row
<1>4. sale'[x] = row /\ \A y \in Sales \ {x} : sale'[y] = sale[y]
  BY <1>1, <1>3
<1>5. GoesOn
  BY <1>3, <1>4 DEF GoesOn, Final, IsClosed
<1>6. SaleOk(x)'
  BY <1>2, <1>3, <1>4 DEF SaleOk, Exists
<1>7. \A z \in Shifts : /\ Taken(x, z) = 0 /\ Taken(x, z)' = IF z = s THEN a ELSE 0
                        /\ Given(x, z) = 0 /\ Given(x, z)' = 0
  BY <1>2, <1>3, <1>4 DEF Taken, Given, SalesOf
<1>8. drawer' \in [Shifts -> Int]
      /\ \A z \in Shifts : drawer'[z] = IF z = s THEN drawer[z] + a ELSE drawer[z]
  BY <1>1, <1>3 DEF Exists
<1>9. refund' = [refund EXCEPT ![x] = refund[x]] /\ refund[x] \in RefundRow
  BY <1>1, <1>3
<1>10. \A z \in Shifts :
         /\ shift[z].status = "NONE" => drawer'[z] = drawer[z]
         /\ drawer'[z] = drawer[z] + (Taken(x, z)' - Taken(x, z)) - (Given(x, z)' - Given(x, z))
  BY <1>1, <1>3, <1>7, <1>8 DEF Exists
<1> QED BY <1>2, <1>3, <1>5, <1>6, <1>8, <1>9, <1>10, SaleKeeps

LEMMA VoidReceiptKeeps ==
  ASSUME IInv, NEW x \in Sales, VoidReceipt(x)
  PROVE  Kept
<1> DEFINE row == [sale[x] EXCEPT !.status = "VOIDED"]
           s == sale[x].shift
<1>1. /\ sale \in [Sales -> SaleRow] /\ sale[x] \in SaleRow /\ drawer \in [Shifts -> Int]
      /\ refund \in [Sales -> RefundRow]
  BY DEF IInv, RowsOk, RowTypes
<1>2. row \in SaleRow /\ row.status = "VOIDED" /\ row.shift = s /\ row.short = sale[x].short
      /\ sale[x].amount \in Nat
  BY <1>1 DEF SaleRow
<1>3. /\ sale[x].status = "COMPLETED" /\ refund[x].at # "done" /\ Exists(s)
      /\ refund[x].at # "none" => Exists(refund[x].shift)
      /\ sale' = [sale EXCEPT ![x] = row]
      /\ drawer' = [drawer EXCEPT ![s] = @ - sale[x].amount]
      /\ UNCHANGED <<shift, refund, moved, today>> /\ UNCHANGED requests
  BY <1>1 DEF VoidReceipt, trade, cash, clock, HandBack, IInv, RowsOk, SaleOk, Final, RefundRow
<1> HIDE DEF row
<1>4. sale'[x] = row /\ \A y \in Sales \ {x} : sale'[y] = sale[y]
  BY <1>1, <1>3
<1>5. GoesOn
  BY <1>2, <1>3, <1>4 DEF GoesOn, Final, IsClosed
<1>6. SaleOk(x)'
  BY <1>2, <1>3, <1>4 DEF SaleOk, Exists, Final
<1>7. \A z \in Shifts : /\ Taken(x, z) = (IF z = s THEN sale[x].amount ELSE 0) /\ Taken(x, z)' = 0
                        /\ Given(x, z) = 0 /\ Given(x, z)' = 0
  BY <1>2, <1>3, <1>4 DEF Taken, Given, SalesOf
<1>8. drawer' \in [Shifts -> Int]
      /\ \A z \in Shifts : drawer'[z] = IF z = s THEN drawer[z] - sale[x].amount ELSE drawer[z]
  BY <1>1, <1>2, <1>3 DEF Exists
<1>9. refund' = [refund EXCEPT ![x] = refund[x]] /\ refund[x] \in RefundRow
  BY <1>1, <1>3
<1>10. \A z \in Shifts :
         /\ shift[z].status = "NONE" => drawer'[z] = drawer[z]
         /\ drawer'[z] = drawer[z] + (Taken(x, z)' - Taken(x, z)) - (Given(x, z)' - Given(x, z))
  BY <1>1, <1>2, <1>3, <1>7, <1>8 DEF Exists
<1> QED BY <1>2, <1>3, <1>5, <1>6, <1>8, <1>9, <1>10, SaleKeeps

LEMMA RefundBeginKeeps ==
  ASSUME IInv, NEW x \in Sales, NEW s \in Shifts, RefundBegin(x, s)
  PROVE  Kept
<1> DEFINE paid == [at |-> "begun", shift |-> s]
<1>1. /\ sale \in [Sales -> SaleRow] /\ sale[x] \in SaleRow /\ drawer \in [Shifts -> Int]
      /\ refund \in [Sales -> RefundRow]
  BY DEF IInv, RowsOk, RowTypes
<1>2. paid \in RefundRow /\ paid.at = "begun" /\ paid.shift = s
  BY DEF RefundRow
<1>3. /\ sale[x].status = "COMPLETED" /\ refund[x].at = "none" /\ IsOpen(s)
      /\ Exists(sale[x].shift)
      /\ refund' = [refund EXCEPT ![x] = paid]
      /\ UNCHANGED <<shift, sale, moved, drawer, today>> /\ UNCHANGED requests
  BY <1>1 DEF RefundBegin, trade, cash, clock, IInv, RowsOk, SaleOk
<1> HIDE DEF paid
<1>4. refund'[x] = paid /\ \A y \in Sales \ {x} : refund'[y] = refund[y]
  BY <1>1, <1>3
<1>5. GoesOn
  BY <1>3, <1>4 DEF GoesOn, Final, IsClosed
<1>6. SaleOk(x)'
  BY <1>2, <1>3, <1>4 DEF SaleOk, Exists, Final, IsOpen
<1>7. \A z \in Shifts : /\ Taken(x, z)' = Taken(x, z) /\ Taken(x, z) \in Int
                        /\ Given(x, z) = 0 /\ Given(x, z)' = 0
  BY <1>1, <1>2, <1>3, <1>4 DEF Taken, Given, SalesOf, SaleRow
<1>8. sale' = [sale EXCEPT ![x] = sale[x]] /\ drawer' \in [Shifts -> Int]
  BY <1>1, <1>3
<1>9. \A z \in Shifts : drawer'[z] = drawer[z] + (Taken(x, z)' - Taken(x, z))
                                       - (Given(x, z)' - Given(x, z))
  BY <1>1, <1>3, <1>7
<1> QED BY <1>1, <1>2, <1>3, <1>5, <1>6, <1>8, <1>9, SaleKeeps

LEMMA RefundAbortKeeps ==
  ASSUME IInv, NEW x \in Sales, RefundAbort(x)
  PROVE  Kept
<1> DEFINE paid == [at |-> "none", shift |-> None]
<1>1. /\ sale \in [Sales -> SaleRow] /\ sale[x] \in SaleRow /\ drawer \in [Shifts -> Int]
      /\ refund \in [Sales -> RefundRow]
  BY DEF IInv, RowsOk, RowTypes
<1>2. paid \in RefundRow /\ paid.at = "none" /\ paid.shift = None
  BY DEF RefundRow
<1>3. /\ SaleOk(x) /\ refund[x].at = "begun"
      /\ refund' = [refund EXCEPT ![x] = paid]
      /\ UNCHANGED <<shift, sale, moved, drawer, today>> /\ UNCHANGED requests
  BY <1>1 DEF RefundAbort, trade, cash, clock, IInv, RowsOk
<1> HIDE DEF paid
<1>4. refund'[x] = paid /\ \A y \in Sales \ {x} : refund'[y] = refund[y]
  BY <1>1, <1>3
<1>5. GoesOn
  BY <1>3, <1>4 DEF GoesOn, Final, IsClosed
<1>6. SaleOk(x)'
  BY <1>2, <1>3, <1>4 DEF SaleOk, Exists
<1>7. \A z \in Shifts : /\ Taken(x, z)' = Taken(x, z) /\ Taken(x, z) \in Int
                        /\ Given(x, z) = 0 /\ Given(x, z)' = 0
  BY <1>1, <1>2, <1>3, <1>4 DEF Taken, Given, SalesOf, SaleRow
<1>8. sale' = [sale EXCEPT ![x] = sale[x]] /\ drawer' \in [Shifts -> Int]
  BY <1>1, <1>3
<1>9. \A z \in Shifts : drawer'[z] = drawer[z] + (Taken(x, z)' - Taken(x, z))
                                       - (Given(x, z)' - Given(x, z))
  BY <1>1, <1>3, <1>7
<1> QED BY <1>1, <1>2, <1>3, <1>5, <1>6, <1>8, <1>9, SaleKeeps

LEMMA RefundCommitKeeps ==
  ASSUME IInv, NEW x \in Sales, RefundCommit(x)
  PROVE  Kept
<1> DEFINE paid == [refund[x] EXCEPT !.at = "done"]
           s == refund[x].shift
<1>1. /\ sale \in [Sales -> SaleRow] /\ sale[x] \in SaleRow /\ drawer \in [Shifts -> Int]
      /\ refund \in [Sales -> RefundRow] /\ sale[x].amount \in Nat
  BY DEF IInv, RowsOk, RowTypes, SaleRow
<1>2. paid \in RefundRow /\ paid.at = "done" /\ paid.shift = s /\ paid = [at |-> "done", shift |-> s]
  BY <1>1 DEF RefundRow
<1>3. /\ sale[x].status = "COMPLETED" /\ refund[x].at = "begun" /\ Exists(s)
      /\ Exists(sale[x].shift)
      /\ refund' = [refund EXCEPT ![x] = paid]
      /\ drawer' = [drawer EXCEPT ![s] = @ - sale[x].amount]
      /\ UNCHANGED <<shift, sale, moved, today>> /\ UNCHANGED requests
  BY <1>1 DEF RefundCommit, trade, cash, clock, HandBack, IInv, RowsOk, SaleOk
<1> HIDE DEF paid
<1>4. refund'[x] = paid /\ \A y \in Sales \ {x} : refund'[y] = refund[y]
  BY <1>1, <1>3
<1>5. GoesOn
  BY <1>3, <1>4 DEF GoesOn, Final, IsClosed
<1>6. SaleOk(x)'
  BY <1>2, <1>3, <1>4 DEF SaleOk, Exists, Final
<1>7. \A z \in Shifts : /\ Taken(x, z)' = Taken(x, z) /\ Taken(x, z) \in Int
                        /\ Given(x, z) = 0 /\ Given(x, z)' = IF z = s THEN sale[x].amount ELSE 0
  BY <1>1, <1>2, <1>3, <1>4 DEF Taken, Given, SalesOf
<1>8. /\ sale' = [sale EXCEPT ![x] = sale[x]] /\ drawer' \in [Shifts -> Int]
      /\ \A z \in Shifts : drawer'[z] = IF z = s THEN drawer[z] - sale[x].amount ELSE drawer[z]
  BY <1>1, <1>3 DEF Exists
<1>9. \A z \in Shifts :
        /\ shift[z].status = "NONE" => drawer'[z] = drawer[z]
        /\ drawer'[z] = drawer[z] + (Taken(x, z)' - Taken(x, z)) - (Given(x, z)' - Given(x, z))
  BY <1>1, <1>3, <1>7, <1>8 DEF Exists
<1> QED BY <1>1, <1>2, <1>3, <1>5, <1>6, <1>8, <1>9, SaleKeeps

-----------------------------------------------------------------------------
(* Statements that write a shift or a movement.                            *)

LEMMA MovementCreateKeeps ==
  ASSUME IInv, NEW m \in Movers, MovementCreate(m)
  PROVE  Kept
<1> DEFINE s == mover[m].shift
           a == mover[m].amount
<1>1. mover[m] \in Request /\ MoverOk(mover[m]) /\ a \in Int
  BY DEF IInv, RequestsOk, RequestTypes, Request
<1>2. /\ mover[m].at = "create" /\ Exists(s)
      /\ moved' = [moved EXCEPT ![s] = @ + a] /\ drawer' = [drawer EXCEPT ![s] = @ + a]
      /\ mover' = [mover EXCEPT ![m] = Gone]
      /\ UNCHANGED <<shift, sale, refund, today>>
      /\ UNCHANGED <<opener, corrector, closer, sweep>>
  BY <1>1 DEF MovementCreate, trade, cash, clock, MoverOk
<1>3. RowTypes
  BY DEF IInv, RowsOk
<1>4. /\ moved' \in [Shifts -> Int] /\ drawer' \in [Shifts -> Int]
      /\ \A z \in Shifts : moved'[z] = IF z = s THEN moved[z] + a ELSE moved[z]
      /\ \A z \in Shifts : drawer'[z] = IF z = s THEN drawer[z] + a ELSE drawer[z]
  <2>1. moved \in [Shifts -> Int] /\ drawer \in [Shifts -> Int]
    BY <1>3 DEF RowTypes
  <2> HIDE DEF a, s
  <2>3. \A z \in Shifts : moved'[z] = IF z = s THEN moved[z] + a ELSE moved[z]
    BY <1>2, <2>1
  <2>4. \A z \in Shifts : drawer'[z] = IF z = s THEN drawer[z] + a ELSE drawer[z]
    BY <1>2, <2>1
  <2>5. \A z \in Shifts : moved[z] + a \in Int /\ drawer[z] + a \in Int
    BY <1>1, <2>1
  <2>6. moved' \in [Shifts -> Int]
    BY <1>2, <2>1, <2>5
  <2>7. drawer' \in [Shifts -> Int]
    BY <1>2, <2>1, <2>5
  <2> QED BY <2>3, <2>4, <2>6, <2>7
<1>5. GoesOn
  BY <1>2, Steady
<1>6. RowsOk'
  <2>1. RowTypes'
    BY <1>2, <1>3, <1>4 DEF RowTypes
  <2>2. \A x \in Sales : SaleOk(x)'
    BY <1>2 DEF IInv, RowsOk, SaleOk, Exists, Final
  <2>3. \A z \in Shifts : ShiftOk(z)'
    BY <1>2, <1>4 DEF IInv, RowsOk, ShiftOk, Exists
  <2> QED BY <2>1, <2>2, <2>3 DEF RowsOk
<1>7. /\ mover' \in [Movers -> Request] /\ mover'[m] = Gone
      /\ \A n \in Movers \ {m} : mover'[n] = mover[n]
  BY <1>2, IdleRequests DEF IInv, RequestsOk, RequestTypes
<1>8. RequestsOk'
  <2>1. MoverOk(mover[m])'
    BY <1>7, IdleRequests DEF MoverOk
  <2> QED BY <1>2, <1>5, <1>7, <2>1, MoverStays, CorrectorStays, CloserStays, SweepStays
          DEF RequestsOk, RequestTypes, IInv
<1>9. Balanced'
  <2> SUFFICES ASSUME NEW z \in Shifts
               PROVE  shift'[z].opening + CashOf(z)' - RefundsOf(z)' + moved'[z] = drawer'[z]
    BY DEF Balanced
  <2>1. CashOf(z)' = CashOf(z) /\ RefundsOf(z)' = RefundsOf(z)
    BY <1>2, CashSame DEF Taken, Given, SalesOf
  <2>2. /\ CashOf(z) \in Int /\ RefundsOf(z) \in Int
        /\ shift[z].opening \in Int /\ moved[z] \in Int /\ drawer[z] \in Int
    BY <1>3, CashTypes DEF RowTypes, ShiftRow
  <2>3. shift[z].opening + CashOf(z) - RefundsOf(z) + moved[z] = drawer[z]
    BY DEF IInv, Balanced
  <2> QED BY <1>1, <1>2, <1>4, <2>1, <2>2, <2>3
<1> QED BY <1>5, <1>6, <1>8, <1>9 DEF Kept, IInv

\* Row s of the shifts becomes "row".
LEMMA ShiftKeeps ==
  ASSUME IInv, NEW s \in Shifts, NEW row \in ShiftRow,
         shift' = [shift EXCEPT ![s] = row], UNCHANGED <<sale, refund, moved, today>>,
         drawer' \in [Shifts -> Int],
         \A z \in Shifts \ {s} : drawer'[z] = drawer[z],
         drawer'[s] - row.opening = drawer[s] - shift[s].opening,
         GoesOn, ShiftOk(s)', RequestsOk'
  PROVE  Kept
<1>1. RowTypes /\ shift'[s] = row /\ \A z \in Shifts \ {s} : shift'[z] = shift[z]
  BY DEF IInv, RowsOk, RowTypes
<1>4. RowTypes'
  BY <1>1 DEF RowTypes
<1>5. \A x \in Sales : SaleOk(x)'
  BY DEF IInv, RowsOk, SaleOk, Exists, Final, GoesOn
<1>6. ASSUME NEW z \in Shifts \ {s} PROVE ShiftOk(z)'
  BY <1>1 DEF IInv, RowsOk, ShiftOk
<1>7. Balanced'
  <2> SUFFICES ASSUME NEW z \in Shifts
               PROVE  shift'[z].opening + CashOf(z)' - RefundsOf(z)' + moved'[z] = drawer'[z]
    BY DEF Balanced
  <2>1. CashOf(z)' = CashOf(z) /\ RefundsOf(z)' = RefundsOf(z)
    BY CashSame DEF Taken, Given, SalesOf
  <2>2. /\ CashOf(z) \in Int /\ RefundsOf(z) \in Int /\ drawer'[z] \in Int
        /\ shift[z].opening \in Int /\ moved[z] \in Int /\ drawer[z] \in Int
        /\ row.opening \in Int
    BY <1>1, CashTypes DEF RowTypes, ShiftRow
  <2>3. shift[z].opening + CashOf(z) - RefundsOf(z) + moved[z] = drawer[z]
    BY DEF IInv, Balanced
  <2>4. CASE z = s
    BY <1>1, <2>1, <2>2, <2>3, <2>4
  <2>5. CASE z # s
    BY <1>1, <2>1, <2>2, <2>3, <2>5
  <2> QED BY <2>4, <2>5
<1> QED BY <1>4, <1>5, <1>6, <1>7 DEF Kept, IInv, RowsOk

LEMMA OpenCreateKeeps ==
  ASSUME IInv, NEW o \in Openers, NEW s \in Shifts, NEW opening \in Nat,
         OpenCreate(o, s, opening)
  PROVE  Kept
<1> DEFINE row == [shift[s] EXCEPT !.status = "OPEN", !.opening = opening]
<1>1. /\ shift \in [Shifts -> ShiftRow] /\ shift[s] \in ShiftRow
      /\ drawer \in [Shifts -> Int] /\ ShiftOk(s)
  BY DEF IInv, RowsOk, RowTypes
<1>2. /\ row \in ShiftRow /\ row.status = "OPEN" /\ row.opening = opening
      /\ row.closedBy = shift[s].closedBy
  BY <1>1 DEF ShiftRow
<1>3. /\ shift[s].status = "NONE" /\ shift[s].opening = 0 /\ drawer[s] = 0
      /\ shift' = [shift EXCEPT ![s] = row] /\ drawer' = [drawer EXCEPT ![s] = opening]
      /\ UNCHANGED <<sale, refund, moved, today>>
      /\ UNCHANGED <<mover, corrector, closer, sweep>>
      /\ opener' = [opener EXCEPT ![o] = Gone]
  BY <1>1 DEF OpenCreate, trade, cash, clock, ShiftOk
<1> HIDE DEF row
<1>4. /\ shift'[s] = row /\ \A z \in Shifts \ {s} : shift'[z] = shift[z]
      /\ drawer' \in [Shifts -> Int] /\ drawer'[s] = opening
      /\ \A z \in Shifts \ {s} : drawer'[z] = drawer[z]
  BY <1>1, <1>3
<1>5. GoesOn
  BY <1>2, <1>3, <1>4 DEF GoesOn, Final, IsClosed
<1>6. ShiftOk(s)'
  BY <1>1, <1>2, <1>3, <1>4 DEF ShiftOk, IsClosed, Final
<1>7. RequestsOk'
  <2>1. opener' \in [Openers -> Request]
    BY <1>3, IdleRequests DEF IInv, RequestsOk, RequestTypes
  <2> QED BY <1>3, <1>5, <2>1, MoverStays, CorrectorStays, CloserStays, SweepStays
          DEF RequestsOk, RequestTypes, IInv
<1>8. drawer'[s] - row.opening = drawer[s] - shift[s].opening
  BY <1>2, <1>3, <1>4
<1> QED BY <1>2, <1>3, <1>4, <1>5, <1>6, <1>7, <1>8, ShiftKeeps

LEMMA CorrectFloatUpdateKeeps ==
  ASSUME IInv, NEW k \in Correctors, NEW opening \in Nat, CorrectFloatUpdate(k, opening)
  PROVE  Kept
<1>0. Exists(corrector[k].shift) /\ corrector[k].shift \in Shifts
  BY DEF CorrectFloatUpdate, trade, cash, clock, IInv, RequestsOk, CorrectorOk, Exists
<1> SUFFICES ASSUME NEW s \in Shifts, s = corrector[k].shift PROVE Kept
  BY <1>0
<1> DEFINE row == [shift[s] EXCEPT !.opening = opening]
<1>1. Exists(s) /\ s \in Shifts
  BY <1>0
<1>2. /\ shift \in [Shifts -> ShiftRow] /\ shift[s] \in ShiftRow
      /\ drawer \in [Shifts -> Int] /\ ShiftOk(s)
  BY <1>1 DEF IInv, RowsOk, RowTypes
<1>3. /\ row \in ShiftRow /\ row.status = shift[s].status /\ row.opening = opening
      /\ row.closedBy = shift[s].closedBy /\ shift[s].opening \in Nat
  BY <1>2 DEF ShiftRow
<1>4. /\ shift' = [shift EXCEPT ![s] = row]
      /\ drawer' = [drawer EXCEPT ![s] = @ - (shift[s].opening - opening)]
      /\ UNCHANGED <<sale, refund, moved, today>>
      /\ UNCHANGED <<opener, mover, closer, sweep>>
      /\ corrector' = [corrector EXCEPT ![k] = Gone]
  BY DEF CorrectFloatUpdate, trade, cash, clock, HandBack
<1> HIDE DEF row
<1>5. /\ shift'[s] = row /\ \A z \in Shifts \ {s} : shift'[z] = shift[z]
      /\ drawer'[s] = drawer[s] - (shift[s].opening - opening)
      /\ \A z \in Shifts \ {s} : drawer'[z] = drawer[z]
  BY <1>1, <1>2, <1>4
<1>6. drawer' \in [Shifts -> Int]
  <2>1. drawer[s] - (shift[s].opening - opening) \in Int
    BY <1>1, <1>2, <1>3
  <2> QED BY <1>2, <1>4, <2>1
<1>7. GoesOn
  BY <1>1, <1>3, <1>4, <1>5 DEF GoesOn, Final, IsClosed
<1>8. ShiftOk(s)'
  BY <1>1, <1>2, <1>3, <1>4, <1>5
     DEF ShiftOk, Exists
<1>9. /\ corrector' \in [Correctors -> Request] /\ corrector'[k] = Gone
      /\ \A j \in Correctors \ {k} : corrector'[j] = corrector[j]
  BY <1>4, IdleRequests DEF IInv, RequestsOk, RequestTypes
<1>10. RequestsOk'
  <2>1. CorrectorOk(corrector[k])'
    BY <1>9, IdleRequests DEF CorrectorOk
  <2> QED BY <1>4, <1>7, <1>9, <2>1, MoverStays, CorrectorStays, CloserStays, SweepStays
          DEF RequestsOk, RequestTypes, IInv
<1>11. drawer'[s] - row.opening = drawer[s] - shift[s].opening
  <2>1. drawer[s] \in Int
    BY <1>1, <1>2
  <2> QED BY <1>3, <1>5, <2>1
<1> QED BY <1>1, <1>3, <1>4, <1>5, <1>6, <1>7, <1>8, <1>10, <1>11, ShiftKeeps

\* A statement that touches neither money nor float, and no other shift.
LEMMA ClosingKeeps ==
  ASSUME IInv, NEW s \in Shifts, NEW row \in ShiftRow, shift[s].status # "NONE",
         shift' = [shift EXCEPT ![s] = row], UNCHANGED <<sale, refund, moved, today, drawer>>,
         row.opening = shift[s].opening, row.status # "NONE",
         IsClosed(s) => row.status = "CLOSED",
         UNCHANGED <<opener, mover, corrector>>,
         GoesOn => ShiftOk(s)' /\ RequestsOk'
  PROVE  Kept
<1>1. RowTypes /\ shift'[s] = row /\ \A z \in Shifts \ {s} : shift'[z] = shift[z]
  BY DEF IInv, RowsOk, RowTypes
<1>2. GoesOn
  BY <1>1 DEF GoesOn, Final, IsClosed
<1>3. drawer' \in [Shifts -> Int] /\ \A z \in Shifts : drawer'[z] = drawer[z]
  BY <1>1 DEF RowTypes
<1>4. drawer'[s] - row.opening = drawer[s] - shift[s].opening
  BY <1>3
<1> QED BY <1>2, <1>3, <1>4, ShiftKeeps

LEMMA CloseUpdateKeeps ==
  ASSUME IInv, NEW c \in Closers, CloseUpdate(c)
  PROVE  Kept
<1>0. closer[c].shift \in Shifts
  BY DEF CloseUpdate, trade, cash, clock, IInv, RequestsOk, CloseOk, Exists
<1> SUFFICES ASSUME NEW s \in Shifts, s = closer[c].shift PROVE Kept
  BY <1>0
<1> DEFINE r == closer[c]
           row == ClosedRow(shift[s], c, r.day)
           next == [r EXCEPT !.at = "audit"]
<1>1. r \in Request /\ CloseOk(r) /\ r.at = "update" /\ s \in Shifts /\ Exists(s)
  BY DEF CloseUpdate, trade, cash, clock, IInv, RequestsOk, RequestTypes, CloseOk, Exists
<1>2. shift \in [Shifts -> ShiftRow] /\ shift[s] \in ShiftRow
  BY <1>1 DEF IInv, RowsOk, RowTypes
<1>3. /\ row \in ShiftRow /\ row.status = "CLOSED" /\ row.opening = shift[s].opening
      /\ row.closedBy = c
  BY <1>1, <1>2 DEF ShiftRow, Request, ClosedRow
<1>4. /\ shift' = [shift EXCEPT ![s] = row]
      /\ UNCHANGED <<sale, refund, moved, today, drawer>>
      /\ UNCHANGED <<opener, mover, corrector, sweep>>
      /\ closer' = [closer EXCEPT ![c] = next]
  BY DEF CloseUpdate, trade, cash, clock
<1>5. /\ next \in Request /\ next.at = "audit" /\ next.shift = s /\ next.seen = r.seen
      /\ next.ack = r.ack
  BY <1>1 DEF Request
<1> HIDE DEF row, next
<1>6. shift'[s] = row
  BY <1>1, <1>2, <1>4
<1>7. /\ closer' \in [Closers -> Request] /\ closer'[c] = next
      /\ \A d \in Closers \ {c} : closer'[d] = closer[d]
  BY <1>4, <1>5 DEF IInv, RequestsOk, RequestTypes
<1>8. ShiftOk(s)'
  BY <1>3, <1>6, NoneIsNobody DEF ShiftOk
<1>9. ASSUME GoesOn PROVE RequestsOk'
  <2>1. CloseOk(closer[c])'
    BY <1>1, <1>3, <1>4, <1>5, <1>6, <1>7
       DEF CloseOk, IsClosed, Exists, Final, StockShortagesForShift, SalesOf
  <2> QED BY <1>4, <1>7, <1>9, <2>1, MoverStays, CorrectorStays, CloserStays, SweepStays
          DEF RequestsOk, RequestTypes, IInv
<1> QED BY <1>1, <1>3, <1>4, <1>8, <1>9, ClosingKeeps DEF Exists

LEMMA CloseEndKeeps ==
  ASSUME IInv, NEW c \in Closers, CloseAudit(c) \/ CloseFails(c)
  PROVE  Kept
<1>1. /\ UNCHANGED Rows /\ UNCHANGED <<opener, mover, corrector, sweep>>
      /\ closer' = [closer EXCEPT ![c] = Gone]
  BY DEF CloseAudit, CloseFails, Rows, trade, cash, clock
<1>2. Gone \in Request /\ CloseOk(Gone)
  BY IdleRequests DEF CloseOk
<1> QED BY <1>1, <1>2, CloserKeeps

LEMMA MidnightKeeps ==
  ASSUME IInv, NEW s \in Shifts, Midnight(s)
  PROVE  Kept
<1> DEFINE row == [shift[s] EXCEPT !.expiredOn = today]
<1>0. today \in Int
  BY BoundDomain DEF IInv, RowsOk, RowTypes, Days
<1>1. shift \in [Shifts -> ShiftRow] /\ shift[s] \in ShiftRow /\ ShiftOk(s)
  BY DEF IInv, RowsOk, RowTypes
<1>2. /\ row \in ShiftRow /\ row.status = shift[s].status /\ row.opening = shift[s].opening
      /\ row.closedBy = shift[s].closedBy
  BY <1>0, <1>1 DEF ShiftRow
<1>3. /\ shift' = [shift EXCEPT ![s] = row] /\ shift[s].status = "OPEN"
      /\ UNCHANGED <<sale, refund, moved, drawer, today>> /\ UNCHANGED requests
  BY <1>1 DEF Midnight, IsOpen, cash, trade, clock
<1> HIDE DEF row
<1>4. shift'[s] = row
  BY <1>1, <1>3
<1>5. ShiftOk(s)'
  BY <1>1, <1>2, <1>3, <1>4 DEF ShiftOk
<1>6. GoesOn => RequestsOk'
  BY <1>3, RequestsStay
<1>7. UNCHANGED <<opener, mover, corrector>>
  BY <1>3 DEF requests
<1> QED BY <1>2, <1>3, <1>5, <1>6, <1>7, ClosingKeeps DEF IsClosed

LEMMA SweepUpdateKeeps ==
  ASSUME IInv, NEW w \in Sweeps, SweepUpdate(w)
  PROVE  Kept
<1>0. sweep[w].shift \in Shifts
  BY DEF SweepUpdate, IInv, RequestsOk, SweepOk, CloseOk, Exists
<1> SUFFICES ASSUME NEW s \in Shifts, s = sweep[w].shift PROVE Kept
  BY <1>0
<1> DEFINE r == sweep[w]
           row == ClosedRow(shift[s], w, r.day)
           next == [r EXCEPT !.at = "audit"]
<1>1. r \in Request /\ SweepOk(r) /\ r.at = "update" /\ s \in Shifts /\ Exists(s)
  BY DEF SweepUpdate, IInv, RequestsOk, RequestTypes, SweepOk, CloseOk, Exists
<1>2. shift \in [Shifts -> ShiftRow] /\ shift[s] \in ShiftRow
  BY <1>1 DEF IInv, RowsOk, RowTypes
<1>3. /\ row \in ShiftRow /\ row.status = "CLOSED" /\ row.opening = shift[s].opening
      /\ row.closedBy = w
  BY <1>1, <1>2 DEF ShiftRow, Request, ClosedRow
<1>4. /\ UNCHANGED <<sale, refund, moved, today, drawer>>
      /\ UNCHANGED <<opener, mover, corrector, closer>>
      /\ IsOpen(s) => /\ shift' = [shift EXCEPT ![s] = row]
                      /\ sweep' = [sweep EXCEPT ![w] = next]
      /\ ~IsOpen(s) => UNCHANGED shift /\ sweep' = [sweep EXCEPT ![w] = Idle]
  BY DEF SweepUpdate, SweepCloses, cash, trade, clock
<1>5. /\ next \in Request /\ next.at = "audit" /\ next.shift = s /\ next.seen = r.seen
      /\ next.ack = r.ack
  BY <1>1 DEF Request
<1> HIDE DEF row, next
<1>6. CASE ~IsOpen(s)
  <2>1. SweepOk(Idle)
    BY IdleRequests DEF SweepOk, CloseOk
  <2> QED BY <1>4, <1>6, <2>1, IdleRequests, SweepKeeps DEF Rows
<1>7. CASE IsOpen(s)
  <2>1. shift'[s] = row
    BY <1>1, <1>2, <1>4, <1>7
  <2>2. /\ sweep' \in [Sweeps -> Request] /\ sweep'[w] = next
        /\ \A v \in Sweeps \ {w} : sweep'[v] = sweep[v]
    BY <1>4, <1>5, <1>7 DEF IInv, RequestsOk, RequestTypes
  <2>3. ShiftOk(s)'
    BY <1>3, <2>1, NoneIsNobody DEF ShiftOk
  <2>4. ASSUME GoesOn PROVE RequestsOk'
    <3>1. SweepOk(sweep[w])'
      BY <1>1, <1>3, <1>4, <1>5, <2>1, <2>2
         DEF SweepOk, CloseOk, IsClosed, Exists, Final, StockShortagesForShift, SalesOf
    <3> QED BY <1>4, <2>2, <2>4, <3>1, MoverStays, CorrectorStays, CloserStays, SweepStays
            DEF RequestsOk, RequestTypes, IInv
  <2> QED BY <1>1, <1>3, <1>4, <1>7, <2>3, <2>4, ClosingKeeps DEF Exists
<1> QED BY <1>6, <1>7

LEMMA SweepEndKeeps ==
  ASSUME IInv, NEW w \in Sweeps, SweepAudit(w) \/ SweepFails(w)
  PROVE  Kept
<1>1. /\ UNCHANGED Rows /\ UNCHANGED <<opener, mover, corrector, closer>>
      /\ sweep' = [sweep EXCEPT ![w] = Idle]
  BY DEF SweepAudit, SweepFails, Rows, trade, cash, clock
<1>2. Idle \in Request /\ SweepOk(Idle)
  BY IdleRequests DEF CloseOk, SweepOk
<1> QED BY <1>1, <1>2, SweepKeeps

\* A new day.
LEMMA NextDayKeeps ==
  ASSUME IInv, NextDay
  PROVE  Kept
<1>1. /\ UNCHANGED <<shift, sale, refund, moved, drawer>> /\ UNCHANGED requests
      /\ today' \in Days
  BY BoundDomain DEF NextDay, trade, cash, Days, IInv, RowsOk, RowTypes
<1>2. GoesOn
  BY <1>1, Steady
<1>3. RowsOk'
  BY <1>1 DEF IInv, RowsOk, RowTypes, SaleOk, ShiftOk, Exists, Final
<1>4. Balanced'
  <2>1. \A s \in Shifts : CashOf(s)' = CashOf(s) /\ RefundsOf(s)' = RefundsOf(s)
    BY <1>1, CashSame DEF Taken, Given, SalesOf
  <2> QED BY <1>1, <2>1 DEF IInv, Balanced
<1> QED BY <1>1, <1>2, <1>3, <1>4, RequestsStay DEF Kept, IInv

LEMMA CrashKeeps ==
  ASSUME IInv, Crash
  PROVE  Kept
<1>1. RowTypes /\ RequestTypes
  BY DEF IInv, RowsOk, RequestsOk
<1>2. /\ sale' = [x \in Sales |-> IF sale[x].status = "BEGUN" THEN NoSale ELSE sale[x]]
      /\ refund' = [x \in Sales |-> IF refund[x].at = "begun"
                                    THEN [at |-> "none", shift |-> None] ELSE refund[x]]
      /\ UNCHANGED <<shift, moved, drawer, today>>
  BY DEF Crash, trade, cash, clock
<1>3. \A x \in Sales :
        /\ sale[x].status = "BEGUN" => sale'[x] = NoSale
        /\ sale[x].status # "BEGUN" => sale'[x] = sale[x]
        /\ refund[x].at = "begun" => refund'[x] = [at |-> "none", shift |-> None]
        /\ refund[x].at # "begun" => refund'[x] = refund[x]
  BY <1>2
<1>4. GoesOn
  BY <1>2, <1>3 DEF GoesOn, Final, IsClosed
<1>5. RowTypes'
  <2>1. sale' \in [Sales -> SaleRow]
    BY <1>1, <1>2, NoSaleRow DEF RowTypes
  <2>2. [at |-> "none", shift |-> None] \in RefundRow
    BY DEF RefundRow
  <2>3. refund' \in [Sales -> RefundRow]
    BY <1>1, <1>2, <2>2 DEF RowTypes
  <2> QED BY <1>1, <1>2, <2>1, <2>3 DEF RowTypes
<1>6. ASSUME NEW x \in Sales PROVE SaleOk(x)'
  <2>1. SaleOk(x) /\ refund[x] \in RefundRow
    BY <1>1 DEF IInv, RowsOk, RowTypes
  <2> QED BY <1>2, <1>3, <2>1, NoSaleRow DEF SaleOk, Exists, Final, RefundRow
<1>7. \A s \in Shifts : ShiftOk(s)'
  BY <1>2 DEF IInv, RowsOk, ShiftOk
<1>8. RequestsOk'
  <2>1. /\ opener' = [o \in Openers |-> IF opener[o] = Idle THEN Idle ELSE Gone]
        /\ mover' = [m \in Movers |-> IF mover[m] = Idle THEN Idle ELSE Gone]
        /\ corrector' = [k \in Correctors |-> IF corrector[k] = Idle THEN Idle ELSE Gone]
        /\ closer' = [c \in Closers |-> IF closer[c] = Idle THEN Idle ELSE Gone]
        /\ sweep' = [w \in Sweeps |-> Idle]
    BY DEF Crash, trade, cash, clock
  <2>2. RequestTypes'
    BY <2>1, IdleRequests DEF RequestTypes
  <2>3. /\ \A m \in Movers : mover'[m] \in {Idle, Gone}
        /\ \A k \in Correctors : corrector'[k] \in {Idle, Gone}
        /\ \A c \in Closers : closer'[c] \in {Idle, Gone}
        /\ \A w \in Sweeps : sweep'[w] = Idle
    BY <2>1
  <2>4. /\ \A m \in Movers : MoverOk(mover[m])'
        /\ \A k \in Correctors : CorrectorOk(corrector[k])'
    BY <2>3, IdleRequests DEF MoverOk, CorrectorOk
  <2>5. /\ \A c \in Closers : CloseOk(closer[c])'
        /\ \A w \in Sweeps : SweepOk(sweep[w])'
    BY <2>3, IdleRequests DEF CloseOk, SweepOk
  <2> QED BY <2>2, <2>4, <2>5 DEF RequestsOk
<1>9. Balanced'
  <2>1. ASSUME NEW s \in Shifts PROVE CashOf(s)' = CashOf(s) /\ RefundsOf(s)' = RefundsOf(s)
    <3>1. ASSUME NEW x \in Sales
          PROVE  Taken(x, s)' = Taken(x, s) /\ Given(x, s)' = Given(x, s)
      <4>1. refund[x].at = "done" => sale[x].status = "COMPLETED"
        BY DEF IInv, RowsOk, SaleOk
      <4>2. Taken(x, s)' = Taken(x, s)
        BY <1>3, NoSaleRow DEF Taken, SalesOf
      <4>3. Given(x, s)' = Given(x, s)
        BY <1>3, <4>1 DEF Given
      <4> QED BY <4>2, <4>3
    <3> QED BY <3>1, CashSame
  <2> QED BY <1>2, <2>1 DEF IInv, Balanced
<1> QED BY <1>4, <1>5, <1>6, <1>7, <1>8, <1>9 DEF Kept, IInv, RowsOk

LEMMA StutterKeeps ==
  ASSUME IInv, UNCHANGED vars
  PROVE  Kept
<1>1. UNCHANGED Rows /\ UNCHANGED requests
  BY DEF vars, Rows, trade, cash, clock
<1>2. GoesOn
  BY <1>1, Steady DEF Rows
<1> QED BY <1>1, <1>2, RequestsStay, ReadKeeps

LEMMA StepKeeps == IInv /\ [Next]_vars => Kept
<1> SUFFICES ASSUME IInv, [Next]_vars PROVE Kept
  OBVIOUS
<1>1. CASE Opening
  BY <1>1, FloatDomain, OpenCheckKeeps, OpenCreateKeeps DEF Opening
<1>2. CASE Selling
  <2>1. Amounts \subseteq Nat /\ Changes \subseteq Nat /\ RunShort \subseteq BOOLEAN
    BY AmountDomain, ShortDomain
  <2> QED BY <1>2, <2>1, CheckoutBeginKeeps, RefundBeginKeeps, CheckoutCommitKeeps,
             CheckoutAbortKeeps, VoidReceiptKeeps, RefundCommitKeeps, RefundAbortKeeps
          DEF Selling
<1>3. CASE Moving
  <2>1. Signed \subseteq Int /\ Floats \subseteq Nat
    <3>1. \A a \in Amounts : a \in Int /\ -a \in Int
      BY AmountDomain
    <3> QED BY <3>1, FloatDomain DEF Signed
  <2> QED BY <1>3, <2>1, MovementBeginKeeps, MovementCheckKeeps, MovementCreateKeeps,
             CorrectFloatBeginKeeps, CorrectFloatUpdateKeeps DEF Moving
<1>4. CASE Closing
  BY <1>4, CloseBeginKeeps, CloseCheckKeeps, CloseUpdateKeeps, CloseEndKeeps,
     SweepBeginKeeps, SweepCheckKeeps, SweepUpdateKeeps, SweepEndKeeps
     DEF Closing, CloseSteps, SweepSteps
<1> QED BY <1>1, <1>2, <1>3, <1>4, NextDayKeeps, MidnightKeeps, CrashKeeps, StutterKeeps
        DEF Next, Calendar

-----------------------------------------------------------------------------
(* Which step touches what.                                                *)

\* The rows of the shifts, what is remembered of them, and the log.
Books == <<shift, audit, reviewed>>

LEMMA SellingApart ==
  ASSUME Selling
  PROVE  UNCHANGED Books /\ UNCHANGED requests /\ UNCHANGED <<rushed, crowded>>
<1>1. ASSUME NEW x \in Sales, NEW s \in Shifts, CheckoutBegin(x, s) \/ RefundBegin(x, s)
      PROVE  UNCHANGED Books /\ UNCHANGED requests /\ UNCHANGED <<rushed, crowded>>
  BY <1>1 DEF CheckoutBegin, RefundBegin, Books, closes, cash
<1>2. ASSUME NEW x \in Sales, NEW a, NEW c, NEW short, CheckoutCommit(x, a, c, short)
      PROVE  UNCHANGED Books /\ UNCHANGED requests /\ UNCHANGED <<rushed, crowded>>
  BY <1>2 DEF CheckoutCommit, Books, closes
<1>3. ASSUME NEW x \in Sales,
             CheckoutAbort(x) \/ VoidReceipt(x) \/ RefundCommit(x) \/ RefundAbort(x)
      PROVE  UNCHANGED Books /\ UNCHANGED requests /\ UNCHANGED <<rushed, crowded>>
  BY <1>3 DEF CheckoutAbort, VoidReceipt, RefundCommit, RefundAbort, Books, closes, cash
<1> QED BY <1>1, <1>2, <1>3 DEF Selling

LEMMA CalendarApart ==
  ASSUME IInv, Calendar
  PROVE  /\ UNCHANGED <<audit, reviewed, trade, cash, requests, crowded>>
         /\ \A s \in Shifts : shift'[s].status = shift[s].status
                              /\ shift'[s].closedBy = shift[s].closedBy
<1>1. shift \in [Shifts -> ShiftRow]
  BY DEF IInv, RowsOk, RowTypes
<1>2. CASE NextDay
  BY <1>2 DEF NextDay, closes
<1>3. ASSUME NEW s \in Shifts, Midnight(s)
      PROVE  /\ UNCHANGED <<audit, reviewed, trade, cash, requests, crowded>>
             /\ \A z \in Shifts : shift'[z].status = shift[z].status
                                  /\ shift'[z].closedBy = shift[z].closedBy
  BY <1>1, <1>3 DEF Midnight, closes, ShiftRow
<1> QED BY <1>2, <1>3 DEF Calendar

LEMMA ClosingApart ==
  ASSUME Closing
  PROVE  UNCHANGED <<trade, cash, opener, mover, corrector, crowded>>
<1>1. ASSUME NEW c \in Closers, CloseSteps(c) \/ CloseFails(c)
      PROVE  UNCHANGED <<trade, cash, opener, mover, corrector, crowded>>
  BY <1>1 DEF CloseSteps, CloseCheck, CloseUpdate, CloseAudit, CloseFails
<1>2. ASSUME NEW c \in Closers, NEW s \in Shifts, NEW ack, CloseBegin(c, s, ack)
      PROVE  UNCHANGED <<trade, cash, opener, mover, corrector, crowded>>
  BY <1>2 DEF CloseBegin
<1>3. ASSUME NEW w \in Sweeps, SweepSteps(w) \/ SweepFails(w)
      PROVE  UNCHANGED <<trade, cash, opener, mover, corrector, crowded>>
  BY <1>3 DEF SweepSteps, SweepCheck, SweepUpdate, SweepAudit, SweepFails
<1>4. ASSUME NEW w \in Sweeps, NEW s \in Shifts, NEW day, SweepBegin(w, s, day)
      PROVE  UNCHANGED <<trade, cash, opener, mover, corrector, crowded>>
  BY <1>4 DEF SweepBegin
<1> QED BY <1>1, <1>2, <1>3, <1>4 DEF Closing

\* Only an opening opens a shift.
LEMMA NothingReopens ==
  ASSUME IInv, Selling \/ Moving \/ Closing \/ Calendar \/ Crash, NEW s \in Shifts, IsOpen(s)'
  PROVE  IsOpen(s)
<1>1. shift \in [Shifts -> ShiftRow]
      /\ \A c \in Closers : closer[c].at = "update" => closer[c].shift \in Shifts
      /\ \A w \in Sweeps : sweep[w].at = "update" => sweep[w].shift \in Shifts
      /\ \A k \in Correctors : corrector[k].at = "update" => corrector[k].shift \in Shifts
  BY DEF IInv, RowsOk, RowTypes, RequestsOk, CloseOk, SweepOk, CorrectorOk, Exists
<1>2. CASE shift' = shift
  BY <1>2 DEF IsOpen
<1>3. CASE Selling
  BY <1>2, <1>3, SellingApart DEF Books
<1>4. CASE Calendar
  BY <1>4, CalendarApart DEF IsOpen
<1>5. CASE Moving
  <2>1. ASSUME NEW k \in Correctors, NEW f \in Floats, CorrectFloatUpdate(k, f)
        PROVE  IsOpen(s)
    BY <1>1, <2>1 DEF CorrectFloatUpdate, IsOpen, ShiftRow
  <2> QED BY <1>2, <1>5, <2>1
          DEF Moving, MovementBegin, MovementCheck, MovementCreate, CorrectFloatBegin
<1>6. CASE Closing
  <2>1. ASSUME NEW c \in Closers, CloseUpdate(c) PROVE IsOpen(s)
    BY <1>1, <2>1 DEF CloseUpdate, ClosedRow, IsOpen, ShiftRow
  <2>2. ASSUME NEW w \in Sweeps, SweepUpdate(w) PROVE IsOpen(s)
    BY <1>1, <2>2 DEF SweepUpdate, SweepCloses, ClosedRow, IsOpen, ShiftRow
  <2>3. ASSUME NEW c \in Closers, CloseCheck(c) \/ CloseAudit(c) \/ CloseFails(c)
        PROVE  IsOpen(s)
    BY <1>2, <2>3 DEF CloseCheck, CloseAudit, CloseFails
  <2>4. ASSUME NEW w \in Sweeps, SweepCheck(w) \/ SweepAudit(w) \/ SweepFails(w)
        PROVE  IsOpen(s)
    BY <1>2, <2>4 DEF SweepCheck, SweepAudit, SweepFails
  <2> QED BY <1>2, <1>6, <2>1, <2>2, <2>3, <2>4
          DEF Closing, CloseSteps, SweepSteps, CloseBegin, SweepBegin
<1> QED BY <1>2, <1>3, <1>4, <1>5, <1>6 DEF Crash

-----------------------------------------------------------------------------
(* One open shift.                                                         *)

Creating(o) == opener[o].at = "create"

\* As long as no two openings are about to create, whoever is about to has
\* found no shift open, and nothing has opened one since.
OneOpening ==
  ~crowded =>
    /\ \A s, t \in Shifts : IsOpen(s) /\ IsOpen(t) => s = t
    /\ \A o \in Openers, s \in Shifts : Creating(o) => ~IsOpen(s)
    /\ \A o, p \in Openers : Creating(o) /\ Creating(p) => o = p

LEMMA OpeningStep ==
  IInv /\ OneOpening /\ [Next]_vars => OneOpening'
<1> SUFFICES ASSUME IInv, OneOpening, [Next]_vars PROVE OneOpening'
  OBVIOUS
<1>1. /\ opener \in [Openers -> Request] /\ shift \in [Shifts -> ShiftRow]
      /\ Gone.at = "done"
  BY IdleRequests DEF IInv, RowsOk, RequestsOk, RequestTypes, RowTypes
<1>2. ASSUME UNCHANGED crowded, \A s \in Shifts : IsOpen(s)' => IsOpen(s),
             \A o \in Openers : Creating(o)' => Creating(o)
      PROVE  OneOpening'
  BY <1>2 DEF OneOpening
<1>3. ASSUME NEW o \in Openers, OpenCheck(o) PROVE OneOpening'
  <2>1. /\ \A s \in Shifts : ~IsOpen(s)'
        /\ \A p \in Openers : p # o => opener'[p] = opener[p]
        /\ crowded' = (crowded \/ \E p \in Openers : Creating(p))
    BY <1>1, <1>3 DEF OpenCheck, IsOpen, Creating
  <2> QED BY <2>1 DEF OneOpening, Creating
<1>4. ASSUME NEW o \in Openers, NEW s \in Shifts, NEW f \in Floats, OpenCreate(o, s, f)
      PROVE  OneOpening'
  <2>1. /\ opener'[o] = Gone /\ \A p \in Openers : p # o => opener'[p] = opener[p]
        /\ UNCHANGED crowded /\ Creating(o)
        /\ \A t \in Shifts : t # s => shift'[t] = shift[t]
    BY <1>1, <1>4 DEF OpenCreate, Creating
  <2>2. \A p \in Openers : Creating(p)' => Creating(p) /\ p # o
    BY <1>1, <2>1 DEF Creating
  <2>3. ~crowded => /\ \A t \in Shifts : IsOpen(t)' => t = s
                    /\ \A p \in Openers : ~Creating(p)'
    BY <2>1, <2>2 DEF OneOpening, IsOpen
  <2> QED BY <2>1, <2>3 DEF OneOpening
<1>5. CASE Selling \/ Moving \/ Closing \/ Calendar
  <2>1. UNCHANGED <<opener, crowded>>
    <3>1. CASE Moving
      BY <3>1 DEF Moving, MovementBegin, MovementCheck, MovementCreate, CorrectFloatBegin,
                  CorrectFloatUpdate
    <3> QED BY <1>5, <3>1, SellingApart, CalendarApart, ClosingApart DEF requests
  <2> QED BY <1>2, <1>5, <2>1, NothingReopens DEF Creating
<1>6. CASE Crash
  <2>1. \A o \in Openers : opener'[o] \in {Idle, Gone}
    BY <1>6 DEF Crash
  <2> QED BY <1>2, <1>6, <2>1, IdleRequests, NothingReopens DEF Creating, Crash
<1>7. CASE UNCHANGED vars
  BY <1>2, <1>7 DEF vars, requests, Creating, IsOpen
<1> QED BY <1>3, <1>4, <1>5, <1>6, <1>7 DEF Next, Opening

-----------------------------------------------------------------------------
(* Cash that is taken out.                                                 *)

Left(s) == drawer[s] + back[s]

\* Each CASH_OUT that has been checked and is not recorded yet is covered by
\* what has come into the drawer, as long as it is the only one.
CashCovered ==
  /\ back \in [Shifts -> Int] /\ \A s \in Shifts : back[s] >= 0
  /\ \A s \in Shifts \ rushed :
       Left(s) >= 0 /\ \A m \in CashOutsDue(s) : Left(s) + mover[m].amount >= 0

LEMMA ChangeIsNatural ==
  ASSUME RowTypes, NEW s
  PROVE  ChangeOf(s) \in Int /\ ChangeOf(s) >= 0
<1> DEFINE f == [x \in Sales |-> IF x \in SalesOf(s) THEN sale[x].change ELSE 0]
<1>1. \A x \in Sales : sale[x].change \in Nat
  BY DEF RowTypes, SaleRow
<1>2. f \in [1 .. MaxSales -> Nat]
  BY <1>1 DEF Sales
<1>3. ChangeOf(s) = SumOf(f, MaxSales)
  BY DEF ChangeOf
<1> HIDE DEF f
<1> QED BY <1>2, <1>3, SumBounds, SalesBound

\* Cash only comes in, or goes out on the account of what is handed back.
LEMMA CashComesIn ==
  ASSUME IInv, CashCovered, UNCHANGED rushed, back' \in [Shifts -> Int],
         \A s \in Shifts : back'[s] >= 0 /\ Left(s)' >= Left(s),
         \A s \in Shifts : CashOutsDue(s)' \subseteq CashOutsDue(s),
         \A s \in Shifts : \A m \in CashOutsDue(s)' : mover'[m] = mover[m],
         drawer' \in [Shifts -> Int]
  PROVE  CashCovered'
<1>1. ASSUME NEW s \in Shifts \ rushed
      PROVE  Left(s)' >= 0 /\ \A m \in CashOutsDue(s)' : Left(s)' + mover'[m].amount >= 0
  <2>1. Left(s) \in Int /\ Left(s)' \in Int
    BY DEF IInv, RowsOk, RowTypes, CashCovered, Left
  <2>2. \A m \in CashOutsDue(s) : mover[m].amount \in Int
    BY DEF IInv, RequestsOk, RequestTypes, Request, CashOutsDue
  <2> QED BY <2>1, <2>2 DEF CashCovered
<1> QED BY <1>1 DEF CashCovered

LEMMA HandsBack ==
  ASSUME IInv, CashCovered, NEW s \in Shifts, NEW amount \in Int, HandBack(s, amount)
  PROVE  /\ back' \in [Shifts -> Int] /\ drawer' \in [Shifts -> Int]
         /\ \A z \in Shifts : back'[z] >= 0 /\ Left(z)' >= Left(z)
<1>1. drawer \in [Shifts -> Int] /\ back \in [Shifts -> Int]
      /\ \A z \in Shifts : back[z] >= 0
  BY DEF IInv, RowsOk, RowTypes, CashCovered
<1>2. drawer' = [drawer EXCEPT ![s] = @ - amount]
  BY DEF HandBack
<1>3. \/ amount > 0 /\ back' = [back EXCEPT ![s] = @ + amount]
      \/ ~(amount > 0) /\ back' = [back EXCEPT ![s] = back[s]]
  BY DEF HandBack
<1>4. drawer[s] - amount \in Int /\ back[s] + amount \in Int
  BY <1>1
<1>5. drawer' \in [Shifts -> Int] /\ drawer'[s] = drawer[s] - amount
      /\ \A z \in Shifts \ {s} : drawer'[z] = drawer[z]
  BY <1>1, <1>2, <1>4
<1>6. back' \in [Shifts -> Int] /\ \A z \in Shifts \ {s} : back'[z] = back[z]
  BY <1>1, <1>3, <1>4
<1>7. \/ amount > 0 /\ back'[s] = back[s] + amount
      \/ ~(amount > 0) /\ back'[s] = back[s]
  BY <1>1, <1>3
<1>8. back'[s] >= 0 /\ Left(s)' >= Left(s)
  BY <1>1, <1>5, <1>7 DEF Left
<1>9. \A z \in Shifts \ {s} : back'[z] >= 0 /\ Left(z)' >= Left(z)
  BY <1>1, <1>5, <1>6 DEF Left
<1> QED BY <1>5, <1>6, <1>8, <1>9

LEMMA MovementChecked ==
  ASSUME IInv, CashCovered, NEW m \in Movers, MovementCheck(m)
  PROVE  CashCovered'
<1>1. mover[m] \in Request /\ MoverOk(mover[m]) /\ mover \in [Movers -> Request]
  BY DEF IInv, RequestsOk, RequestTypes
<1> SUFFICES ASSUME NEW s \in Shifts, s = mover[m].shift PROVE CashCovered'
  BY <1>1 DEF MovementCheck, MoverOk, Exists
<1>2. /\ UNCHANGED <<drawer, back, rushed>> /\ -mover[m].amount <= ExpectedCash(s)
      /\ mover' = [mover EXCEPT ![m].at = "create"]
  BY DEF MovementCheck, cash
<1>3. /\ mover'[m].amount = mover[m].amount /\ mover'[m].shift = s
      /\ \A n \in Movers \ {m} : mover'[n] = mover[n]
  BY <1>1, <1>2 DEF Request
<1>4. ExpectedCash(s) <= drawer[s]
  <2>1. shift[s].opening + CashOf(s) - RefundsOf(s) + moved[s] = drawer[s]
    BY DEF IInv, Balanced
  <2>2. /\ CashOf(s) \in Int /\ RefundsOf(s) \in Int
        /\ shift[s].opening \in Int /\ moved[s] \in Int /\ drawer[s] \in Int
    BY CashTypes DEF IInv, RowsOk, RowTypes, ShiftRow
  <2>3. ChangeOf(s) \in Int /\ ChangeOf(s) >= 0
    BY ChangeIsNatural DEF IInv, RowsOk
  <2>4. ExpectedCash(s) = drawer[s] - ChangeOf(s)
    BY <2>1, <2>2, <2>3 DEF ExpectedCash
  <2> QED BY <2>2, <2>3, <2>4
<1>5. Left(s) + mover[m].amount >= 0
  <2>1. drawer[s] \in Int /\ back[s] \in Int /\ back[s] >= 0 /\ mover[m].amount \in Int
    BY <1>1 DEF IInv, RowsOk, RowTypes, CashCovered, Request
  <2>2. ExpectedCash(s) \in Int
    <3>1. /\ CashOf(s) \in Int /\ RefundsOf(s) \in Int /\ ChangeOf(s) \in Int
          /\ shift[s].opening \in Int /\ moved[s] \in Int
      BY CashTypes DEF IInv, RowsOk, RowTypes, ShiftRow
    <3> QED BY <3>1 DEF ExpectedCash
  <2> QED BY <1>2, <1>4, <2>1, <2>2 DEF Left
<1>6. ASSUME NEW z \in Shifts \ rushed
      PROVE  Left(z)' >= 0 /\ \A n \in CashOutsDue(z)' : Left(z)' + mover'[n].amount >= 0
  <2>1. Left(z)' = Left(z) /\ Left(z) >= 0
        /\ \A n \in CashOutsDue(z) : Left(z) + mover[n].amount >= 0
    BY <1>2 DEF CashCovered, Left
  <2>2. \A n \in CashOutsDue(z)' : n \in CashOutsDue(z) \/ (n = m /\ z = s)
    BY <1>3 DEF CashOutsDue
  <2>3. \A n \in CashOutsDue(z)' : mover'[n].amount = mover[n].amount
    BY <1>3 DEF CashOutsDue
  <2> QED BY <1>5, <2>1, <2>2, <2>3
<1> QED BY <1>2, <1>6 DEF CashCovered

LEMMA MovementRecorded ==
  ASSUME IInv, CashCovered, NEW m \in Movers, MovementCreate(m)
  PROVE  CashCovered'
<1>1. mover[m] \in Request /\ MoverOk(mover[m]) /\ mover \in [Movers -> Request]
  BY DEF IInv, RequestsOk, RequestTypes
<1> SUFFICES ASSUME NEW s \in Shifts, s = mover[m].shift,
                    NEW a \in Int, a = mover[m].amount PROVE CashCovered'
  BY <1>1 DEF MovementCreate, MoverOk, Exists, Request
<1>2. /\ mover[m].at = "create" /\ UNCHANGED back
      /\ drawer' = [drawer EXCEPT ![s] = @ + a] /\ mover' = [mover EXCEPT ![m] = Gone]
      /\ rushed' = IF m \in CashOutsDue(s) /\ CashOutsDue(s) # {m} THEN rushed \cup {s}
                                                                   ELSE rushed
  BY DEF MovementCreate
<1>3. drawer \in [Shifts -> Int] /\ back \in [Shifts -> Int] /\ \A z \in Shifts : back[z] >= 0
  BY DEF IInv, RowsOk, RowTypes, CashCovered
<1>4. drawer'[s] = drawer[s] + a /\ \A z \in Shifts \ {s} : drawer'[z] = drawer[z]
  BY <1>2, <1>3
<1>5. /\ mover'[m] = Gone /\ Gone.at = "done"
      /\ \A n \in Movers \ {m} : mover'[n] = mover[n]
  BY <1>1, <1>2, IdleRequests
<1>6. \A z \in Shifts : /\ CashOutsDue(z)' \subseteq CashOutsDue(z) \ {m}
                        /\ \A n \in CashOutsDue(z)' : mover'[n] = mover[n]
  BY <1>5 DEF CashOutsDue
<1>7. \A z \in Shifts : \A n \in CashOutsDue(z) : mover[n].amount \in Int
  BY <1>1 DEF CashOutsDue, Request
<1>8. ASSUME NEW z \in Shifts \ rushed'
      PROVE  Left(z)' >= 0 /\ \A n \in CashOutsDue(z)' : Left(z)' + mover'[n].amount >= 0
  <2>0. z \notin rushed
    BY <1>2
  <2>1. Left(z) >= 0 /\ \A n \in CashOutsDue(z) : Left(z) + mover[n].amount >= 0
    BY <2>0 DEF CashCovered
  <2>2. Left(z) \in Int
    BY <1>3 DEF Left
  <2>3. CASE z # s
    <3>1. Left(z)' = Left(z)
      BY <1>2, <1>4, <2>3 DEF Left
    <3> QED BY <1>6, <2>1, <3>1
  <2>4. CASE z = s /\ a < 0
    <3>1. m \in CashOutsDue(s)
      BY <1>2, <2>4 DEF CashOutsDue
    <3>2. CashOutsDue(s) = {m}
      BY <1>2, <2>4, <3>1
    <3>3. CashOutsDue(z)' = {}
      BY <1>6, <2>4, <3>2
    <3>4. Left(z)' = Left(z) + a
      BY <1>2, <1>3, <1>4, <2>4 DEF Left
    <3> QED BY <2>1, <2>4, <3>1, <3>3, <3>4
  <2>5. CASE z = s /\ ~(a < 0)
    <3>1. Left(z)' = Left(z) + a
      BY <1>2, <1>3, <1>4, <2>5 DEF Left
    <3>2. Left(z)' >= Left(z) /\ Left(z)' \in Int
      BY <2>2, <2>5, <3>1
    <3> QED BY <1>6, <1>7, <2>1, <2>2, <3>2
  <2> QED BY <2>3, <2>4, <2>5
<1> QED BY <1>2, <1>3, <1>8 DEF CashCovered

LEMMA CashStep ==
  IInv /\ CashCovered /\ [Next]_vars => CashCovered'
<1> SUFFICES ASSUME IInv, CashCovered, [Next]_vars PROVE CashCovered'
  OBVIOUS
<1>0. /\ drawer \in [Shifts -> Int] /\ back \in [Shifts -> Int]
      /\ \A s \in Shifts : back[s] >= 0 /\ Left(s) \in Int
  BY DEF IInv, RowsOk, RowTypes, CashCovered, Left
<1>1. ASSUME UNCHANGED <<drawer, back, rushed>>,
             \A n \in Movers : mover'[n] = mover[n] \/ ~(mover'[n].at = "create" /\ mover'[n].amount < 0)
      PROVE  CashCovered'
  <2>1. \A s \in Shifts : /\ CashOutsDue(s)' \subseteq CashOutsDue(s)
                          /\ \A n \in CashOutsDue(s)' : mover'[n] = mover[n]
    BY <1>1 DEF CashOutsDue
  <2> QED BY <1>0, <1>1, <2>1, CashComesIn DEF Left
<1>2. CASE Opening
  <2>1. ASSUME NEW o \in Openers, OpenCheck(o) PROVE CashCovered'
    BY <1>1, <2>1 DEF OpenCheck, cash
  <2>2. ASSUME NEW o \in Openers, NEW s \in Shifts, NEW f \in Floats, OpenCreate(o, s, f)
        PROVE  CashCovered'
    <3>1. /\ f \in Int /\ f >= 0 /\ drawer[s] = 0 /\ drawer' = [drawer EXCEPT ![s] = f]
          /\ UNCHANGED <<back, rushed, mover>>
      BY <2>2, FloatDomain DEF OpenCreate, IInv, RowsOk, ShiftOk
    <3>2. drawer' \in [Shifts -> Int] /\ \A z \in Shifts : Left(z)' >= Left(z)
      BY <1>0, <3>1 DEF Left
    <3> QED BY <1>0, <3>1, <3>2, CashComesIn DEF CashOutsDue
  <2> QED BY <1>2, <2>1, <2>2 DEF Opening
<1>3. CASE Selling
  <2>0. UNCHANGED <<mover, rushed>>
    BY <1>3, SellingApart DEF requests
  <2>1. ASSUME NEW s \in Shifts, NEW a \in Nat, HandBack(s, a) PROVE CashCovered'
    BY <2>0, <2>1, HandsBack, CashComesIn DEF CashOutsDue
  <2>2. ASSUME NEW x \in Sales, VoidReceipt(x) PROVE CashCovered'
    <3>1. sale[x].shift \in Shifts /\ sale[x].amount \in Nat
      BY <2>2 DEF VoidReceipt, IInv, RowsOk, RowTypes, SaleRow, SaleOk, Exists
    <3> QED BY <2>1, <2>2, <3>1 DEF VoidReceipt
  <2>3. ASSUME NEW x \in Sales, RefundCommit(x) PROVE CashCovered'
    <3>1. refund[x].shift \in Shifts /\ sale[x].amount \in Nat
      BY <2>3 DEF RefundCommit, IInv, RowsOk, RowTypes, SaleRow, SaleOk, Exists
    <3> QED BY <2>1, <2>3, <3>1 DEF RefundCommit
  <2>4. ASSUME NEW x \in Sales, NEW a \in Amounts, NEW c, NEW short,
               CheckoutCommit(x, a, c, short)
        PROVE  CashCovered'
    <3>0. sale[x].shift \in Shifts
      BY <2>4 DEF CheckoutCommit, IInv, RowsOk, SaleOk, Exists
    <3> SUFFICES ASSUME NEW s \in Shifts, s = sale[x].shift PROVE CashCovered'
      BY <3>0
    <3>1. /\ a \in Int /\ a >= 0 /\ drawer' = [drawer EXCEPT ![s] = @ + a]
          /\ UNCHANGED back
      BY <2>4, AmountDomain DEF CheckoutCommit
    <3>2. /\ drawer' \in [Shifts -> Int] /\ drawer'[s] = drawer[s] + a
          /\ \A z \in Shifts \ {s} : drawer'[z] = drawer[z]
      BY <1>0, <3>1
    <3>3. \A z \in Shifts : Left(z)' >= Left(z)
      BY <1>0, <3>1, <3>2 DEF Left
    <3> QED BY <1>0, <2>0, <3>1, <3>2, <3>3, CashComesIn DEF CashOutsDue
  <2>5. CASE UNCHANGED <<drawer, back>>
    BY <1>1, <2>0, <2>5
  <2> QED BY <1>3, <2>2, <2>3, <2>4, <2>5
          DEF Selling, CheckoutBegin, CheckoutAbort, RefundBegin, RefundAbort, cash
<1>4. CASE Moving
  <2>1. ASSUME NEW m \in Movers, NEW s \in Shifts, NEW a \in Signed, MovementBegin(m, s, a)
        PROVE  CashCovered'
    <3>1. a \in Int
      BY AmountDomain DEF Signed
    <3>2. Idle \in Request /\ mover \in [Movers -> Request]
      BY IdleRequests DEF IInv, RequestsOk, RequestTypes
    <3>3. /\ UNCHANGED <<drawer, back, rushed>>
          /\ mover' = [mover EXCEPT ![m] = [Idle EXCEPT !.shift = s, !.amount = a,
                         !.at = IF a < 0 THEN "check" ELSE "create"]]
      BY <2>1 DEF MovementBegin, cash
    <3>4. /\ mover'[m].at = (IF a < 0 THEN "check" ELSE "create") /\ mover'[m].amount = a
          /\ \A n \in Movers \ {m} : mover'[n] = mover[n]
      BY <3>2, <3>3 DEF Request
    <3> QED BY <1>1, <3>1, <3>3, <3>4
  <2>2. ASSUME NEW k \in Correctors, NEW s \in Shifts, CorrectFloatBegin(k, s)
        PROVE  CashCovered'
    BY <1>1, <2>2 DEF CorrectFloatBegin, cash
  <2>3. ASSUME NEW k \in Correctors, NEW f \in Floats, CorrectFloatUpdate(k, f)
        PROVE  CashCovered'
    <3>1. corrector[k].shift \in Shifts
      BY <2>3 DEF CorrectFloatUpdate, IInv, RequestsOk, CorrectorOk, Exists
    <3> SUFFICES ASSUME NEW s \in Shifts, s = corrector[k].shift PROVE CashCovered'
      BY <3>1
    <3>2. shift[s].opening - f \in Int
      BY FloatDomain DEF IInv, RowsOk, RowTypes, ShiftRow
    <3>3. HandBack(s, shift[s].opening - f) /\ UNCHANGED <<rushed, mover>>
      BY <2>3 DEF CorrectFloatUpdate
    <3> QED BY <3>2, <3>3, HandsBack, CashComesIn DEF CashOutsDue
  <2> QED BY <1>4, <2>1, <2>2, <2>3, MovementChecked, MovementRecorded DEF Moving
<1>5. CASE Closing \/ Calendar
  BY <1>1, <1>5, ClosingApart, CalendarApart DEF cash, requests
<1>6. CASE Crash
  <2>1. \A m \in Movers : mover'[m] \in {Idle, Gone}
    BY <1>6 DEF Crash
  <2> QED BY <1>1, <1>6, <2>1, IdleRequests DEF Crash, cash
<1>7. CASE UNCHANGED vars
  BY <1>1, <1>7 DEF vars, cash, requests
<1> QED BY <1>2, <1>3, <1>4, <1>5, <1>6, <1>7 DEF Next

-----------------------------------------------------------------------------
(* What a close has looked at, and what the log says of it.                *)

ReviewTypes ==
  /\ reviewed \in [Shifts -> SUBSET Sales]
  /\ audit \in [Shifts -> [by: SUBSET (Closers \cup Sweeps), latest: {None} \cup Closers,
                           ack: BOOLEAN]]

\* The latest record of a manager's close is of a request that is done. What the
\* scheduler has looked at had no shortage, nor has that of a manager's request
\* whose record does not acknowledge one; until the record is written, the
\* request knows what it has looked at.
ReviewOk(s) ==
  /\ audit[s].latest # None => closer[audit[s].latest].at = "done"
  /\ \A x \in reviewed[s] : Final(x)
  /\ shift[s].closedBy \in Sweeps => StockShortagesForShift(s) \cap reviewed[s] = {}
  /\ shift[s].closedBy # None /\ audit[s].latest = shift[s].closedBy /\ ~audit[s].ack =>
       StockShortagesForShift(s) \cap reviewed[s] = {}
  /\ \A c \in Closers : closer[c].at = "audit" /\ closer[c].shift = s /\ shift[s].closedBy = c =>
       reviewed[s] = closer[c].seen

Reviewing == ReviewTypes /\ \A s \in Shifts : ReviewOk(s)

\* What is reviewed in this state has no more shortages in the next.
LEMMA ReviewsShrink ==
  ASSUME IInv, GoesOn
  PROVE  \A s \in Shifts : \A X \in SUBSET Sales : (\A x \in X : Final(x)) =>
           /\ \A x \in X : Final(x)'
           /\ StockShortagesForShift(s) \cap X = {} => StockShortagesForShift(s)' \cap X = {}
BY DEF GoesOn, Final, StockShortagesForShift, SalesOf

LEMMA ReviewsStay ==
  ASSUME IInv, GoesOn, Reviewing, UNCHANGED <<audit, reviewed>>,
         \A s \in Shifts : shift'[s].closedBy = shift[s].closedBy,
         \A c \in Closers :
           closer'[c] = closer[c] \/ (closer'[c].at # "audit"
                                      /\ (closer[c].at = "done" => closer'[c].at = "done"))
  PROVE  Reviewing'
<1>1. ASSUME NEW s \in Shifts PROVE ReviewOk(s)'
  <2>1. ReviewOk(s) /\ reviewed[s] \in SUBSET Sales /\ audit[s].latest \in {None} \cup Closers
    BY DEF Reviewing, ReviewTypes
  <2>2. /\ \A x \in reviewed[s] : Final(x)'
        /\ StockShortagesForShift(s) \cap reviewed[s] = {} =>
             StockShortagesForShift(s)' \cap reviewed[s] = {}
    BY <2>1, ReviewsShrink DEF ReviewOk
  <2>3. audit[s].latest # None => closer'[audit[s].latest].at = "done"
    BY <2>1 DEF ReviewOk
  <2>4. \A c \in Closers : closer'[c].at = "audit" => closer'[c] = closer[c]
    OBVIOUS
  <2> QED BY <2>1, <2>2, <2>3, <2>4 DEF ReviewOk
<1> QED BY <1>1 DEF Reviewing, ReviewTypes

LEMMA CloseUpdateReviews ==
  ASSUME IInv, GoesOn, Reviewing, NEW c \in Closers, CloseUpdate(c)
  PROVE  Reviewing'
<1>1. /\ closer[c] \in Request /\ CloseOk(closer[c]) /\ closer \in [Closers -> Request]
      /\ shift \in [Shifts -> ShiftRow] /\ closer[c].at = "update"
  BY DEF IInv, RowsOk, RowTypes, RequestsOk, RequestTypes, CloseUpdate
<1> SUFFICES ASSUME NEW s \in Shifts, s = closer[c].shift PROVE Reviewing'
  BY <1>1 DEF CloseOk, Exists
<1>2. /\ shift' = [shift EXCEPT ![s] = ClosedRow(@, c, closer[c].day)]
      /\ reviewed' = [reviewed EXCEPT ![s] = closer[c].seen] /\ UNCHANGED <<audit, sale>>
      /\ closer' = [closer EXCEPT ![c].at = "audit"]
  BY DEF CloseUpdate, trade
<1>3. /\ shift'[s].closedBy = c /\ \A z \in Shifts \ {s} : shift'[z] = shift[z]
      /\ closer'[c].at = "audit" /\ closer'[c].seen = closer[c].seen
      /\ closer'[c].shift = s
      /\ \A d \in Closers \ {c} : closer'[d] = closer[d]
  BY <1>1, <1>2 DEF ClosedRow, ShiftRow, Request
<1>4. /\ closer[c].seen \in SUBSET Sales /\ reviewed \in [Shifts -> SUBSET Sales]
  BY <1>1 DEF Request, Reviewing, ReviewTypes
<1>5. /\ reviewed' \in [Shifts -> SUBSET Sales] /\ reviewed'[s] = closer[c].seen
      /\ \A z \in Shifts \ {s} : reviewed'[z] = reviewed[z]
  BY <1>2, <1>4
<1>6. \A z \in Shifts : audit[z].latest \in {None} \cup Closers /\ audit[z].latest # c
  BY <1>1, NoneIsNobody DEF Reviewing, ReviewTypes, ReviewOk
<1>7. c \notin Sweeps /\ None \notin Closers
  BY ClosersDiffer, NoneIsNobody
<1>8. ReviewOk(s)'
  <2>1. \A x \in closer[c].seen : Final(x)'
    BY <1>1, <1>2 DEF CloseOk, Final
  <2> QED BY <1>2, <1>3, <1>5, <1>6, <1>7, <2>1 DEF Reviewing, ReviewOk
<1>9. ASSUME NEW z \in Shifts \ {s} PROVE ReviewOk(z)'
  BY <1>2, <1>3, <1>5, <1>6 DEF Reviewing, ReviewOk, StockShortagesForShift, SalesOf, Final
<1> QED BY <1>2, <1>5, <1>8, <1>9 DEF Reviewing, ReviewTypes

LEMMA CloseAuditReviews ==
  ASSUME IInv, GoesOn, Reviewing, NEW c \in Closers, CloseAudit(c)
  PROVE  Reviewing'
<1>1. /\ closer[c] \in Request /\ CloseOk(closer[c]) /\ closer \in [Closers -> Request]
      /\ closer[c].at = "audit"
  BY DEF IInv, RequestsOk, RequestTypes, CloseAudit
<1> SUFFICES ASSUME NEW s \in Shifts, s = closer[c].shift PROVE Reviewing'
  BY <1>1 DEF CloseOk, Exists
<1> DEFINE record == [by |-> audit[s].by \cup {c}, latest |-> c, ack |-> closer[c].ack]
<1>2. /\ UNCHANGED <<shift, reviewed, sale>> /\ audit' = [audit EXCEPT ![s] = record]
      /\ closer' = [closer EXCEPT ![c] = Gone]
  BY DEF CloseAudit, trade
<1>3. ReviewTypes
  BY DEF Reviewing
<1>4. record \in [by: SUBSET (Closers \cup Sweeps), latest: {None} \cup Closers, ack: BOOLEAN]
      /\ record.latest = c /\ record.ack = closer[c].ack
  BY <1>1, <1>3 DEF ReviewTypes, Request
<1> HIDE DEF record
<1>5. /\ audit'[s] = record /\ \A z \in Shifts \ {s} : audit'[z] = audit[z]
      /\ ReviewTypes'
  BY <1>2, <1>3, <1>4 DEF ReviewTypes
<1>6. /\ closer'[c].at = "done" /\ \A d \in Closers \ {c} : closer'[d] = closer[d]
  BY <1>1, <1>2, IdleRequests
<1>7. /\ shift[s].closedBy = c /\ ~closer[c].ack => StockShortagesForShift(s) \cap reviewed[s] = {}
  BY <1>1 DEF Reviewing, ReviewOk, CloseOk
<1>8. \A z \in Shifts : StockShortagesForShift(z)' = StockShortagesForShift(z)
                        /\ \A x \in Sales : Final(x)' = Final(x)
  BY <1>2 DEF StockShortagesForShift, SalesOf, Final
<1>9. None \notin Closers /\ reviewed[s] \in SUBSET Sales
  BY NoneIsNobody, <1>3 DEF ReviewTypes
<1>10. ReviewOk(s)'
  BY <1>2, <1>4, <1>5, <1>6, <1>7, <1>8, <1>9 DEF Reviewing, ReviewOk
<1>11. ASSUME NEW z \in Shifts \ {s} PROVE ReviewOk(z)'
  <2>1. audit[z].latest \in {None} \cup Closers /\ reviewed[z] \in SUBSET Sales /\ ReviewOk(z)
    BY <1>3 DEF ReviewTypes, Reviewing
  <2> QED BY <1>2, <1>5, <1>6, <1>8, <2>1 DEF ReviewOk
<1> QED BY <1>5, <1>10, <1>11 DEF Reviewing

LEMMA SweepUpdateReviews ==
  ASSUME IInv, GoesOn, Reviewing, NEW w \in Sweeps, SweepUpdate(w), IsOpen(sweep[w].shift)
  PROVE  Reviewing'
<1>1. /\ sweep[w] \in Request /\ SweepOk(sweep[w]) /\ sweep[w].at = "update"
      /\ shift \in [Shifts -> ShiftRow]
  BY DEF IInv, RowsOk, RowTypes, RequestsOk, RequestTypes, SweepUpdate
<1> SUFFICES ASSUME NEW s \in Shifts, s = sweep[w].shift PROVE Reviewing'
  BY <1>1 DEF SweepOk, CloseOk, Exists
<1>2. /\ shift' = [shift EXCEPT ![s] = ClosedRow(@, w, sweep[w].day)]
      /\ reviewed' = [reviewed EXCEPT ![s] = sweep[w].seen] /\ UNCHANGED <<audit, sale, closer>>
  BY DEF SweepUpdate, SweepCloses, trade
<1>3. /\ shift'[s].closedBy = w /\ \A z \in Shifts \ {s} : shift'[z] = shift[z]
  BY <1>1, <1>2 DEF ClosedRow, ShiftRow
<1>4. /\ sweep[w].seen \in SUBSET Sales /\ reviewed \in [Shifts -> SUBSET Sales]
  BY <1>1 DEF Request, Reviewing, ReviewTypes
<1>5. /\ reviewed' \in [Shifts -> SUBSET Sales] /\ reviewed'[s] = sweep[w].seen
      /\ \A z \in Shifts \ {s} : reviewed'[z] = reviewed[z]
  BY <1>2, <1>4
<1>6. w \notin Closers /\ w # None
  BY ClosersDiffer, NoneIsNobody
<1>7. /\ \A x \in sweep[w].seen : Final(x)'
      /\ StockShortagesForShift(s)' \cap sweep[w].seen = {}
  BY <1>1, <1>2 DEF SweepOk, CloseOk, Final, StockShortagesForShift, SalesOf
<1>8. ReviewOk(s)'
  BY <1>2, <1>3, <1>5, <1>6, <1>7 DEF Reviewing, ReviewTypes, ReviewOk
<1>9. ASSUME NEW z \in Shifts \ {s} PROVE ReviewOk(z)'
  BY <1>2, <1>3, <1>5 DEF Reviewing, ReviewOk, StockShortagesForShift, SalesOf, Final
<1> QED BY <1>2, <1>5, <1>8, <1>9 DEF Reviewing, ReviewTypes

LEMMA SweepAuditReviews ==
  ASSUME IInv, GoesOn, Reviewing, NEW w \in Sweeps, SweepAudit(w)
  PROVE  Reviewing'
<1>1. sweep[w].shift \in Shifts
  BY DEF SweepAudit, IInv, RequestsOk, SweepOk, CloseOk, Exists
<1>2. /\ audit' = [audit EXCEPT ![sweep[w].shift].by = @ \cup {w}]
      /\ UNCHANGED <<shift, reviewed, sale, closer>>
  BY DEF SweepAudit, trade
<1>3. ReviewTypes' /\ \A s \in Shifts : /\ audit'[s].latest = audit[s].latest
                                        /\ audit'[s].ack = audit[s].ack
  BY <1>1, <1>2 DEF Reviewing, ReviewTypes
<1>4. \A s \in Shifts : ReviewOk(s)'
  BY <1>2, <1>3 DEF Reviewing, ReviewOk, StockShortagesForShift, SalesOf, Final
<1> QED BY <1>3, <1>4 DEF Reviewing

LEMMA ReviewStep ==
  IInv /\ Reviewing /\ [Next]_vars => Reviewing'
<1> SUFFICES ASSUME IInv, Reviewing, [Next]_vars PROVE Reviewing'
  OBVIOUS
<1>1. GoesOn /\ closer \in [Closers -> Request] /\ shift \in [Shifts -> ShiftRow]
  BY StepKeeps DEF Kept, IInv, RowsOk, RowTypes, RequestsOk, RequestTypes
<1>2. ASSUME UNCHANGED <<audit, reviewed, closer>>,
             \A s \in Shifts : shift'[s].closedBy = shift[s].closedBy
      PROVE  Reviewing'
  BY <1>1, <1>2, ReviewsStay
<1>3. CASE Opening
  <2>1. ASSUME NEW o \in Openers, OpenCheck(o) PROVE Reviewing'
    BY <1>2, <2>1 DEF OpenCheck, closes
  <2>2. ASSUME NEW o \in Openers, NEW s \in Shifts, NEW f \in Floats, OpenCreate(o, s, f)
        PROVE  Reviewing'
    <3>1. UNCHANGED <<audit, reviewed, closer>>
          /\ shift' = [shift EXCEPT ![s].status = "OPEN", ![s].opening = f]
      BY <2>2 DEF OpenCreate, closes
    <3>2. \A z \in Shifts : shift'[z].closedBy = shift[z].closedBy
      BY <1>1, <3>1 DEF ShiftRow
    <3> QED BY <1>2, <3>1, <3>2
  <2> QED BY <1>3, <2>1, <2>2 DEF Opening
<1>4. CASE Selling \/ Calendar
  BY <1>2, <1>4, SellingApart, CalendarApart DEF Books, requests
<1>5. CASE Moving
  <2>1. ASSUME NEW k \in Correctors, NEW f \in Floats, CorrectFloatUpdate(k, f)
        PROVE  Reviewing'
    BY <1>1, <1>2, <2>1 DEF CorrectFloatUpdate, ShiftRow, closes
  <2> QED BY <1>2, <1>5, <2>1 DEF Moving, MovementBegin, MovementCheck, MovementCreate,
                                  CorrectFloatBegin, closes
<1>6. ASSUME NEW c \in Closers PROVE CloseSteps(c) \/ CloseFails(c) => Reviewing'
  <2>1. ASSUME CloseCheck(c) \/ CloseFails(c) PROVE Reviewing'
    <3>1. UNCHANGED <<shift, audit, reviewed>>
      BY <2>1 DEF CloseCheck, CloseFails, closes
    <3>2. \A d \in Closers : closer'[d] = closer[d] \/ (d = c /\ closer[c].at # "done"
                                                         /\ closer'[c].at # "audit")
      BY <1>1, <2>1, IdleRequests DEF CloseCheck, CloseFails, Request
    <3> QED BY <1>1, <3>1, <3>2, ReviewsStay
  <2> QED BY <1>1, <2>1, CloseUpdateReviews, CloseAuditReviews DEF CloseSteps
<1>7. ASSUME NEW c \in Closers, NEW s \in Shifts, NEW ack \in BOOLEAN, CloseBegin(c, s, ack)
      PROVE  Reviewing'
  <2>1. UNCHANGED <<shift, audit, reviewed>>
    BY <1>7 DEF CloseBegin, closes
  <2>2. \A d \in Closers : closer'[d] = closer[d] \/ (d = c /\ closer[c].at # "done"
                                                       /\ closer'[c].at # "audit")
    BY <1>1, <1>7, IdleRequests DEF CloseBegin, Request
  <2> QED BY <1>1, <2>1, <2>2, ReviewsStay
<1>8. ASSUME NEW w \in Sweeps, SweepSteps(w) \/ SweepFails(w) PROVE Reviewing'
  <2>1. CASE SweepUpdate(w) /\ ~IsOpen(sweep[w].shift)
    BY <1>2, <2>1 DEF SweepUpdate
  <2>2. CASE SweepCheck(w) \/ SweepFails(w)
    BY <1>2, <2>2 DEF SweepCheck, SweepFails, closes
  <2> QED BY <1>1, <1>8, <2>1, <2>2, SweepUpdateReviews, SweepAuditReviews DEF SweepSteps
<1>9. CASE Closing
  BY <1>2, <1>6, <1>7, <1>8, <1>9 DEF Closing, SweepBegin, closes
<1>10. CASE Crash
  <2>1. \A c \in Closers : closer'[c] = closer[c] \/ (closer'[c].at = "done")
    BY <1>1, <1>10, IdleRequests DEF Crash
  <2> QED BY <1>1, <1>10, <2>1, ReviewsStay DEF Crash, closes
<1>11. CASE UNCHANGED vars
  BY <1>2, <1>11 DEF vars, closes, requests
<1> QED BY <1>3, <1>4, <1>5, <1>9, <1>10, <1>11 DEF Next

-----------------------------------------------------------------------------
ShiftsInv == IInv /\ OneOpening /\ CashCovered /\ Reviewing

LEMMA ShiftsStart == Init => ShiftsInv
<1> SUFFICES ASSUME Init PROVE ShiftsInv
  OBVIOUS
<1>1. IInv
  BY Start
<1>2. OneOpening
  BY IdleRequests DEF Init, OneOpening, Creating, IsOpen
<1>3. CashCovered
  <2>1. /\ back \in [Shifts -> Int] /\ \A s \in Shifts : back[s] = 0 /\ drawer[s] = 0
        /\ \A m \in Movers : mover[m].at = "idle"
    BY IdleRequests DEF Init
  <2> QED BY <2>1 DEF CashCovered, CashOutsDue, Left
<1>4. Reviewing
  <2>1. ReviewTypes
    BY DEF Init, ReviewTypes
  <2>2. \A s \in Shifts : /\ audit[s].latest = None /\ reviewed[s] = {}
                          /\ shift[s].closedBy = None
    BY DEF Init
  <2>3. \A c \in Closers : closer[c].at = "idle"
    BY IdleRequests DEF Init
  <2> QED BY <2>1, <2>2, <2>3 DEF Reviewing, ReviewOk
<1> QED BY <1>1, <1>2, <1>3, <1>4 DEF ShiftsInv

LEMMA ShiftsStep == ShiftsInv /\ [Next]_vars => ShiftsInv' /\ GoesOn
BY StepKeeps, OpeningStep, CashStep, ReviewStep DEF ShiftsInv, Kept

LEMMA Inductive == Spec => []ShiftsInv
BY ShiftsStart, ShiftsStep, PTL DEF Spec

LEMMA Consequences ==
  ShiftsInv => /\ TypeOK /\ ExpectedShortByChange /\ CashOutsAreCovered /\ OneShiftAtATime
               /\ UnacknowledgedShortagesWereUnseen
<1> SUFFICES ASSUME ShiftsInv
             PROVE  /\ TypeOK /\ ExpectedShortByChange /\ CashOutsAreCovered
                    /\ OneShiftAtATime /\ UnacknowledgedShortagesWereUnseen
  OBVIOUS
<1>1. RowTypes /\ ReviewTypes /\ IInv
  BY DEF ShiftsInv, IInv, RowsOk, Reviewing
<1>2. TypeOK
  <2>1. \A s \in Shifts :
          /\ shift[s].status \in {"NONE", "OPEN", "CLOSED"}
          /\ shift[s].opening \in Nat
          /\ shift[s].closedBy \in {None} \cup Closers \cup Sweeps
          /\ shift[s].closedOn \in Days
          /\ (shift[s].status = "CLOSED") <=> (shift[s].closedBy # None)
    BY <1>1 DEF RowTypes, ShiftRow, IInv, RowsOk, ShiftOk
  <2>2. \A s \in Shifts :
          /\ audit[s].by \subseteq Closers \cup Sweeps /\ reviewed[s] \subseteq Sales
          /\ moved[s] \in Int /\ drawer[s] \in Int /\ back[s] \in Int
    BY <1>1 DEF RowTypes, ReviewTypes, ShiftsInv, CashCovered
  <2>3. \A x \in Sales :
          /\ sale[x].status \in {"NONE", "BEGUN", "COMPLETED", "VOIDED"}
          /\ sale[x].status # "NONE" => sale[x].shift \in Shifts
          /\ sale[x].amount \in Nat /\ sale[x].change \in Nat
          /\ refund[x].at # "none" => refund[x].shift \in Shifts
    BY <1>1 DEF RowTypes, SaleRow, IInv, RowsOk, SaleOk, Exists
  <2>4. /\ \A m \in Movers : mover[m].at \in {"idle", "check", "create", "done"}
        /\ \A c \in Closers : closer[c].at \in {"idle", "check", "update", "audit", "done"}
        /\ \A w \in Sweeps : sweep[w].at \in {"idle", "check", "update", "audit"}
    BY <1>1 DEF IInv, RequestsOk, MoverOk, CloseOk, SweepOk
  <2> QED BY <2>1, <2>2, <2>3, <2>4 DEF TypeOK
<1>3. ExpectedShortByChange
  <2> SUFFICES ASSUME NEW s \in Shifts PROVE ExpectedCash(s) = drawer[s] - ChangeOf(s)
    BY DEF ExpectedShortByChange
  <2>1. shift[s].opening + CashOf(s) - RefundsOf(s) + moved[s] = drawer[s]
    BY <1>1 DEF IInv, Balanced
  <2>2. /\ CashOf(s) \in Int /\ RefundsOf(s) \in Int /\ ChangeOf(s) \in Int
        /\ shift[s].opening \in Int /\ moved[s] \in Int /\ drawer[s] \in Int
    BY <1>1, CashTypes DEF RowTypes, ShiftRow
  <2> QED BY <2>1, <2>2 DEF ExpectedCash
<1>4. CashOutsAreCovered
  BY DEF CashOutsAreCovered, ShiftsInv, CashCovered, Left
<1>5. OneShiftAtATime
  BY DEF OneShiftAtATime, ShiftsInv, OneOpening
<1>6. UnacknowledgedShortagesWereUnseen
  <2> SUFFICES ASSUME NEW s \in Shifts, IsClosed(s), RecordStands(s), ~audit[s].ack
               PROVE  StockShortagesForShift(s) \cap reviewed[s] = {}
    BY DEF UnacknowledgedShortagesWereUnseen
  <2>1. shift[s].closedBy # None
    BY <1>1 DEF IInv, RowsOk, ShiftOk, IsClosed
  <2> QED BY <2>1 DEF ShiftsInv, Reviewing, ReviewOk, RecordStands
<1> QED BY <1>2, <1>3, <1>4, <1>5, <1>6

\* A manager's close is not replaced: the scheduler writes open shifts only.
LEMMA ManagersStay ==
  IInv /\ [Next]_vars =>
    [\A s \in Shifts : shift[s].closedBy \in Closers => shift'[s].closedBy \in Closers]_vars
<1> SUFFICES ASSUME IInv, Next, NEW s \in Shifts, shift[s].closedBy \in Closers
             PROVE  shift'[s].closedBy \in Closers
  OBVIOUS
<1>1. /\ shift \in [Shifts -> ShiftRow] /\ shift[s].status = "CLOSED"
      /\ \A c \in Closers : closer[c].at = "update" => closer[c].shift \in Shifts
      /\ \A w \in Sweeps : sweep[w].at = "update" => sweep[w].shift \in Shifts
      /\ \A k \in Correctors : corrector[k].at = "update" => corrector[k].shift \in Shifts
  BY NoneIsNobody
     DEF IInv, RowsOk, RowTypes, ShiftOk, RequestsOk, CloseOk, SweepOk, CorrectorOk, Exists
<1>2. CASE shift' = shift
  BY <1>2
<1>3. CASE Selling \/ Calendar
  BY <1>2, <1>3, SellingApart, CalendarApart DEF Books
<1>4. CASE Opening
  <2>1. ASSUME NEW o \in Openers, NEW z \in Shifts, NEW f \in Floats, OpenCreate(o, z, f)
        PROVE  shift'[s].closedBy \in Closers
    BY <1>1, <2>1 DEF OpenCreate, ShiftRow
  <2> QED BY <1>2, <1>4, <2>1 DEF Opening, OpenCheck
<1>5. CASE Moving
  <2>1. ASSUME NEW k \in Correctors, NEW f \in Floats, CorrectFloatUpdate(k, f)
        PROVE  shift'[s].closedBy \in Closers
    BY <1>1, <2>1 DEF CorrectFloatUpdate, ShiftRow
  <2> QED BY <1>2, <1>5, <2>1 DEF Moving, MovementBegin, MovementCheck, MovementCreate,
                                  CorrectFloatBegin
<1>6. CASE Closing
  <2>1. ASSUME NEW c \in Closers, CloseUpdate(c) PROVE shift'[s].closedBy \in Closers
    BY <1>1, <2>1 DEF CloseUpdate, ClosedRow, ShiftRow
  <2>2. ASSUME NEW w \in Sweeps, SweepUpdate(w) PROVE shift'[s].closedBy \in Closers
    BY <1>1, <2>2 DEF SweepUpdate, SweepCloses, ClosedRow, ShiftRow, IsOpen
  <2>3. ASSUME NEW c \in Closers, CloseCheck(c) \/ CloseAudit(c) \/ CloseFails(c)
        PROVE  shift'[s].closedBy \in Closers
    BY <1>2, <2>3 DEF CloseCheck, CloseAudit, CloseFails
  <2>4. ASSUME NEW w \in Sweeps, SweepCheck(w) \/ SweepAudit(w) \/ SweepFails(w)
        PROVE  shift'[s].closedBy \in Closers
    BY <1>2, <2>4 DEF SweepCheck, SweepAudit, SweepFails
  <2> QED BY <1>2, <1>6, <2>1, <2>2, <2>3, <2>4
          DEF Closing, CloseSteps, SweepSteps, CloseBegin, SweepBegin
<1> QED BY <1>2, <1>3, <1>4, <1>5, <1>6 DEF Next, Crash

\* Rows and requests hold values of their types.
THEOREM TypesHold == Spec => []TypeOK
BY Inductive, Consequences, PTL

\* The expected cash of a shift is what came into the drawer less the change,
\* whatever sales, refunds, voids, movements and corrections interleave.
THEOREM CashAddsUp == Spec => []ExpectedShortByChange
BY Inductive, Consequences, PTL

\* What the drawer of a shift lacks was handed back after the CASH_OUTs were
\* checked, unless two of them were checked against the same cash.
THEOREM CashOutsStayCovered == Spec => []CashOutsAreCovered
BY Inductive, Consequences, PTL

\* Two shifts are open only after two openings that overlapped, however many
\* openings, closes and passes there are.
THEOREM ShiftsAreOneAtATime == Spec => []OneShiftAtATime
BY Inductive, Consequences, PTL

\* A close whose record is the latest and acknowledges nothing has seen no
\* shortage, though the record is written after the close and may never be.
THEOREM ShortagesAreAcknowledged == Spec => []UnacknowledgedShortagesWereUnseen
BY Inductive, Consequences, PTL

\* The scheduler never replaces a manager's close.
THEOREM ManagersCloseStays == Spec => SchedulerNeverOverrides
<1>1. Spec => []IInv /\ [][Next]_vars
  BY Inductive, PTL DEF Spec, ShiftsInv
<1> QED BY <1>1, ManagersStay, PTL DEF SchedulerNeverOverrides

-----------------------------------------------------------------------------
(* The digest of a closed shift and its invoice.                           *)

PostRow == [at: {"idle", "export", "prepare", "find", "await", "recover", "record"},
            shift: Shifts \cup {None}, day: Days, sales: SUBSET Sales, ok: BOOLEAN]

Call == [by: Posters, shift: Shifts, day: Days, sales: SUBSET Sales]

Invoice == [day: Days, sales: SUBSET Sales]

DayTypes ==
  /\ posting \in [Posters -> PostRow]
  /\ job \in [Shifts -> {"NONE", "PENDING", "RUNNING", "SUCCEEDED", "FAILED"}]
  /\ sent \in SUBSET Call
  /\ invoices \in [Shifts -> Seq(Invoice)]
  /\ redated \in SUBSET Shifts
  /\ settled \in [Shifts -> [sales: SUBSET Sales, returned: SUBSET Sales]]

\* What was complete when a shift closed is not undone, but for voids.
SettledOk(s) ==
  /\ \A x \in settled[s].sales : Final(x)
  /\ settled[s].returned \subseteq ReturnedIn(s)

\* X will do as the sales of an invoice of s, from the close of s on.
Carries(s, X) ==
  /\ IsClosed(s)
  /\ settled[s].sales \cap SalesOf(s) \subseteq X
  /\ settled[s].returned = {}
  /\ \A x \in X : Final(x) /\ sale[x].shift = s

\* A digest has the date of the close, as long as no other close has changed it.
Dated(s, day) == IsClosed(s) /\ (day = shift[s].closedOn \/ s \in redated)

PostOk(r) ==
  /\ r.at # "idle" => r.shift \in Shifts /\ IsClosed(r.shift)
  /\ r.at \notin {"idle", "export"} => Dated(r.shift, r.day)
  /\ r.at = "find" => Carries(r.shift, r.sales)
  /\ r.at = "record" /\ r.ok => invoices[r.shift] # <<>>

CallOk(c) == Carries(c.shift, c.sales) /\ Dated(c.shift, c.day)

Numbered(s, day) == {i \in DOMAIN invoices[s] : invoices[s][i].day = day}
Calling(s, day)  == {c \in sent : c.shift = s /\ c.day = day}

\* Unless calls have raced, a number has a call on its way, or an invoice, or
\* neither.
Once(s, day) ==
  <<s, day>> \notin raced =>
    /\ \A i, j \in Numbered(s, day) : i = j
    /\ \A c, d \in Calling(s, day) : c = d
    /\ Calling(s, day) # {} => Numbered(s, day) = {}

InvoicesOk(s) ==
  /\ \A i \in DOMAIN invoices[s] :
       Carries(s, invoices[s][i].sales) /\ Dated(s, invoices[s][i].day)
  /\ job[s] = "SUCCEEDED" => invoices[s] # <<>>

DInv ==
  /\ DayTypes
  /\ \A s \in Shifts : SettledOk(s)
  /\ \A k \in Posters : PostOk(posting[k])
  /\ \A c \in sent : CallOk(c)
  /\ \A s \in Shifts : InvoicesOk(s)
  /\ \A s \in Shifts, day \in Days : Once(s, day)

\* Carries(s, X) of the next state, for the X of this one.
StillCarries(s, X) ==
  /\ shift'[s].status = "CLOSED"
  /\ settled'[s].sales \cap SalesOf(s)' \subseteq X
  /\ settled'[s].returned = {}
  /\ \A x \in X : sale'[x].status \in {"COMPLETED", "VOIDED"} /\ sale'[x].shift = s

\* And Dated(s, day) for its day.
StillDated(s, day) ==
  shift'[s].status = "CLOSED" /\ (day = shift'[s].closedOn \/ s \in redated')

\* What was complete at the close of a shift is noted when it closes.
Settling ==
  /\ settled' \in [Shifts -> [sales: SUBSET Sales, returned: SUBSET Sales]]
  /\ \A s \in Shifts : IsClosed(s) => settled'[s] = settled[s]
  /\ \A s \in Shifts :
       \/ settled'[s] = settled[s]
       \/ settled'[s] = [sales |-> SalesOf(s), returned |-> ReturnedIn(s)]

\* A close that changes the date of another is remembered.
Dating ==
  /\ redated' \in SUBSET Shifts /\ redated \subseteq redated'
  /\ \A s \in Shifts : IsClosed(s) =>
       shift'[s].closedOn = shift[s].closedOn \/ s \in redated'

Noting == Settling /\ Dating

InvoicesRemain == \A s \in Shifts : invoices[s] # <<>> => invoices'[s] # <<>>

LEMMA DayStart == DayInit => IInv /\ DInv
<1> SUFFICES ASSUME DayInit PROVE DInv
  BY Start DEF DayInit
<1>1. /\ posting = [k \in Posters |-> Resting] /\ job = [s \in Shifts |-> "NONE"]
      /\ sent = {} /\ invoices = [s \in Shifts |-> <<>>] /\ raced = {} /\ redated = {}
      /\ settled = [s \in Shifts |-> [sales |-> {}, returned |-> {}]]
  BY DEF DayInit
<1>2. Resting \in PostRow /\ Resting.at = "idle"
  BY BoundDomain DEF Resting, PostRow, Days
<1>3. DayTypes
  <2>1. <<>> \in Seq(Invoice)
    OBVIOUS
  <2>2. [sales |-> {}, returned |-> {}] \in [sales: SUBSET Sales, returned: SUBSET Sales]
    OBVIOUS
  <2> QED BY <1>1, <1>2, <2>1, <2>2 DEF DayTypes
<1>4. \A k \in Posters : PostOk(posting[k])
  BY <1>1, <1>2 DEF PostOk
<1>5. ASSUME NEW s \in Shifts
      PROVE  SettledOk(s) /\ InvoicesOk(s) /\ \A day \in Days : Once(s, day)
  <2>1. invoices[s] = <<>> /\ DOMAIN invoices[s] = {}
    BY <1>1
  <2> QED BY <1>1, <2>1 DEF SettledOk, InvoicesOk, Once, Numbered, Calling
<1> QED BY <1>1, <1>3, <1>4, <1>5 DEF DInv

LEMMA DayFrame ==
  ASSUME IInv, DInv, GoesOn, Noting
  PROVE  /\ \A s \in Shifts : SettledOk(s)'
         /\ \A s \in Shifts, X \in SUBSET Sales : Carries(s, X) => StillCarries(s, X)
         /\ \A s \in Shifts, day \in Days : Dated(s, day) => StillDated(s, day)
<1>1. ASSUME NEW s \in Shifts PROVE SettledOk(s)'
  <2>1. SettledOk(s) /\ settled[s].sales \in SUBSET Sales
    BY DEF DInv, DayTypes
  <2>2. CASE settled'[s] = settled[s]
    BY <2>1, <2>2 DEF SettledOk, GoesOn, Final, ReturnedIn
  <2>3. CASE settled'[s] = [sales |-> SalesOf(s), returned |-> ReturnedIn(s)]
    BY <2>3 DEF SettledOk, GoesOn, Final, ReturnedIn, SalesOf
  <2> QED BY <2>2, <2>3 DEF Settling, Noting
<1>2. ASSUME NEW s \in Shifts, NEW X \in SUBSET Sales, Carries(s, X) PROVE StillCarries(s, X)
  <2>1. SettledOk(s) /\ settled[s].sales \in SUBSET Sales
    BY DEF DInv, DayTypes
  <2>2. settled'[s] = settled[s]
    BY <1>2 DEF Carries, Settling, Noting
  <2>3. settled[s].sales \cap SalesOf(s)' \subseteq SalesOf(s)
    BY <2>1 DEF SettledOk, SalesOf, GoesOn
  <2> QED BY <1>2, <2>2, <2>3 DEF Carries, StillCarries, GoesOn
<1>3. ASSUME NEW s \in Shifts, NEW day \in Days, Dated(s, day) PROVE StillDated(s, day)
  BY <1>3 DEF Dated, StillDated, Dating, Noting, GoesOn
<1> QED BY <1>1, <1>2, <1>3

LEMMA PostingStays ==
  ASSUME IInv, DInv, GoesOn, Noting, InvoicesRemain,
         NEW k \in Posters, posting'[k] = posting[k]
  PROVE  PostOk(posting[k])'
<1>1. posting[k] \in PostRow /\ PostOk(posting[k])
  BY DEF DInv, DayTypes
<1>2. posting[k].sales \in SUBSET Sales /\ posting[k].day \in Days
  BY <1>1 DEF PostRow
<1>3. posting[k].at = "find" => StillCarries(posting[k].shift, posting[k].sales)
  BY <1>1, <1>2, DayFrame DEF PostOk
<1>4. posting[k].at # "idle" => shift'[posting[k].shift].status = "CLOSED"
  BY <1>1 DEF PostOk, GoesOn
<1>5. posting[k].at \notin {"idle", "export"} => Dated(posting[k].shift, posting[k].day)'
  BY <1>1, <1>2, DayFrame DEF PostOk, Dated, StillDated, IsClosed
<1> QED BY <1>1, <1>3, <1>4, <1>5
        DEF PostOk, StillCarries, Carries, Final, IsClosed, InvoicesRemain

LEMMA CallsStay ==
  ASSUME IInv, DInv, GoesOn, Noting, NEW c \in sent
  PROVE  CallOk(c)'
<1>1. c \in Call /\ CallOk(c)
  BY DEF DInv, DayTypes
<1>2. StillCarries(c.shift, c.sales) /\ StillDated(c.shift, c.day)
  BY <1>1, DayFrame DEF Call, CallOk
<1> QED BY <1>2 DEF StillCarries, StillDated, CallOk, Carries, Dated, Final, IsClosed

LEMMA InvoicesStay ==
  ASSUME IInv, DInv, GoesOn, Noting, NEW s \in Shifts, NEW i \in DOMAIN invoices[s]
  PROVE  StillCarries(s, invoices[s][i].sales) /\ StillDated(s, invoices[s][i].day)
<1>1. invoices[s] \in Seq(Invoice)
  BY DEF DInv, DayTypes
<1>2. invoices[s][i] \in Invoice
  BY <1>1
<1>3. invoices[s][i].sales \in SUBSET Sales /\ invoices[s][i].day \in Days
  BY <1>2 DEF Invoice
<1> QED BY <1>3, DayFrame DEF DInv, InvoicesOk

\* A step that neither sends a call nor brings an invoice.
LEMMA PostingKeeps ==
  ASSUME IInv, DInv, GoesOn, Noting, UNCHANGED <<sent, invoices, raced>>, DayTypes',
         \A k \in Posters : posting'[k] = posting[k] \/ PostOk(posting[k])',
         \A s \in Shifts : job'[s] = "SUCCEEDED" => job[s] = "SUCCEEDED" \/ invoices[s] # <<>>
  PROVE  DInv'
<1>1. InvoicesRemain
  BY DEF InvoicesRemain
<1>2. \A k \in Posters : PostOk(posting[k])'
  BY <1>1, PostingStays
<1>3. \A c \in sent' : CallOk(c)'
  BY CallsStay
<1>4. ASSUME NEW s \in Shifts PROVE InvoicesOk(s)'
  BY InvoicesStay
     DEF DInv, InvoicesOk, StillCarries, StillDated, Carries, Dated, Final, IsClosed
<1>5. \A s \in Shifts, day \in Days : Once(s, day)'
  BY DEF DInv, Once, Numbered, Calling
<1> QED BY <1>2, <1>3, <1>4, <1>5, DayFrame DEF DInv

\* What a step that is no closing update does to the dates: nothing.
DatesStay == \A s \in Shifts : shift'[s].closedOn = shift[s].closedOn

LEMMA ShiftStepKeeps ==
  ASSUME IInv, DInv, GoesOn, DatesStay, UNCHANGED postVars
  PROVE  DInv'
<1>1. Noting /\ DayTypes'
  BY DEF Noting, Settling, Dating, DatesStay, DInv, DayTypes, postVars
<1> QED BY <1>1, PostingKeeps DEF postVars

LEMMA SettlingKeeps ==
  ASSUME IInv, DInv, GoesOn, NEW s \in Shifts, MarkSettled(s),
         \A z \in Shifts \ {s} : shift'[z].closedOn = shift[z].closedOn,
         UNCHANGED <<posting, job, sent, invoices, raced>>
  PROVE  DInv'
<1>1. /\ settled \in [Shifts -> [sales: SUBSET Sales, returned: SUBSET Sales]]
      /\ [sales |-> SalesOf(s), returned |-> ReturnedIn(s)]
           \in [sales: SUBSET Sales, returned: SUBSET Sales]
      /\ redated \in SUBSET Shifts
  BY DEF DInv, DayTypes, SalesOf, ReturnedIn
<1>2. Settling
  BY <1>1 DEF Settling, MarkSettled, IsOpen, IsClosed
<1>3. Dating
  BY <1>1 DEF Dating, MarkSettled
<1>4. DayTypes' /\ Noting
  BY <1>2, <1>3 DEF Settling, Dating, Noting, DInv, DayTypes
<1> QED BY <1>4, PostingKeeps

\* Poster k comes to row r; the job of the shift may change.
LEMMA PosterKeeps ==
  ASSUME IInv, DInv, GoesOn, NEW k \in Posters, NEW r \in PostRow,
         posting' = [posting EXCEPT ![k] = r], PostOk(posting[k])',
         UNCHANGED <<sent, invoices, raced, redated, settled>>, DatesStay,
         job' \in [Shifts -> {"NONE", "PENDING", "RUNNING", "SUCCEEDED", "FAILED"}],
         \A s \in Shifts : job'[s] = "SUCCEEDED" => job[s] = "SUCCEEDED" \/ invoices[s] # <<>>
  PROVE  DInv'
<1>1. Noting
  BY DEF Noting, Settling, Dating, DatesStay, DInv, DayTypes
<1>2. DayTypes' /\ \A j \in Posters \ {k} : posting'[j] = posting[j]
  BY DEF DInv, DayTypes
<1> QED BY <1>1, <1>2, PostingKeeps

LEMMA VarsParts ==
  ASSUME UNCHANGED vars
  PROVE  UNCHANGED <<shift, sale, refund>> /\ GoesOn /\ DatesStay
BY Steady DEF vars, trade, DatesStay

LEMMA BeginPostingKeeps ==
  ASSUME IInv, DInv, GoesOn, DatesStay, NEW k \in Posters, NEW s \in Shifts, IsClosed(s),
         BeginPosting(k, s)
  PROVE  DInv'
<1> DEFINE r == [Resting EXCEPT !.at = "export", !.shift = s]
<1>0. Resting \in PostRow
  BY BoundDomain DEF Resting, PostRow, Days
<1>1. r \in PostRow /\ r.at = "export" /\ r.shift = s
  BY <1>0 DEF PostRow
<1>2. /\ posting' = [posting EXCEPT ![k] = r]
      /\ UNCHANGED <<job, sent, invoices, raced, redated, settled>>
  BY DEF BeginPosting
<1> HIDE DEF r
<1>3. posting'[k] = r
  BY <1>2 DEF DInv, DayTypes
<1>4. PostOk(posting[k])'
  BY <1>1, <1>3 DEF PostOk, GoesOn, IsClosed
<1>5. job' \in [Shifts -> {"NONE", "PENDING", "RUNNING", "SUCCEEDED", "FAILED"}]
  BY <1>2 DEF DInv, DayTypes
<1> QED BY <1>1, <1>2, <1>4, <1>5, PosterKeeps

\* The jobs as far as the invariant tells them apart.
JobsHold ==
  /\ job' \in [Shifts -> {"NONE", "PENDING", "RUNNING", "SUCCEEDED", "FAILED"}]
  /\ \A s \in Shifts : job'[s] = "SUCCEEDED" => job[s] = "SUCCEEDED" \/ invoices[s] # <<>>

LEMMA JobsSame ==
  ASSUME DInv, UNCHANGED job
  PROVE  JobsHold
BY DEF DInv, DayTypes, JobsHold

LEMMA JobSet ==
  ASSUME DInv, NEW k \in Posters, posting[k].at # "idle",
         NEW status \in {"PENDING", "RUNNING", "SUCCEEDED", "FAILED"}, SetJob(k, status),
         status = "SUCCEEDED" => invoices[posting[k].shift] # <<>>
  PROVE  JobsHold
<1>1. posting[k].shift \in Shifts
  BY DEF DInv, PostOk
<1> QED BY <1>1 DEF DInv, DayTypes, SetJob, JobsHold

LEMMA GotoKeeps ==
  ASSUME IInv, DInv, UNCHANGED <<vars, sent, invoices, raced, redated, settled>>, JobsHold,
         NEW k \in Posters, posting[k].at \notin {"idle", "export"},
         NEW at \in {"recover", "record"}, NEW ok \in BOOLEAN, Goto(k, at, ok),
         at = "record" /\ ok => invoices[posting[k].shift] # <<>>
  PROVE  DInv'
<1> DEFINE r == [posting[k] EXCEPT !.at = at, !.ok = ok]
<1>1. posting[k] \in PostRow /\ PostOk(posting[k])
  BY DEF DInv, DayTypes
<1>2. /\ r \in PostRow /\ r.at = at /\ r.shift = posting[k].shift /\ r.ok = ok
      /\ r.day = posting[k].day
  BY <1>1 DEF PostRow
<1>3. posting' = [posting EXCEPT ![k] = r]
  BY <1>1 DEF Goto, DInv, DayTypes
<1> HIDE DEF r
<1>4. posting'[k] = r
  BY <1>3 DEF DInv, DayTypes
<1>5. GoesOn /\ UNCHANGED shift /\ DatesStay
  BY VarsParts
<1>6. PostOk(posting[k])'
  BY <1>1, <1>2, <1>4, <1>5 DEF PostOk, IsClosed, Dated
<1> QED BY <1>2, <1>3, <1>5, <1>6, PosterKeeps DEF JobsHold

LEMMA RestKeeps ==
  ASSUME IInv, DInv, UNCHANGED <<vars, sent, invoices, raced, redated, settled>>, JobsHold,
         NEW k \in Posters, Rest(k)
  PROVE  DInv'
<1>1. Resting \in PostRow /\ Resting.at = "idle"
  BY BoundDomain DEF Resting, PostRow, Days
<1>2. posting'[k] = Resting
  BY DEF DInv, DayTypes, Rest
<1>3. PostOk(posting[k])'
  BY <1>1, <1>2 DEF PostOk
<1> QED BY <1>1, <1>3, VarsParts, PosterKeeps DEF JobsHold, Rest

\* The digest takes the date that the shift has now.
LEMMA ExportKeeps ==
  ASSUME IInv, DInv, NEW k \in Posters, Export(k)
  PROVE  DInv'
<1>1. posting[k] \in PostRow /\ PostOk(posting[k]) /\ posting[k].at = "export"
  BY DEF DInv, DayTypes, Export
<1>2. posting[k].shift \in Shifts /\ IsClosed(posting[k].shift)
  BY <1>1 DEF PostOk
<1> SUFFICES ASSUME NEW z \in Shifts, z = posting[k].shift PROVE DInv'
  BY <1>2
<1> DEFINE r == [posting[k] EXCEPT !.at = "prepare", !.day = shift[z].closedOn]
<1>3. /\ SetJob(k, "PENDING") /\ UNCHANGED <<vars, sent, invoices, raced, redated, settled>>
      /\ posting' = [posting EXCEPT ![k] = r]
  BY <1>1 DEF Export, DInv, DayTypes
<1>4. shift[z].closedOn \in Days
  BY DEF IInv, RowsOk, RowTypes, ShiftRow
<1>5. r \in PostRow /\ r.at = "prepare" /\ r.shift = z /\ r.day = shift[z].closedOn
  BY <1>1, <1>4 DEF PostRow
<1> HIDE DEF r
<1>6. posting'[k] = r
  BY <1>3 DEF DInv, DayTypes
<1>7. GoesOn /\ UNCHANGED shift /\ DatesStay
  BY <1>3, VarsParts
<1>8. PostOk(posting[k])'
  BY <1>2, <1>5, <1>6, <1>7 DEF PostOk, IsClosed, Dated
<1>9. JobsHold
  BY <1>1, <1>3, JobSet
<1> QED BY <1>3, <1>5, <1>7, <1>8, <1>9, PosterKeeps DEF JobsHold

\* What is read for the invoice: all that was complete at the close and still
\* is, and no return is in the shift.
LEMMA PrepareKeeps ==
  ASSUME IInv, DInv, NEW k \in Posters, Prepare(k)
  PROVE  DInv'
<1>1. posting[k] \in PostRow /\ PostOk(posting[k]) /\ posting[k].at = "prepare"
  BY DEF DInv, DayTypes, Prepare
<1>2. posting[k].shift \in Shifts /\ IsClosed(posting[k].shift)
  BY <1>1 DEF PostOk
<1> SUFFICES ASSUME NEW z \in Shifts, z = posting[k].shift PROVE DInv'
  BY <1>2
<1> DEFINE r == [posting[k] EXCEPT !.at = "find", !.sales = SalesOf(z)]
<1>3. /\ ReturnedIn(z) = {} /\ SetJob(k, "RUNNING")
      /\ UNCHANGED <<vars, sent, invoices, raced, redated, settled>>
      /\ posting' = [posting EXCEPT ![k] = r]
  BY <1>1 DEF Prepare, DInv, DayTypes
<1>4. /\ r \in PostRow /\ r.at = "find" /\ r.shift = z /\ r.sales = SalesOf(z)
      /\ r.day = posting[k].day
  BY <1>1 DEF PostRow, SalesOf
<1> HIDE DEF r
<1>5. posting'[k] = r
  BY <1>3 DEF DInv, DayTypes
<1>6. UNCHANGED <<shift, sale, refund, redated, settled>> /\ GoesOn /\ DatesStay
  BY <1>3, VarsParts
<1>7. settled[z].returned = {}
  BY <1>3 DEF DInv, SettledOk
<1>8. \A y \in SalesOf(z) : Final(y) /\ sale[y].shift = z
  BY DEF SalesOf, Final
<1>9. SalesOf(z)' = SalesOf(z) /\ IsClosed(z)'
  BY <1>2, <1>6 DEF SalesOf, IsClosed
<1>10. Carries(z, posting[k].sales)'
  BY <1>4, <1>5, <1>6, <1>7, <1>8, <1>9 DEF Carries, Final
<1>11. PostOk(posting[k])'
  BY <1>1, <1>4, <1>5, <1>6, <1>9, <1>10 DEF PostOk, Dated, IsClosed
<1>12. JobsHold
  BY <1>1, <1>3, JobSet
<1> QED BY <1>3, <1>4, <1>6, <1>11, <1>12, PosterKeeps DEF JobsHold

LEMMA PostUnlessFoundKeeps ==
  ASSUME IInv, DInv, NEW k \in Posters, PostUnlessFound(k)
  PROVE  DInv'
<1> DEFINE r == [posting[k] EXCEPT !.at = "await", !.ok = FALSE]
           call == CallOf(k)
           z == posting[k].shift
           day == posting[k].day
<1>1. posting[k] \in PostRow /\ PostOk(posting[k])
  BY DEF DInv, DayTypes
<1>2. /\ posting[k].at = "find" /\ Numbered(z, day) = {}
      /\ sent' = sent \cup {call}
      /\ raced' = raced \cup {Number(c) : c \in {c \in sent : Number(c) = Number(posting[k])}}
      /\ UNCHANGED <<vars, job, invoices, redated, settled>>
      /\ posting' = [posting EXCEPT ![k] = r]
  BY <1>1 DEF PostUnlessFound, SendInvoice, IsPosted, Numbered, Goto, DInv, DayTypes
<1>3. r \in PostRow /\ r.at = "await" /\ r.shift = z /\ r.day = day /\ day \in Days
  BY <1>1 DEF PostRow
<1>4. z \in Shifts /\ IsClosed(z) /\ Carries(z, posting[k].sales) /\ Dated(z, day)
  BY <1>1, <1>2 DEF PostOk
<1>5. call \in Call /\ call.shift = z /\ call.day = day /\ call.sales = posting[k].sales
  BY <1>1, <1>4 DEF CallOf, Call, PostRow
<1> HIDE DEF r, call
<1>6. posting' \in [Posters -> PostRow] /\ posting'[k] = r
      /\ \A j \in Posters \ {k} : posting'[j] = posting[j]
  BY <1>2, <1>3 DEF DInv, DayTypes
<1>7. GoesOn /\ DatesStay /\ UNCHANGED shift
  BY <1>2, VarsParts
<1>8. Noting /\ InvoicesRemain
  BY <1>2, <1>7 DEF Noting, Settling, Dating, DatesStay, InvoicesRemain, DInv, DayTypes
<1>9. DayTypes'
  BY <1>2, <1>4, <1>5, <1>6 DEF DInv, DayTypes
<1>10. ASSUME NEW j \in Posters PROVE PostOk(posting[j])'
  <2>1. CASE j = k
    BY <1>2, <1>3, <1>4, <1>6, <1>7, <2>1 DEF PostOk, IsClosed, Dated
  <2>2. CASE j # k
    BY <1>6, <1>7, <1>8, <2>2, PostingStays
  <2> QED BY <2>1, <2>2
<1>11. ASSUME NEW c \in sent' PROVE CallOk(c)'
  <2>1. CASE c \in sent
    BY <1>7, <1>8, <2>1, CallsStay
  <2>2. CASE c = call
    BY <1>2, <1>4, <1>5, <2>2, VarsParts
       DEF CallOk, Carries, Dated, IsClosed, SalesOf, Final
  <2> QED BY <1>2, <2>1, <2>2
<1>12. ASSUME NEW s \in Shifts PROVE InvoicesOk(s)'
  BY <1>2, <1>7, <1>8, InvoicesStay
     DEF DInv, InvoicesOk, StillCarries, StillDated, Carries, Dated, Final, IsClosed
<1>13. ASSUME NEW s \in Shifts, NEW e \in Days PROVE Once(s, e)'
  <2>1. Once(s, e) /\ Numbered(s, e)' = Numbered(s, e)
    BY <1>2 DEF DInv, Numbered
  <2>2. CASE s = z /\ e = day
    <3>1. <<s, e>> \notin raced' => <<s, e>> \notin raced /\ Calling(s, e) = {}
      BY <1>2, <2>2 DEF Number, Calling
    <3>2. Calling(s, e)' = Calling(s, e) \cup {call}
      BY <1>2, <1>5, <2>2 DEF Calling
    <3> QED BY <1>2, <2>1, <2>2, <3>1, <3>2 DEF Once
  <2>3. CASE ~(s = z /\ e = day)
    <3>1. Calling(s, e)' = Calling(s, e)
      BY <1>2, <1>5, <2>3 DEF Calling
    <3>2. <<s, e>> \notin raced' => <<s, e>> \notin raced
      BY <1>2
    <3> QED BY <2>1, <3>1, <3>2 DEF Once
  <2> QED BY <2>2, <2>3
<1> QED BY <1>7, <1>8, <1>9, <1>10, <1>11, <1>12, <1>13, DayFrame DEF DInv

\* A call that comes to Bukku or not, and its poster if it still waits.
LEMMA WaitingPoster ==
  ASSUME DInv, NEW c \in sent, Awaits(c)
  PROVE  /\ c.by \in Posters /\ posting[c.by].at = "await"
         /\ posting[c.by].shift = c.shift /\ c.shift \in Shifts
         /\ posting[c.by].day = c.day
<1>1. c \in Call
  BY DEF DInv, DayTypes
<1> QED BY <1>1 DEF Awaits, CallOf, Call

LEMMA RefuseKeeps ==
  ASSUME IInv, DInv, NEW c \in sent, Refuse(c)
  PROVE  DInv'
<1>1. /\ sent' = sent \ {c} /\ UNCHANGED <<vars, job, invoices, raced, redated, settled>>
      /\ Awaits(c) => Goto(c.by, "recover", FALSE)
      /\ ~Awaits(c) => UNCHANGED posting
  BY DEF Refuse
<1>2. GoesOn /\ DatesStay /\ UNCHANGED shift
  BY <1>1, VarsParts
<1>3. Noting /\ InvoicesRemain
  BY <1>1, <1>2 DEF Noting, Settling, Dating, DatesStay, InvoicesRemain, DInv, DayTypes
<1>4. ASSUME Awaits(c)
      PROVE  /\ posting' \in [Posters -> PostRow]
             /\ \A j \in Posters \ {c.by} : posting'[j] = posting[j]
             /\ PostOk(posting[c.by])'
  <2> SUFFICES ASSUME NEW k \in Posters, k = c.by
               PROVE  /\ posting' \in [Posters -> PostRow]
                      /\ \A j \in Posters \ {k} : posting'[j] = posting[j]
                      /\ PostOk(posting[k])'
    BY <1>4, WaitingPoster
  <2> DEFINE r == [posting[k] EXCEPT !.at = "recover", !.ok = FALSE]
  <2>1. posting[k] \in PostRow /\ PostOk(posting[k]) /\ posting[k].at = "await"
    BY <1>4, WaitingPoster DEF DInv, DayTypes
  <2>2. /\ r \in PostRow /\ r.at = "recover" /\ r.shift = posting[k].shift
        /\ r.day = posting[k].day
    BY <2>1 DEF PostRow
  <2>3. posting' = [posting EXCEPT ![k] = r]
    BY <1>1, <1>4, <2>1 DEF Goto, DInv, DayTypes
  <2> HIDE DEF r
  <2>4. posting' \in [Posters -> PostRow] /\ posting'[k] = r
        /\ \A j \in Posters \ {k} : posting'[j] = posting[j]
    BY <2>2, <2>3 DEF DInv, DayTypes
  <2>5. PostOk(posting[k])'
    BY <1>1, <1>2, <2>1, <2>2, <2>4 DEF PostOk, IsClosed, Dated
  <2> QED BY <2>4, <2>5
<1>5. posting' \in [Posters -> PostRow]
  BY <1>1, <1>4 DEF DInv, DayTypes
<1>6. ASSUME NEW j \in Posters PROVE PostOk(posting[j])'
  <2>1. posting'[j] = posting[j] \/ (Awaits(c) /\ j = c.by)
    BY <1>1, <1>4
  <2>2. CASE posting'[j] = posting[j]
    BY <1>2, <1>3, <2>2, PostingStays
  <2>3. CASE Awaits(c) /\ j = c.by
    BY <1>4, <2>3
  <2> QED BY <2>1, <2>2, <2>3
<1>7. DayTypes'
  BY <1>1, <1>5 DEF DInv, DayTypes
<1>8. \A d \in sent' : CallOk(d)'
  BY <1>1, <1>2, <1>3, CallsStay
<1>9. ASSUME NEW s \in Shifts PROVE InvoicesOk(s)' /\ \A e \in Days : Once(s, e)'
  <2>1. InvoicesOk(s)'
    BY <1>1, <1>2, <1>3, InvoicesStay
       DEF DInv, InvoicesOk, StillCarries, StillDated, Carries, Dated, Final, IsClosed
  <2>2. \A e \in Days : Once(s, e)'
    BY <1>1 DEF DInv, Once, Numbered, Calling
  <2> QED BY <2>1, <2>2
<1> QED BY <1>2, <1>3, <1>6, <1>7, <1>8, <1>9, DayFrame DEF DInv

LEMMA ArriveKeeps ==
  ASSUME IInv, DInv, NEW c \in sent, Arrive(c)
  PROVE  DInv'
<1>1. /\ c \in Call /\ c.shift \in Shifts /\ c.sales \in SUBSET Sales /\ c.day \in Days
      /\ invoices \in [Shifts -> Seq(Invoice)]
  BY DEF DInv, DayTypes, Call
<1>0. [day |-> c.day, sales |-> c.sales] \in Invoice
  BY <1>1 DEF Invoice
<1> SUFFICES ASSUME NEW z \in Shifts, z = c.shift, NEW X \in Invoice,
                    X = [day |-> c.day, sales |-> c.sales]
             PROVE  DInv'
  BY <1>0, <1>1
<1>2. /\ sent' = sent \ {c} /\ UNCHANGED <<vars, job, raced, redated, settled>>
      /\ invoices' = [invoices EXCEPT ![z] = Append(invoices[z], X)]
      /\ Awaits(c) => Goto(c.by, "record", TRUE) \/ Goto(c.by, "recover", FALSE)
      /\ ~Awaits(c) => UNCHANGED posting
  BY DEF Arrive
<1>3. GoesOn /\ DatesStay /\ UNCHANGED shift
  BY <1>2, VarsParts
<1>4. /\ invoices[z] \in Seq(Invoice)
      /\ invoices'[z] = Append(invoices[z], X) /\ invoices'[z] # <<>>
      /\ Len(invoices'[z]) = Len(invoices[z]) + 1
      /\ \A s \in Shifts \ {z} : invoices'[s] = invoices[s]
      /\ invoices' \in [Shifts -> Seq(Invoice)]
  <2> DEFINE longer == Append(invoices[z], X)
  <2>1. /\ invoices[z] \in Seq(Invoice) /\ longer \in Seq(Invoice)
        /\ Len(longer) = Len(invoices[z]) + 1 /\ longer # <<>>
    BY <1>1
  <2>2. invoices' = [invoices EXCEPT ![z] = longer]
    BY <1>2
  <2> HIDE DEF longer
  <2>3. invoices'[z] = longer /\ \A s \in Shifts \ {z} : invoices'[s] = invoices[s]
    BY <1>1, <2>2
  <2>4. invoices' \in [Shifts -> Seq(Invoice)]
    BY <1>1, <2>1, <2>2
  <2> QED BY <2>1, <2>3, <2>4 DEF longer
<1>5. \A i \in DOMAIN invoices'[z] :
        \/ i \in DOMAIN invoices[z] /\ invoices'[z][i] = invoices[z][i]
        \/ i = Len(invoices[z]) + 1 /\ invoices'[z][i] = X
  BY <1>4
<1>6. \A i \in DOMAIN invoices[z] :
        i \in DOMAIN invoices'[z] /\ invoices'[z][i] = invoices[z][i]
  BY <1>4
<1>7. Noting /\ InvoicesRemain
  BY <1>2, <1>3, <1>4 DEF Noting, Settling, Dating, DatesStay, InvoicesRemain, DInv, DayTypes
<1>8. ASSUME NEW at \in {"record", "recover"}, NEW ok \in BOOLEAN, Awaits(c),
             Goto(c.by, at, ok)
      PROVE  /\ posting' \in [Posters -> PostRow]
             /\ \A j \in Posters \ {c.by} : posting'[j] = posting[j]
             /\ PostOk(posting[c.by])'
  <2> SUFFICES ASSUME NEW k \in Posters, k = c.by
               PROVE  /\ posting' \in [Posters -> PostRow]
                      /\ \A j \in Posters \ {k} : posting'[j] = posting[j]
                      /\ PostOk(posting[k])'
    BY <1>8, WaitingPoster
  <2> DEFINE r == [posting[k] EXCEPT !.at = at, !.ok = ok]
  <2>1. posting[k] \in PostRow /\ PostOk(posting[k]) /\ posting[k].at = "await"
        /\ posting[k].shift = z
    BY <1>8, WaitingPoster DEF DInv, DayTypes
  <2>2. r \in PostRow /\ r.at = at /\ r.shift = z /\ r.day = posting[k].day
    BY <2>1 DEF PostRow
  <2>3. posting' = [posting EXCEPT ![k] = r]
    BY <1>8, <2>1 DEF Goto, DInv, DayTypes
  <2> HIDE DEF r
  <2>4. posting' \in [Posters -> PostRow] /\ posting'[k] = r
        /\ \A j \in Posters \ {k} : posting'[j] = posting[j]
    BY <2>2, <2>3 DEF DInv, DayTypes
  <2>5. PostOk(posting[k])'
    BY <1>2, <1>3, <1>4, <2>1, <2>2, <2>4 DEF PostOk, IsClosed, Dated
  <2> QED BY <2>4, <2>5
<1>9. posting' \in [Posters -> PostRow]
  BY <1>2, <1>8 DEF DInv, DayTypes
<1>10. ASSUME NEW j \in Posters PROVE PostOk(posting[j])'
  <2>1. posting'[j] = posting[j] \/ (Awaits(c) /\ j = c.by)
    BY <1>2, <1>8
  <2>2. CASE posting'[j] = posting[j]
    BY <1>3, <1>7, <2>2, PostingStays
  <2>3. CASE Awaits(c) /\ j = c.by
    BY <1>2, <1>8, <2>3
  <2> QED BY <2>1, <2>2, <2>3
<1>11. DayTypes'
  BY <1>2, <1>4, <1>9 DEF DInv, DayTypes
<1>12. \A d \in sent' : CallOk(d)'
  BY <1>2, <1>3, <1>7, CallsStay
<1>13. ASSUME NEW s \in Shifts PROVE InvoicesOk(s)'
  <2>1. ASSUME NEW i \in DOMAIN invoices'[s]
        PROVE  Carries(s, invoices[s][i].sales)' /\ Dated(s, invoices[s][i].day)'
    <3>1. CASE i \in DOMAIN invoices[s] /\ invoices'[s][i] = invoices[s][i]
      BY <1>3, <1>7, <3>1, InvoicesStay
         DEF StillCarries, StillDated, Carries, Dated, Final, IsClosed
    <3>2. CASE s = z /\ invoices'[s][i] = X
      <4>1. CallOk(c)'
        BY <1>3, <1>7, CallsStay
      <4>2. invoices'[s][i].sales = c.sales /\ invoices'[s][i].day = c.day
        BY <3>2
      <4> QED BY <3>2, <4>1, <4>2 DEF CallOk
    <3>3. s = z \/ invoices'[s] = invoices[s]
      BY <1>4
    <3>4. s = z => (i \in DOMAIN invoices[s] /\ invoices'[s][i] = invoices[s][i])
                   \/ invoices'[s][i] = X
      BY <1>5
    <3> QED BY <3>1, <3>2, <3>3, <3>4
  <2> QED BY <1>2, <1>7, <2>1 DEF InvoicesOk, InvoicesRemain, DInv
<1>14. ASSUME NEW s \in Shifts, NEW e \in Days PROVE Once(s, e)'
  <2>1. Once(s, e) /\ raced' = raced
    BY <1>2 DEF DInv
  <2>2. CASE s = z /\ e = c.day
    <3>1. <<s, e>> \notin raced => Numbered(s, e) = {} /\ Calling(s, e) = {c}
      BY <2>1, <2>2 DEF Once, Calling
    <3>2. Calling(s, e)' = Calling(s, e) \ {c}
      BY <1>2 DEF Calling
    <3>3. ASSUME Numbered(s, e) = {}, NEW i \in Numbered(s, e)'
          PROVE  i = Len(invoices[z]) + 1
      <4>1. i \in DOMAIN invoices'[z] /\ invoices'[z][i].day = e
        BY <2>2, <3>3 DEF Numbered
      <4>2. i \in DOMAIN invoices[z] => invoices[z][i].day # e
        BY <2>2, <3>3 DEF Numbered
      <4> QED BY <1>5, <4>1, <4>2
    <3>4. Numbered(s, e) = {} => \A i, j \in Numbered(s, e)' : i = j
      BY <3>3
    <3> QED BY <2>1, <3>1, <3>2, <3>4 DEF Once
  <2>3. CASE ~(s = z /\ e = c.day)
    <3>1. Calling(s, e)' = Calling(s, e)
      BY <1>2, <2>3 DEF Calling
    <3>2. ASSUME NEW i \in Numbered(s, e)' PROVE i \in Numbered(s, e)
      <4>1. CASE s # z
        BY <1>4, <3>2, <4>1 DEF Numbered
      <4>2. CASE s = z /\ e # c.day
        <5>1. X.day # e
          BY <4>2
        <5>2. i \in DOMAIN invoices'[z] /\ invoices'[z][i].day = e
          BY <3>2, <4>2 DEF Numbered
        <5> QED BY <1>5, <4>2, <5>1, <5>2 DEF Numbered
      <4> QED BY <2>3, <4>1, <4>2
    <3> QED BY <2>1, <3>1, <3>2 DEF Once
  <2> QED BY <2>2, <2>3
<1> QED BY <1>3, <1>7, <1>10, <1>11, <1>12, <1>13, <1>14, DayFrame DEF DInv

LEMMA TimesOutKeeps ==
  ASSUME IInv, DInv, NEW c \in sent, TimesOut(c)
  PROVE  DInv'
BY WaitingPoster, JobsSame, GotoKeeps DEF TimesOut

LEMMA PostStepKeeps ==
  ASSUME IInv, DInv, NEW k \in Posters, PostSteps(k)
  PROVE  DInv'
<1>1. posting[k] \in PostRow /\ PostOk(posting[k]) /\ posting[k].ok \in BOOLEAN
  BY DEF DInv, DayTypes, PostRow
<1>2. CASE Export(k)
  BY <1>2, ExportKeeps
<1>3. CASE ExportFails(k) \/ AwaitReview(k)
  BY <1>3, JobsSame, RestKeeps DEF ExportFails, AwaitReview
<1>4. CASE Prepare(k)
  BY <1>4, PrepareKeeps
<1>5. CASE RecordOutcome(k)
  <2>1. posting[k].ok => invoices[posting[k].shift] # <<>>
    BY <1>1, <1>5 DEF RecordOutcome, PostOk
  <2>2. JobsHold
    BY <1>5, <2>1, JobSet DEF RecordOutcome
  <2> QED BY <1>5, <2>2, RestKeeps DEF RecordOutcome
<1>0. /\ posting[k].at # "idle" => invoices \in [Shifts -> Seq(Invoice)]
                                    /\ posting[k].shift \in Shifts
      /\ posting[k].at # "idle" /\ IsPosted(k) => invoices[posting[k].shift] # <<>>
  BY <1>1 DEF DInv, DayTypes, PostOk, IsPosted
<1>6. CASE FindsIt(k)
  BY <1>0, <1>6, JobsSame, GotoKeeps DEF FindsIt
<1>7. CASE PostUnlessFound(k)
  BY <1>7, PostUnlessFoundKeeps
<1>8. CASE FindFails(k)
  BY <1>8, JobsSame, GotoKeeps DEF FindFails
<1>9. CASE Recover(k)
  <2>1. IsPosted(k) \in BOOLEAN
    BY DEF IsPosted
  <2> QED BY <1>0, <1>9, <2>1, JobsSame, GotoKeeps DEF Recover
<1> QED BY <1>2, <1>3, <1>4, <1>5, <1>6, <1>7, <1>8, <1>9 DEF PostSteps

LEMMA RestartKeeps ==
  ASSUME IInv, DInv, GoesOn, DatesStay, Restart
  PROVE  DInv'
<1>1. Resting \in PostRow /\ Resting.at = "idle"
  BY BoundDomain DEF Resting, PostRow, Days
<1>2. /\ posting' = [k \in Posters |-> Resting]
      /\ UNCHANGED <<job, sent, invoices, raced, redated, settled>>
  BY DEF Restart
<1>3. \A k \in Posters : PostOk(posting[k])'
  BY <1>1, <1>2 DEF PostOk
<1>4. Noting /\ DayTypes'
  BY <1>1, <1>2 DEF Noting, Settling, Dating, DatesStay, DInv, DayTypes
<1> QED BY <1>2, <1>3, <1>4, PostingKeeps

\* A step of the digest leaves the shifts alone; any other is one of theirs.
LEMMA DayStep == DayNext => [Next]_vars
<1> SUFFICES ASSUME DayNext PROVE [Next]_vars
  OBVIOUS
<1>1. CASE \E c \in Closers : ManagerCloses(c)
  BY <1>1 DEF ManagerCloses, Next, Closing, CloseSteps
<1>2. CASE \E w \in Sweeps :
        SchedulerCloses(w) \/ \E s \in Shifts, day \in Days : SchedulerVisits(w, s, day)
  BY <1>2 DEF SchedulerCloses, SchedulerVisits, Next, Closing, SweepSteps
<1>3. CASE \E k \in Posters : PostSteps(k)
  BY <1>3 DEF PostSteps, Export, ExportFails, AwaitReview, Prepare, RecordOutcome, FindsIt,
              PostUnlessFound, SendInvoice, FindFails, Recover
<1>4. CASE \E c \in sent : Arrive(c) \/ Refuse(c) \/ TimesOut(c)
  BY <1>4 DEF Arrive, Refuse, TimesOut
<1>5. CASE (Opening \/ Selling \/ Moving \/ Calendar)
           \/ (\E c \in Closers, s \in Shifts, ack \in BOOLEAN : CloseBegin(c, s, ack))
           \/ Crash
  BY <1>5 DEF Next, Closing
<1> QED BY <1>1, <1>2, <1>3, <1>4, <1>5 DEF DayNext, Restart

\* Only the closing updates write dates.
LEMMA DatesKept ==
  ASSUME IInv,
         \/ Opening \/ Selling \/ Moving \/ Calendar \/ Crash
         \/ \E c \in Closers :
              \/ CloseCheck(c) \/ CloseAudit(c) \/ CloseFails(c)
              \/ \E s \in Shifts, ack \in BOOLEAN : CloseBegin(c, s, ack)
         \/ \E w \in Sweeps :
              \/ SweepCheck(w) \/ SweepAudit(w) \/ SweepFails(w)
              \/ \E s \in Shifts, day \in Days : SweepBegin(w, s, day)
  PROVE  DatesStay
<1>1. /\ shift \in [Shifts -> ShiftRow]
      /\ \A k \in Correctors : corrector[k].at = "update" => corrector[k].shift \in Shifts
  BY DEF IInv, RowsOk, RowTypes, RequestsOk, CorrectorOk, Exists
<1>2. CASE shift' = shift
  BY <1>2 DEF DatesStay
<1>3. CASE Selling
  BY <1>2, <1>3, SellingApart DEF Books
<1>4. CASE Calendar
  <2>1. ASSUME NEW s \in Shifts, Midnight(s) PROVE DatesStay
    BY <1>1, <2>1 DEF Midnight, DatesStay, ShiftRow
  <2> QED BY <1>2, <1>4, <2>1 DEF Calendar, NextDay
<1>5. CASE Opening
  <2>1. ASSUME NEW o \in Openers, NEW s \in Shifts, NEW f \in Floats, OpenCreate(o, s, f)
        PROVE  DatesStay
    BY <1>1, <2>1 DEF OpenCreate, DatesStay, ShiftRow
  <2> QED BY <1>2, <1>5, <2>1 DEF Opening, OpenCheck
<1>6. CASE Moving
  <2>1. ASSUME NEW k \in Correctors, NEW f \in Floats, CorrectFloatUpdate(k, f)
        PROVE  DatesStay
    BY <1>1, <2>1 DEF CorrectFloatUpdate, DatesStay, ShiftRow
  <2> QED BY <1>2, <1>6, <2>1 DEF Moving, MovementBegin, MovementCheck, MovementCreate,
                                  CorrectFloatBegin
<1>7. CASE Crash
  BY <1>2, <1>7 DEF Crash
<1> QED BY <1>2, <1>3, <1>4, <1>5, <1>6, <1>7
        DEF CloseCheck, CloseAudit, CloseFails, CloseBegin, SweepCheck, SweepAudit, SweepFails,
            SweepBegin

LEMMA DayStepKeeps == IInv /\ DInv /\ [DayNext]_dayVars => IInv' /\ DInv'
<1> SUFFICES ASSUME IInv, DInv, [DayNext]_dayVars PROVE IInv' /\ DInv'
  OBVIOUS
<1>1. IInv' /\ GoesOn
  BY DayStep, StepKeeps DEF dayVars, Kept
<1>2. /\ shift \in [Shifts -> ShiftRow]
      /\ \A c \in Closers : closer[c].at \in {"update", "audit"} => closer[c].shift \in Shifts
      /\ \A c \in Closers : closer[c].at = "audit" => IsClosed(closer[c].shift)
      /\ \A w \in Sweeps : sweep[w].at \in {"update", "audit"} => sweep[w].shift \in Shifts
      /\ \A w \in Sweeps : sweep[w].at = "audit" => IsClosed(sweep[w].shift)
  BY DEF IInv, RowsOk, RowTypes, RequestsOk, CloseOk, SweepOk, Exists
<1>3. ASSUME NEW c \in Closers, ManagerCloses(c) PROVE DInv'
  <2>1. CASE CloseUpdate(c) /\ MarkSettled(closer[c].shift)
             /\ UNCHANGED <<posting, job, sent, invoices, raced>>
    <3>1. \A z \in Shifts \ {closer[c].shift} : shift'[z].closedOn = shift[z].closedOn
      BY <1>2, <2>1 DEF CloseUpdate
    <3>2. closer[c].shift \in Shifts
      BY <1>2, <2>1 DEF CloseUpdate
    <3> QED BY <1>1, <2>1, <3>1, <3>2, SettlingKeeps
  <2>2. CASE CloseAudit(c) /\ BeginPosting(c, closer[c].shift)
    <3>1. closer[c].shift \in Shifts /\ IsClosed(closer[c].shift)
      BY <1>2, <2>2 DEF CloseAudit
    <3>2. DatesStay
      BY <2>2, DatesKept
    <3> QED BY <1>1, <2>2, <3>1, <3>2, BeginPostingKeeps DEF Posters
  <2>3. CASE (CloseCheck(c) \/ CloseFails(c)) /\ UNCHANGED postVars
    BY <1>1, <2>3, DatesKept, ShiftStepKeeps
  <2> QED BY <1>3, <2>1, <2>2, <2>3 DEF ManagerCloses
<1>4. ASSUME NEW w \in Sweeps, SchedulerCloses(w) PROVE DInv'
  <2>1. CASE SweepUpdate(w) /\ MarkSettled(sweep[w].shift)
             /\ UNCHANGED <<posting, job, sent, invoices, raced>>
    <3>1. \A z \in Shifts \ {sweep[w].shift} : shift'[z].closedOn = shift[z].closedOn
      BY <1>2, <2>1 DEF SweepUpdate, SweepCloses
    <3>2. sweep[w].shift \in Shifts
      BY <1>2, <2>1 DEF SweepUpdate
    <3> QED BY <1>1, <2>1, <3>1, <3>2, SettlingKeeps
  <2>2. CASE SweepAudit(w) /\ BeginPosting(w, sweep[w].shift)
    <3>1. sweep[w].shift \in Shifts /\ IsClosed(sweep[w].shift)
      BY <1>2, <2>2 DEF SweepAudit
    <3>2. DatesStay
      BY <2>2, DatesKept
    <3> QED BY <1>1, <2>2, <3>1, <3>2, BeginPostingKeeps DEF Posters
  <2>3. CASE (SweepCheck(w) \/ SweepFails(w)) /\ UNCHANGED postVars
    BY <1>1, <2>3, DatesKept, ShiftStepKeeps
  <2> QED BY <1>4, <2>1, <2>2, <2>3 DEF SchedulerCloses
<1>5. CASE Restart
  BY <1>1, <1>5, DatesKept, RestartKeeps DEF Restart
<1>6. ASSUME NEW c \in sent, Arrive(c) \/ Refuse(c) \/ TimesOut(c) PROVE DInv'
  BY <1>6, ArriveKeeps, RefuseKeeps, TimesOutKeeps
<1>7. CASE UNCHANGED dayVars
  <2>1. UNCHANGED vars /\ UNCHANGED postVars
    BY <1>7 DEF dayVars
  <2>2. DatesStay
    BY <2>1, VarsParts
  <2> QED BY <1>1, <2>1, <2>2, ShiftStepKeeps
<1>8. ASSUME NEW k \in Posters, PostSteps(k) PROVE DInv'
  BY <1>8, PostStepKeeps
<1>9. CASE (Opening \/ Selling \/ Moving \/ Calendar) /\ UNCHANGED postVars
  BY <1>1, <1>9, DatesKept, ShiftStepKeeps
<1>10. ASSUME NEW c \in Closers, NEW s \in Shifts, NEW ack \in BOOLEAN,
              CloseBegin(c, s, ack) /\ UNCHANGED postVars
       PROVE  DInv'
  BY <1>1, <1>10, DatesKept, ShiftStepKeeps
<1>11. ASSUME NEW w \in Sweeps, NEW s \in Shifts, NEW day \in Days, SchedulerVisits(w, s, day)
       PROVE  DInv'
  BY <1>1, <1>11, DatesKept, ShiftStepKeeps DEF SchedulerVisits
<1> QED BY <1>1, <1>3, <1>4, <1>5, <1>6, <1>7, <1>8, <1>9, <1>10, <1>11 DEF DayNext

LEMMA DayInductive == DaySpec => [](IInv /\ DInv)
BY DayStart, DayStepKeeps, PTL DEF DaySpec

LEMMA DayConsequences == IInv /\ DInv => InvoicesMissOnlyLateWork /\ InvoicedOnce
<1> SUFFICES ASSUME IInv, DInv PROVE InvoicesMissOnlyLateWork /\ InvoicedOnce
  OBVIOUS
<1>1. InvoicesMissOnlyLateWork
  BY DEF InvoicesMissOnlyLateWork, DInv, InvoicesOk, Carries, Preview, Final
<1>2. ASSUME NEW s \in Shifts, NEW i \in DOMAIN invoices[s], NEW j \in DOMAIN invoices[s], i # j
      PROVE  IF invoices[s][i].day = invoices[s][j].day
             THEN <<s, invoices[s][i].day>> \in raced ELSE s \in redated
  <2>1. invoices[s] \in Seq(Invoice)
    BY DEF DInv, DayTypes
  <2>2. invoices[s][i] \in Invoice
    BY <2>1
  <2>3. invoices[s][i].day = invoices[s][j].day => <<s, invoices[s][i].day>> \in raced
    <3>1. invoices[s][i].day \in Days
      BY <2>2 DEF Invoice
    <3> QED BY <1>2, <3>1 DEF DInv, Once, Numbered
  <2>4. invoices[s][i].day # invoices[s][j].day => s \in redated
    BY DEF DInv, InvoicesOk, Dated
  <2> QED BY <2>3, <2>4
<1> QED BY <1>1, <1>2 DEF InvoicedOnce, DInv, InvoicesOk

\* An invoice carries the shift's sales: it misses only what was in flight at
\* the close and has no more than what was voided since, and there is none
\* when a return was complete at the close.
THEOREM InvoicesAreWhole == DaySpec => []InvoicesMissOnlyLateWork
BY DayInductive, DayConsequences, PTL

\* A shift has one invoice unless calls to create raced or an overlapping close
\* has dated it anew, and a job that SUCCEEDED has one.
THEOREM OneInvoicePerNumber == DaySpec => []InvoicedOnce
BY DayInductive, DayConsequences, PTL

\* With the digests, the shifts still do only what they do without: what is
\* proved of their rows holds of the composition.
THEOREM DigestsRefineShifts == DaySpec => Spec
<1>1. DayInit => Init
  BY DEF DayInit
<1>2. [DayNext]_dayVars => [Next]_vars
  BY DayStep DEF dayVars
<1> QED BY <1>1, <1>2, PTL DEF DaySpec, Spec
=============================================================================

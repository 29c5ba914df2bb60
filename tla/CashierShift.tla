---------------------------- MODULE CashierShift ----------------------------
(***************************************************************************)
(* The shifts of one register: opening, cash movements, checkout and cash  *)
(* refunds in a shift, closing by a manager and closing by the scheduler.  *)
(*                                                                         *)
(* Checkouts, refunds and voids are serializable transactions.  The shift  *)
(* handlers are not transactions at all: each is a run of single           *)
(* statements, and every await between two of them lets other requests in. *)
(* PostgreSQL tracks conflicts among serializable transactions only, so a  *)
(* checkout whose snapshot shows its shift open commits even when a plain  *)
(* UPDATE has closed the shift meanwhile.                                  *)
(*                                                                         *)
(* A request is a process that runs its handler once; the scheduler runs   *)
(* again every minute.  A refused request changes nothing and is the       *)
(* absence of a step.  A statement of a close may fail, and the server may *)
(* restart.  Amounts are cash, in the smallest unit of a run; days are     *)
(* those of UTC, which the dates of closes are cut from.                   *)
(***************************************************************************)
EXTENDS QuantitySums

CONSTANTS
  Shifts,      \* shifts that may be created on the register
  MaxSales,    \* bound on the checkouts
  Openers, Movers, Correctors, Closers,  \* requests of each kind
  Sweeps,      \* passes of the scheduler that may overlap
  Amounts,     \* net cash a sale may take in, and amounts of movements
  Changes,     \* change a sale may give
  Floats,      \* opening floats
  RunShort,    \* whether a sale may run short of stock: a set of Booleans
  MaxDay,      \* bound on the days
  MaxFaults    \* bound on restarts of the server and failing statements

ASSUME SalesBound    == MaxSales \in Nat
ASSUME AmountDomain  == Amounts \subseteq Nat /\ Changes \subseteq Nat
ASSUME FloatDomain   == Floats \subseteq Nat
ASSUME ShortDomain   == RunShort \subseteq BOOLEAN
ASSUME BoundDomain   == MaxDay \in Nat /\ MaxFaults \in Nat

Sales == 1 .. MaxSales
Days  == 0 .. MaxDay

None  == "none"
Never == -1

ASSUME NoneIsNobody == None \notin Shifts \cup Closers \cup Sweeps

ASSUME ClosersDiffer == Closers \cap Sweeps = {}

VARIABLES
  shift,     \* shift[s]: the Shift row; closedOn is the day of closedAt
  audit,     \* audit[s]: whose close records of s are there, whose SHIFT_CLOSED
             \* record is the latest and whether it acknowledges shortages
  sale,      \* sale[x]: a checkout, in flight or committed
  refund,    \* refund[x]: the shift that refunds sale x in cash, and how far
  moved,     \* moved[s]: CASH_IN less CASH_OUT of the CashMovement rows of s
  opener, mover, corrector, closer, sweep,  \* requests in progress
  today,
  faults,
  drawer,    \* history: cash that has come into the drawer for shift s
  back,      \* history: what voids, refunds and corrections took out of it
  rushed,    \* history: shifts with a CASH_OUT row made while another was checked
  crowded,   \* history: an opening looked while another was about to create
  reviewed   \* history: the sales that the latest close of s could look at

requests == <<opener, mover, corrector, closer, sweep>>
trade    == <<sale, refund>>
clock    == <<today, faults>>
cash     == <<moved, drawer, back, rushed>>
closes   == <<audit, reviewed>>
vars     == <<shift, closes, trade, cash, requests, clock, crowded>>

NoSale == [status |-> "NONE", shift |-> None, amount |-> 0, change |-> 0, short |-> FALSE]
Idle   == [at |-> "idle", shift |-> None, amount |-> 0, ack |-> FALSE, seen |-> {}, day |-> 0]
Gone   == [Idle EXCEPT !.at = "done"]

IsOpen(s)   == shift[s].status = "OPEN"
IsClosed(s) == shift[s].status = "CLOSED"
Expired(s)  == shift[s].expiredOn # Never

\* Committed sales of a shift with status COMPLETED.
SalesOf(s) == {x \in Sales : sale[x].status = "COMPLETED" /\ sale[x].shift = s}

\* STOCK_SHORTAGE_SOLD records of the completed sales of a shift.
StockShortagesForShift(s) == {x \in SalesOf(s) : sale[x].short}

-----------------------------------------------------------------------------
(* The drawer.                                                             *)

CashOf(s)   == SumOf([x \in Sales |-> IF x \in SalesOf(s) THEN sale[x].amount ELSE 0], MaxSales)
ChangeOf(s) == SumOf([x \in Sales |-> IF x \in SalesOf(s) THEN sale[x].change ELSE 0], MaxSales)

RefundsOf(s) ==
  SumOf([x \in Sales |-> IF refund[x] = [at |-> "done", shift |-> s]
                         THEN sale[x].amount ELSE 0], MaxSales)

\* Mutant: refunds are left out.
ExpectedCashWithoutRefunds(s) == shift[s].opening + CashOf(s) - ChangeOf(s) + moved[s]

\* reconcileCash of summary: Payment.amount is already net of change.
ExpectedCash(s) ==
  shift[s].opening + (CashOf(s) - ChangeOf(s)) - RefundsOf(s) + moved[s]

-----------------------------------------------------------------------------
Init ==
  /\ shift = [s \in Shifts |-> [status |-> "NONE", opening |-> 0, expiredOn |-> Never,
                                closedBy |-> None, closedOn |-> 0]]
  /\ audit = [s \in Shifts |-> [by |-> {}, latest |-> None, ack |-> FALSE]]
  /\ sale = [x \in Sales |-> NoSale]
  /\ refund = [x \in Sales |-> [at |-> "none", shift |-> None]]
  /\ moved = [s \in Shifts |-> 0]
  /\ opener = [o \in Openers |-> Idle]
  /\ mover = [m \in Movers |-> Idle]
  /\ corrector = [k \in Correctors |-> Idle]
  /\ closer = [c \in Closers |-> Idle]
  /\ sweep = [w \in Sweeps |-> Idle]
  /\ today = 0
  /\ faults = 0
  /\ drawer = [s \in Shifts |-> 0]
  /\ back = [s \in Shifts |-> 0]
  /\ rushed = {}
  /\ crowded = FALSE
  /\ reviewed = [s \in Shifts |-> {}]

\* Opening looks for an open shift of the register, then creates one.
OpenCheck(o) ==
  /\ opener[o] = Idle
  /\ \A s \in Shifts : ~IsOpen(s)
  /\ opener' = [opener EXCEPT ![o].at = "create"]
  /\ crowded' = (crowded \/ \E p \in Openers : opener[p].at = "create")
  /\ UNCHANGED <<shift, closes, trade, cash, mover, corrector, closer, sweep, clock>>

OpenCreate(o, s, opening) ==
  /\ opener[o].at = "create"
  /\ shift[s].status = "NONE"
  /\ shift' = [shift EXCEPT ![s].status = "OPEN", ![s].opening = opening]
  /\ drawer' = [drawer EXCEPT ![s] = opening]
  /\ opener' = [opener EXCEPT ![o] = Gone]
  /\ UNCHANGED <<closes, trade, moved, back, rushed, mover, corrector, closer, sweep, clock,
                 crowded>>

-----------------------------------------------------------------------------
\* The snapshot of a checkout's transaction shows the shift open.
CheckoutBegin(x, s) ==
  /\ sale[x] = NoSale
  /\ IsOpen(s)
  /\ sale' = [sale EXCEPT ![x] = [NoSale EXCEPT !.status = "BEGUN", !.shift = s]]
  /\ UNCHANGED <<shift, closes, refund, cash, requests, clock, crowded>>

CheckoutCommit(x, amount, change, short) ==
  /\ sale[x].status = "BEGUN"
  /\ sale' = [sale EXCEPT ![x].status = "COMPLETED", ![x].amount = amount,
                          ![x].change = change, ![x].short = short]
  /\ drawer' = [drawer EXCEPT ![sale[x].shift] = @ + amount]
  /\ UNCHANGED <<shift, closes, refund, moved, back, rushed, requests, clock, crowded>>

\* The transaction fails, of itself or by a serialization conflict.
CheckoutAbort(x) ==
  /\ sale[x].status = "BEGUN"
  /\ sale' = [sale EXCEPT ![x] = NoSale]
  /\ UNCHANGED <<shift, closes, refund, cash, requests, clock, crowded>>

\* Cash that leaves the drawer for shift s again, or was never in it.
HandBack(s, amount) ==
  /\ drawer' = [drawer EXCEPT ![s] = @ - amount]
  /\ back' = [back EXCEPT ![s] = IF amount > 0 THEN @ + amount ELSE @]

\* A void is refused once the sale has a return.  The cash goes back, though
\* the shift may be closed by now.
VoidReceipt(x) ==
  /\ sale[x].status = "COMPLETED"
  /\ refund[x].at # "done"
  /\ sale' = [sale EXCEPT ![x].status = "VOIDED"]
  /\ HandBack(sale[x].shift, sale[x].amount)
  /\ UNCHANGED <<shift, closes, refund, moved, rushed, requests, clock, crowded>>

\* A cash refund belongs to the open shift of whoever processes it.  It
\* conflicts with a void of the same sale, as both are serializable.
RefundBegin(x, s) ==
  /\ sale[x].status = "COMPLETED"
  /\ refund[x].at = "none"
  /\ IsOpen(s)
  /\ refund' = [refund EXCEPT ![x] = [at |-> "begun", shift |-> s]]
  /\ UNCHANGED <<shift, closes, sale, cash, requests, clock, crowded>>

RefundAbort(x) ==
  /\ refund[x].at = "begun"
  /\ refund' = [refund EXCEPT ![x] = [at |-> "none", shift |-> None]]
  /\ UNCHANGED <<shift, closes, sale, cash, requests, clock, crowded>>

RefundCommit(x) ==
  /\ refund[x].at = "begun"
  /\ sale[x].status = "COMPLETED"
  /\ refund' = [refund EXCEPT ![x].at = "done"]
  /\ HandBack(refund[x].shift, sale[x].amount)
  /\ UNCHANGED <<shift, closes, sale, moved, rushed, requests, clock, crowded>>

-----------------------------------------------------------------------------
\* Mutant: a CASH_OUT is not checked.
MovementBeginUnchecked(m, s, amount) ==
  /\ mover[m] = Idle
  /\ IsOpen(s)
  /\ mover' = [mover EXCEPT ![m] = [Idle EXCEPT !.shift = s, !.amount = amount,
                                                !.at = "create"]]
  /\ UNCHANGED <<shift, closes, trade, cash, opener, corrector, closer, sweep, clock, crowded>>

\* A movement finds its shift open; a CASH_OUT then reads the summary and is
\* checked against it; the row is created last, whatever has happened since.
MovementBegin(m, s, amount) ==
  /\ mover[m] = Idle
  /\ IsOpen(s)
  /\ mover' = [mover EXCEPT ![m] = [Idle EXCEPT !.shift = s, !.amount = amount,
                 !.at = IF amount < 0 THEN "check" ELSE "create"]]
  /\ UNCHANGED <<shift, closes, trade, cash, opener, corrector, closer, sweep, clock, crowded>>

MovementCheck(m) ==
  /\ mover[m].at = "check"
  /\ -mover[m].amount <= ExpectedCash(mover[m].shift)
  /\ mover' = [mover EXCEPT ![m].at = "create"]
  /\ UNCHANGED <<shift, closes, trade, cash, opener, corrector, closer, sweep, clock, crowded>>

\* CASH_OUTs of s that have been checked and are still to be recorded.
CashOutsDue(s) ==
  {m \in Movers : mover[m].at = "create" /\ mover[m].shift = s /\ mover[m].amount < 0}

MovementCreate(m) ==
  LET s == mover[m].shift
  IN  /\ mover[m].at = "create"
      /\ moved' = [moved EXCEPT ![s] = @ + mover[m].amount]
      /\ drawer' = [drawer EXCEPT ![s] = @ + mover[m].amount]
      /\ rushed' = IF m \in CashOutsDue(s) /\ CashOutsDue(s) # {m} THEN rushed \cup {s} ELSE rushed
      /\ mover' = [mover EXCEPT ![m] = Gone]
      /\ UNCHANGED <<shift, closes, trade, back, opener, corrector, closer, sweep, clock,
                     crowded>>

\* A correction reads an open shift, then updates it by its key alone.
CorrectFloatBegin(k, s) ==
  /\ corrector[k] = Idle
  /\ IsOpen(s)
  /\ corrector' = [corrector EXCEPT ![k] = [Idle EXCEPT !.at = "update", !.shift = s,
                                                        !.amount = shift[s].opening]]
  /\ UNCHANGED <<shift, closes, trade, cash, opener, mover, closer, sweep, clock, crowded>>

CorrectFloatUpdate(k, opening) ==
  LET s == corrector[k].shift
  IN  /\ corrector[k].at = "update"
      /\ opening # corrector[k].amount
      /\ shift' = [shift EXCEPT ![s].opening = opening]
      /\ HandBack(s, shift[s].opening - opening)
      /\ corrector' = [corrector EXCEPT ![k] = Gone]
      /\ UNCHANGED <<closes, trade, moved, rushed, opener, mover, closer, sweep, clock,
                     crowded>>

-----------------------------------------------------------------------------
(* Closing by a manager: find the shift open, read its shortages, update it *)
(* by its key alone, then write the audit record.                          *)

CloseBegin(c, s, ack) ==
  /\ closer[c] = Idle
  /\ IsOpen(s)
  /\ closer' = [closer EXCEPT ![c] = [Idle EXCEPT !.at = "check", !.shift = s, !.ack = ack]]
  /\ UNCHANGED <<shift, closes, trade, cash, opener, mover, corrector, sweep, clock, crowded>>

\* closedAt is taken when the shortages are there. "seen" is a history of the
\* sales that the query could show.
CloseCheck(c) ==
  LET s == closer[c].shift
  IN  /\ closer[c].at = "check"
      /\ StockShortagesForShift(s) # {} => closer[c].ack
      /\ closer' = [closer EXCEPT ![c].at = "update", ![c].seen = SalesOf(s), ![c].day = today]
      /\ UNCHANGED <<shift, closes, trade, cash, opener, mover, corrector, sweep, clock,
                     crowded>>

\* What closing does to the row.
ClosedRow(row, who, day) ==
  [row EXCEPT !.status = "CLOSED", !.closedBy = who, !.closedOn = day]

CloseUpdate(c) ==
  LET s == closer[c].shift
  IN  /\ closer[c].at = "update"
      /\ shift' = [shift EXCEPT ![s] = ClosedRow(@, c, closer[c].day)]
      /\ reviewed' = [reviewed EXCEPT ![s] = closer[c].seen]
      /\ closer' = [closer EXCEPT ![c].at = "audit"]
      /\ UNCHANGED <<audit, trade, cash, opener, mover, corrector, sweep, clock, crowded>>

\* The SHIFT_CLOSED record alone holds the acknowledgement.
CloseAudit(c) ==
  LET s == closer[c].shift
  IN  /\ closer[c].at = "audit"
      /\ audit' = [audit EXCEPT ![s] = [by |-> @.by \cup {c}, latest |-> c,
                                        ack |-> closer[c].ack]]
      /\ closer' = [closer EXCEPT ![c] = Gone]
      /\ UNCHANGED <<shift, reviewed, trade, cash, opener, mover, corrector, sweep, clock,
                     crowded>>

Fault == faults < MaxFaults /\ faults' = faults + 1

\* A statement fails, and the request ends there.
CloseFails(c) ==
  /\ closer[c].at \in {"check", "update", "audit"}
  /\ closer' = [closer EXCEPT ![c] = Gone]
  /\ Fault
  /\ UNCHANGED <<shift, closes, trade, cash, opener, mover, corrector, sweep, today, crowded>>

-----------------------------------------------------------------------------
(* Closing by the scheduler, after local midnight.                         *)

\* Midnight where the shop is, and in UTC, which are not the same.
Midnight(s) ==
  /\ IsOpen(s)
  /\ ~Expired(s)
  /\ shift' = [shift EXCEPT ![s].expiredOn = today]
  /\ UNCHANGED <<closes, trade, cash, requests, clock, crowded>>

NextDay ==
  /\ today < MaxDay
  /\ today' = today + 1
  /\ UNCHANGED <<shift, closes, trade, cash, requests, faults, crowded>>

\* Mutant: a shift once found short is passed over for good.
SweepBeginUnlessEverShort(w, s, day) ==
  /\ sweep[w] = Idle
  /\ IsOpen(s)
  /\ Expired(s) /\ day \in shift[s].expiredOn .. today
  /\ \A x \in Sales : ~(sale[x].shift = s /\ sale[x].short)
  /\ sweep' = [sweep EXCEPT ![w] = [Idle EXCEPT !.at = "check", !.shift = s, !.day = day]]
  /\ UNCHANGED <<shift, closes, trade, cash, opener, mover, corrector, closer, clock, crowded>>

\* A pass goes by the time it began, a day before today perhaps, for what has
\* expired and for the date of its closes.
SweepBegin(w, s, day) ==
  /\ sweep[w] = Idle
  /\ IsOpen(s)
  /\ Expired(s) /\ day \in shift[s].expiredOn .. today
  /\ sweep' = [sweep EXCEPT ![w] = [Idle EXCEPT !.at = "check", !.shift = s, !.day = day]]
  /\ UNCHANGED <<shift, closes, trade, cash, opener, mover, corrector, closer, clock, crowded>>

\* Mutant: shortages do not keep the shift open.
SweepCheckIgnoringShortages(w) ==
  /\ sweep[w].at = "check"
  /\ sweep' = [sweep EXCEPT ![w].at = "update", ![w].seen = SalesOf(sweep[w].shift)]
  /\ UNCHANGED <<shift, closes, trade, cash, opener, mover, corrector, closer, clock, crowded>>

\* A shift with shortages is left to a manager.
SweepCheck(w) ==
  LET s == sweep[w].shift
  IN  /\ sweep[w].at = "check"
      /\ sweep' = [sweep EXCEPT ![w] =
           IF StockShortagesForShift(s) # {} THEN Idle
           ELSE [@ EXCEPT !.at = "update", !.seen = SalesOf(s)]]
      /\ UNCHANGED <<shift, closes, trade, cash, opener, mover, corrector, closer, clock,
                     crowded>>

\* The scheduler's close of the row itself.
SweepCloses(w) ==
  LET s == sweep[w].shift
  IN  /\ shift' = [shift EXCEPT ![s] = ClosedRow(@, w, sweep[w].day)]
      /\ reviewed' = [reviewed EXCEPT ![s] = sweep[w].seen]

\* Mutant: the update does not ask that the shift is still open.
SweepUpdateByKey(w) ==
  /\ sweep[w].at = "update"
  /\ SweepCloses(w)
  /\ sweep' = [sweep EXCEPT ![w].at = "audit"]
  /\ UNCHANGED <<audit, trade, cash, opener, mover, corrector, closer, clock, crowded>>

\* Mutant: the pass goes on to the next shift without the audit record.
SweepUpdateUnrecorded(w) ==
  /\ sweep[w].at = "update"
  /\ IF IsOpen(sweep[w].shift) THEN SweepCloses(w) ELSE UNCHANGED <<shift, reviewed>>
  /\ sweep' = [sweep EXCEPT ![w] = Idle]
  /\ UNCHANGED <<audit, trade, cash, opener, mover, corrector, closer, clock, crowded>>

\* updateMany with closedAt null: a shift closed meanwhile is passed over.
SweepUpdate(w) ==
  /\ sweep[w].at = "update"
  /\ IF IsOpen(sweep[w].shift)
     THEN SweepCloses(w) /\ sweep' = [sweep EXCEPT ![w].at = "audit"]
     ELSE UNCHANGED <<shift, reviewed>> /\ sweep' = [sweep EXCEPT ![w] = Idle]
  /\ UNCHANGED <<audit, trade, cash, opener, mover, corrector, closer, clock, crowded>>

\* The SHIFT_AUTO_CLOSED record has no acknowledgement, and nobody looks for one.
SweepAudit(w) ==
  /\ sweep[w].at = "audit"
  /\ audit' = [audit EXCEPT ![sweep[w].shift].by = @ \cup {w}]
  /\ sweep' = [sweep EXCEPT ![w] = Idle]
  /\ UNCHANGED <<shift, reviewed, trade, cash, opener, mover, corrector, closer, clock,
                 crowded>>

\* A statement fails; the error is logged and the pass goes on to other shifts.
SweepFails(w) ==
  /\ sweep[w].at \in {"check", "update", "audit"}
  /\ sweep' = [sweep EXCEPT ![w] = Idle]
  /\ Fault
  /\ UNCHANGED <<shift, closes, trade, cash, opener, mover, corrector, closer, today, crowded>>

\* The server restarts: transactions in flight roll back, requests in flight
\* are gone with what they have already written left in place.
Crash ==
  /\ Fault
  /\ sale' = [x \in Sales |-> IF sale[x].status = "BEGUN" THEN NoSale ELSE sale[x]]
  /\ refund' = [x \in Sales |-> IF refund[x].at = "begun"
                                THEN [at |-> "none", shift |-> None] ELSE refund[x]]
  /\ opener' = [o \in Openers |-> IF opener[o] = Idle THEN Idle ELSE Gone]
  /\ mover' = [m \in Movers |-> IF mover[m] = Idle THEN Idle ELSE Gone]
  /\ corrector' = [k \in Correctors |-> IF corrector[k] = Idle THEN Idle ELSE Gone]
  /\ closer' = [c \in Closers |-> IF closer[c] = Idle THEN Idle ELSE Gone]
  /\ sweep' = [w \in Sweeps |-> Idle]
  /\ UNCHANGED <<shift, closes, cash, today, crowded>>

Signed == Amounts \cup {-a : a \in Amounts}

Opening ==
  \E o \in Openers : OpenCheck(o) \/ \E s \in Shifts, f \in Floats : OpenCreate(o, s, f)

Selling ==
  \E x \in Sales :
    \/ \E s \in Shifts : CheckoutBegin(x, s) \/ RefundBegin(x, s)
    \/ \E a \in Amounts, c \in Changes, short \in RunShort : CheckoutCommit(x, a, c, short)
    \/ CheckoutAbort(x) \/ VoidReceipt(x) \/ RefundCommit(x) \/ RefundAbort(x)

Moving ==
  \/ \E m \in Movers :
       \/ \E s \in Shifts, a \in Signed : MovementBegin(m, s, a)
       \/ MovementCheck(m) \/ MovementCreate(m)
  \/ \E k \in Correctors :
       \/ \E s \in Shifts : CorrectFloatBegin(k, s)
       \/ \E f \in Floats : CorrectFloatUpdate(k, f)

CloseSteps(c) == CloseCheck(c) \/ CloseUpdate(c) \/ CloseAudit(c)
SweepSteps(w) == SweepCheck(w) \/ SweepUpdate(w) \/ SweepAudit(w)

Closing ==
  \/ \E c \in Closers :
       \/ CloseSteps(c) \/ CloseFails(c)
       \/ \E s \in Shifts, ack \in BOOLEAN : CloseBegin(c, s, ack)
  \/ \E w \in Sweeps :
       \/ SweepSteps(w) \/ SweepFails(w)
       \/ \E s \in Shifts, day \in Days : SweepBegin(w, s, day)

Calendar == NextDay \/ \E s \in Shifts : Midnight(s)

Next == Opening \/ Selling \/ Moving \/ Closing \/ Calendar \/ Crash

Spec == Init /\ [][Next]_vars

\* A request once received runs on, and the scheduler comes back to every
\* shift that stays open: its timer fires every minute and each pass visits
\* all of them, whatever fails at one.
FairSpec ==
  /\ Spec
  /\ \A c \in Closers : WF_vars(CloseSteps(c))
  /\ \A w \in Sweeps :
       /\ WF_vars(SweepSteps(w))
       /\ \A s \in Shifts : SF_vars(\E day \in Days : SweepBegin(w, s, day))

-----------------------------------------------------------------------------
(* Properties.                                                             *)

\* Rows and requests hold values of their types, and a sale, refund or request
\* that is under way names a shift that exists.
TypeOK ==
  /\ \A s \in Shifts :
       /\ shift[s].status \in {"NONE", "OPEN", "CLOSED"}
       /\ shift[s].opening \in Nat
       /\ shift[s].closedBy \in {None} \cup Closers \cup Sweeps
       /\ shift[s].closedOn \in Days
       /\ (shift[s].status = "CLOSED") <=> (shift[s].closedBy # None)
       /\ audit[s].by \subseteq Closers \cup Sweeps /\ reviewed[s] \subseteq Sales
       /\ moved[s] \in Int /\ drawer[s] \in Int /\ back[s] \in Int
  /\ \A x \in Sales :
       /\ sale[x].status \in {"NONE", "BEGUN", "COMPLETED", "VOIDED"}
       /\ sale[x].status # "NONE" => sale[x].shift \in Shifts
       /\ sale[x].amount \in Nat /\ sale[x].change \in Nat
       /\ refund[x].at # "none" => refund[x].shift \in Shifts
  /\ \A m \in Movers : mover[m].at \in {"idle", "check", "create", "done"}
  /\ \A c \in Closers : closer[c].at \in {"idle", "check", "update", "audit", "done"}
  /\ \A w \in Sweeps : sweep[w].at \in {"idle", "check", "update", "audit"}

\* In every interleaving of sales, refunds, voids, movements and corrections
\* the expected cash of a shift is the cash that came into the drawer for it
\* less the change of its completed sales, which the summary takes off amounts
\* that are net of change already.
ExpectedShortByChange ==
  \A s \in Shifts : shift[s].status # "NONE" => ExpectedCash(s) = drawer[s] - ChangeOf(s)

\* A CASH_OUT takes no more than was in the drawer: what is missing from it in
\* the end was handed back by voids, refunds and corrections of the float after
\* the check, or the row was made while another CASH_OUT was checked against
\* the same cash and not yet recorded.
CashOutsAreCovered ==
  \A s \in Shifts : s \notin rushed => drawer[s] + back[s] >= 0

\* The register has one open shift, unless somebody looked for one while the
\* request of another was about to create it.
OneShiftAtATime ==
  ~crowded => \A s, t \in Shifts : IsOpen(s) /\ IsOpen(t) => s = t

\* The close record of the request that closed s last is there and the latest;
\* the close of the scheduler needs none.
RecordStands(s) ==
  shift[s].closedBy \in Sweeps \/ audit[s].latest = shift[s].closedBy

\* A closed shift whose log shows no acknowledgement has no shortage that the
\* manager's request or the scheduler could have seen when it asked. Excepted
\* are a close whose record is missing, which is a statement of its own after
\* the update, and closes that overlap and are recorded in another order.
UnacknowledgedShortagesWereUnseen ==
  \A s \in Shifts :
    IsClosed(s) /\ RecordStands(s) /\ ~audit[s].ack =>
      StockShortagesForShift(s) \cap reviewed[s] = {}

\* The scheduler never replaces a manager's close: what the manager counted
\* and acknowledged stays, however their steps interleave.
SchedulerNeverOverrides ==
  [][\A s \in Shifts : shift[s].closedBy \in Closers => shift'[s].closedBy \in Closers]_vars

\* A shift left open over midnight is closed in the end, unless one of its
\* sales ran short of stock.
ExpiredShiftCloses ==
  \A s \in Shifts :
    IsOpen(s) /\ Expired(s) ~> IsClosed(s) \/ StockShortagesForShift(s) # {}

\* Every close, by whomever, is in the audit log in the end, unless a statement
\* has failed or the server has restarted since the shift was open: the record
\* is a statement of its own after the update, and the scheduler does not come
\* back to a shift that it has closed.
ClosesAreRecorded ==
  \A s \in Shifts, n \in 0 .. MaxFaults :
    [](IsOpen(s) /\ faults = n =>
         [](IsClosed(s) => <>(shift[s].closedBy \in audit[s].by \/ faults > n)))

=============================================================================

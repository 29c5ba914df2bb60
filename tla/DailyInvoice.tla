---------------------------- MODULE DailyInvoice ----------------------------
(***************************************************************************)
(* What follows a close: the daily digest of the shift and its posting to  *)
(* Bukku as one cash invoice.                                              *)
(*                                                                         *)
(* Whoever has closed a shift and recorded it, a manager's request or the  *)
(* scheduler, exports the digest, sets the job of the shift to PENDING,    *)
(* reads the shift again, and posts what it has read: it asks Bukku for    *)
(* the invoice's number, creates the invoice if there is none, and after   *)
(* an error asks again.  The number is made of the shift and of the day in *)
(* closedAt.  A manager's close that overlaps another close of the same    *)
(* shift posts too, and dates the shift anew.  A call whose answer is lost *)
(* may still reach Bukku later.                                            *)
(***************************************************************************)
EXTENDS CashierShift, Sequences

Posters == Closers \cup Sweeps

VARIABLES
  posting,   \* posting[k]: how far k has come with the digest of a shift
  job,       \* job[s]: SyncJob.status of the daily digest of s
  sent,      \* calls on their way to create an invoice
  invoices,  \* invoices[s]: each invoice that Bukku has for s, its day and sales
  raced,     \* history: numbers posted while another call to create was on its way
  redated,   \* history: closed shifts that were closed again on another day
  settled    \* history: what was complete in s when it was first closed

postVars == <<posting, job, sent, invoices, raced, redated, settled>>
dayVars  == <<vars, postVars>>

Resting == [at |-> "idle", shift |-> None, day |-> 0, sales |-> {}, ok |-> FALSE]

\* previewBukkuDailyInvoice: the sales that an invoice of s would carry now.
Preview(s) == SalesOf(s)

\* Sales with a completed return that is processed in s.
ReturnedIn(s) == {x \in Sales : refund[x] = [at |-> "done", shift |-> s]}

DayInit ==
  /\ Init
  /\ posting = [k \in Posters |-> Resting]
  /\ job = [s \in Shifts |-> "NONE"]
  /\ sent = {}
  /\ invoices = [s \in Shifts |-> <<>>]
  /\ raced = {} /\ redated = {}
  /\ settled = [s \in Shifts |-> [sales |-> {}, returned |-> {}]]

-----------------------------------------------------------------------------
(* Closing, and what it sets going.                                        *)

\* History of the closing update of s.
MarkSettled(s) ==
  /\ settled' = IF IsOpen(s)
                THEN [settled EXCEPT ![s] = [sales |-> SalesOf(s), returned |-> ReturnedIn(s)]]
                ELSE settled
  /\ redated' = IF IsClosed(s) /\ shift'[s].closedOn # shift[s].closedOn
                THEN redated \cup {s} ELSE redated

BeginPosting(k, s) ==
  /\ posting' = [posting EXCEPT ![k] = [Resting EXCEPT !.at = "export", !.shift = s]]
  /\ UNCHANGED <<job, sent, invoices, raced, redated, settled>>

ManagerCloses(c) ==
  \/ (CloseCheck(c) \/ CloseFails(c)) /\ UNCHANGED postVars
  \/ /\ CloseUpdate(c) /\ MarkSettled(closer[c].shift)
     /\ UNCHANGED <<posting, job, sent, invoices, raced>>
  \/ CloseAudit(c) /\ BeginPosting(c, closer[c].shift)

SchedulerCloses(w) ==
  \/ (SweepCheck(w) \/ SweepFails(w)) /\ UNCHANGED postVars
  \/ /\ SweepUpdate(w) /\ MarkSettled(sweep[w].shift)
     /\ UNCHANGED <<posting, job, sent, invoices, raced>>
  \/ SweepAudit(w) /\ BeginPosting(w, sweep[w].shift)

\* A pass goes on to its next shift when the digest of the last is done.
SchedulerVisits(w, s, day) ==
  posting[w] = Resting /\ SweepBegin(w, s, day) /\ UNCHANGED postVars

-----------------------------------------------------------------------------
(* The digest and its job.                                                 *)

Goto(k, at, ok) == posting' = [posting EXCEPT ![k].at = at, ![k].ok = ok]

SetJob(k, status) == job' = [job EXCEPT ![posting[k].shift] = status]

Rest(k) == posting' = [posting EXCEPT ![k] = Resting]

\* The digest takes its date from closedAt as it is by now. The job is created,
\* or put back to PENDING whatever it was.
Export(k) ==
  /\ posting[k].at = "export"
  /\ SetJob(k, "PENDING")
  /\ posting' = [posting EXCEPT ![k].at = "prepare",
                                ![k].day = shift[posting[k].shift].closedOn]
  /\ UNCHANGED <<vars, sent, invoices, raced, redated, settled>>

\* The workbook cannot be written.
ExportFails(k) ==
  /\ posting[k].at = "export"
  /\ Rest(k)
  /\ UNCHANGED <<vars, job, sent, invoices, raced, redated, settled>>

\* Posting is off, an account or product is not mapped, or the sums differ.
\* With a return in the shift it always waits.  Nothing comes back to the job.
AwaitReview(k) ==
  /\ posting[k].at = "prepare"
  /\ Rest(k)
  /\ UNCHANGED <<vars, job, sent, invoices, raced, redated, settled>>

\* Mutant: returns in the shift do not matter.
PrepareWithReturns(k) ==
  /\ posting[k].at = "prepare"
  /\ SetJob(k, "RUNNING")
  /\ posting' = [posting EXCEPT ![k].at = "find", ![k].sales = SalesOf(posting[k].shift)]
  /\ UNCHANGED <<vars, sent, invoices, raced, redated, settled>>

Prepare(k) ==
  /\ posting[k].at = "prepare"
  /\ ReturnedIn(posting[k].shift) = {}
  /\ SetJob(k, "RUNNING")
  /\ posting' = [posting EXCEPT ![k].at = "find", ![k].sales = SalesOf(posting[k].shift)]
  /\ UNCHANGED <<vars, sent, invoices, raced, redated, settled>>

RecordOutcome(k) ==
  /\ posting[k].at = "record"
  /\ SetJob(k, IF posting[k].ok THEN "SUCCEEDED" ELSE "FAILED")
  /\ Rest(k)
  /\ UNCHANGED <<vars, sent, invoices, raced, redated, settled>>

-----------------------------------------------------------------------------
(* The calls to Bukku: pushDailyCashInvoice.                               *)

\* An invoice with the number of the digest of k is there.
IsPosted(k) ==
  \E i \in DOMAIN invoices[posting[k].shift] : invoices[posting[k].shift][i].day = posting[k].day

FindsIt(k) ==
  /\ posting[k].at = "find" /\ IsPosted(k)
  /\ Goto(k, "record", TRUE)
  /\ UNCHANGED <<vars, job, sent, invoices, raced, redated, settled>>

CallOf(k) == [by |-> k, shift |-> posting[k].shift, day |-> posting[k].day,
              sales |-> posting[k].sales]

Number(c) == <<c.shift, c.day>>

SendInvoice(k) ==
  /\ sent' = sent \cup {CallOf(k)}
  /\ Goto(k, "await", FALSE)
  /\ raced' = raced \cup {Number(c) : c \in {c \in sent : Number(c) = Number(posting[k])}}
  /\ UNCHANGED <<vars, job, invoices, redated, settled>>

\* Mutant: the number is not looked for.
PostUnlessFoundNever(k) == posting[k].at = "find" /\ SendInvoice(k)

PostUnlessFound(k) == posting[k].at = "find" /\ ~IsPosted(k) /\ SendInvoice(k)

FindFails(k) ==
  /\ posting[k].at = "find"
  /\ Goto(k, "record", FALSE)
  /\ UNCHANGED <<vars, job, sent, invoices, raced, redated, settled>>

Awaits(c) == posting[c.by].at = "await" /\ c = CallOf(c.by)

\* The invoice is created; its poster, if it still waits, has the answer or not.
Arrive(c) ==
  /\ sent' = sent \ {c}
  /\ invoices' = [invoices EXCEPT ![c.shift] = Append(@, [day |-> c.day, sales |-> c.sales])]
  /\ IF Awaits(c) THEN Goto(c.by, "record", TRUE) \/ Goto(c.by, "recover", FALSE)
                  ELSE UNCHANGED posting
  /\ UNCHANGED <<vars, job, raced, redated, settled>>

\* The call is refused or never arrives.
Refuse(c) ==
  /\ sent' = sent \ {c}
  /\ IF Awaits(c) THEN Goto(c.by, "recover", FALSE) ELSE UNCHANGED posting
  /\ UNCHANGED <<vars, job, invoices, raced, redated, settled>>

\* The poster gives up on a call that is still on its way.
TimesOut(c) ==
  /\ Awaits(c)
  /\ Goto(c.by, "recover", FALSE)
  /\ UNCHANGED <<vars, job, sent, invoices, raced, redated, settled>>

\* After an error the number is looked for once more.
Recover(k) ==
  /\ posting[k].at = "recover"
  /\ Goto(k, "record", IsPosted(k)) \/ Goto(k, "record", FALSE)
  /\ UNCHANGED <<vars, job, sent, invoices, raced, redated, settled>>

PostSteps(k) ==
  \/ Export(k) \/ ExportFails(k) \/ AwaitReview(k) \/ Prepare(k) \/ RecordOutcome(k)
  \/ FindsIt(k) \/ PostUnlessFound(k) \/ FindFails(k) \/ Recover(k)

\* A restart ends the posters; their calls stay on their way.
Restart ==
  /\ Crash
  /\ posting' = [k \in Posters |-> Resting]
  /\ UNCHANGED <<job, sent, invoices, raced, redated, settled>>

-----------------------------------------------------------------------------
DayNext ==
  \/ (Opening \/ Selling \/ Moving \/ Calendar) /\ UNCHANGED postVars
  \/ \E c \in Closers :
       \/ ManagerCloses(c)
       \/ \E s \in Shifts, ack \in BOOLEAN : CloseBegin(c, s, ack) /\ UNCHANGED postVars
  \/ \E w \in Sweeps :
       SchedulerCloses(w) \/ \E s \in Shifts, day \in Days : SchedulerVisits(w, s, day)
  \/ \E k \in Posters : PostSteps(k)
  \/ \E c \in sent : Arrive(c) \/ Refuse(c) \/ TimesOut(c)
  \/ Restart

DaySpec == DayInit /\ [][DayNext]_dayVars

-----------------------------------------------------------------------------
(* Properties.                                                             *)

\* An invoice carries every sale that the preview of its shift shows and that was
\* complete at the close, and there is none when a return was: what an invoice
\* misses was in flight at the close, and what it has too much was voided since.
InvoicesMissOnlyLateWork ==
  \A s \in Shifts : \A i \in DOMAIN invoices[s] :
    /\ settled[s].sales \cap Preview(s) \subseteq invoices[s][i].sales
    /\ settled[s].returned = {}
    /\ \A x \in invoices[s][i].sales :
         sale[x].shift = s /\ sale[x].status \in {"COMPLETED", "VOIDED"}

\* A shift has one invoice in Bukku, however calls fail or answers are lost and
\* whoever else closes it, with two exceptions: one poster looked for the number
\* while the call of another was on its way, or a close that overlapped another
\* gave the shift a new date, and so a new number. A job that SUCCEEDED has an
\* invoice.
InvoicedOnce ==
  \A s \in Shifts :
    /\ \A i, j \in DOMAIN invoices[s] : i # j =>
         IF invoices[s][i].day = invoices[s][j].day
         THEN <<s, invoices[s][i].day>> \in raced
         ELSE s \in redated
    /\ job[s] = "SUCCEEDED" => invoices[s] # <<>>
=============================================================================

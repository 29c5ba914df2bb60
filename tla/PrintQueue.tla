----------------------------- MODULE PrintQueue -----------------------------
(***************************************************************************)
(* The print hub: receipts that tills ask for, the PrintJob rows that      *)
(* record them, the queue of ThermalPrinterService and the printer.        *)
(*                                                                         *)
(* The queue is a chain of promises in memory: each document is sent when  *)
(* the one before it has been sent or has failed.  A request awaits its    *)
(* document, tries the fallback transport once and then writes the outcome *)
(* to its row.  Every await lets other requests in, and a restart loses    *)
(* the chain but not the rows.                                             *)
(*                                                                         *)
(* What the printer does with the bytes is not known to the code.  It sees *)
(* a document accepted or an error, and an error may come before the first *)
(* byte, between two, or after the last one: a timeout of the spooler does *)
(* not take back what it has been given.                                   *)
(***************************************************************************)
EXTENDS Integers, Sequences, SequencesExt

CONSTANTS
  Receipts,     \* requests to print a receipt
  Tests,        \* requests to print a test page
  Sales,
  SaleOf,       \* SaleOf[j]: the sale whose receipt j prints
  HasFallback,  \* Company.printerFallbackMethod is set
  MaxCrashes    \* bound on restarts of the server

Jobs == Receipts \cup Tests

ASSUME KindsDiffer    == Receipts \cap Tests = {}
ASSUME SalesOfJobs    == SaleOf \in [Receipts -> Sales]
ASSUME FallbackIsFlag == HasFallback \in BOOLEAN
ASSUME CrashBound     == MaxCrashes \in Nat

VARIABLES
  at,         \* at[j]: where the handler of request j is
  attempt,    \* attempt[j]: 1 on the configured transport, 2 on the fallback
  row,        \* row[j]: PrintJob.status, NONE before it is created
  reprint,    \* reprint[j]: PrintJob.reprint
  printedAt,  \* sales whose printedAt is set
  queue,      \* the documents in the chain; the first may be on its way
  received,   \* the document whose bytes the printer received last
  copies,     \* documents whose last bytes the printer has received
  crashes

vars == <<at, attempt, row, reprint, printedAt, queue, received, copies, crashes>>

\* What a request sends on an attempt.
Document(j) == <<j, attempt[j]>>

Nothing == <<>>

Init ==
  /\ at = [j \in Jobs |-> "idle"]
  /\ attempt = [j \in Jobs |-> 1]
  /\ row = [j \in Jobs |-> "NONE"]
  /\ reprint = [j \in Jobs |-> FALSE]
  /\ printedAt = {}
  /\ queue = <<>>
  /\ received = Nothing
  /\ copies = {}
  /\ crashes = 0

Goto(j, label) == at' = [at EXCEPT ![j] = label]

-----------------------------------------------------------------------------
(* The handler of a request, printThermalReceipt.                          *)

\* The sale is read; whether this is a reprint is decided here.
ReadSale(j) ==
  /\ j \in Receipts
  /\ at[j] = "idle"
  /\ reprint' = [reprint EXCEPT ![j] = SaleOf[j] \in printedAt]
  /\ Goto(j, "create")
  /\ UNCHANGED <<attempt, row, printedAt, queue, received, copies, crashes>>

CreateJob(j) ==
  /\ at[j] = "create"
  /\ row' = [row EXCEPT ![j] = "QUEUED"]
  /\ Goto(j, "mark")
  /\ UNCHANGED <<attempt, reprint, printedAt, queue, received, copies, crashes>>

MarkSending(j) ==
  /\ at[j] = "mark"
  /\ row' = [row EXCEPT ![j] = "SENDING"]
  /\ Goto(j, "print")
  /\ UNCHANGED <<attempt, reprint, printedAt, queue, received, copies, crashes>>

\* testThermalPrinter prints without a row.
PrintTest(j) ==
  /\ j \in Tests
  /\ at[j] = "idle"
  /\ Goto(j, "print")
  /\ UNCHANGED <<attempt, row, reprint, printedAt, queue, received, copies, crashes>>

\* print: the document is rendered and joins the chain.
Enqueue(j) ==
  /\ at[j] = "print"
  /\ queue' = Append(queue, j)
  /\ Goto(j, "queued")
  /\ UNCHANGED <<attempt, row, reprint, printedAt, received, copies, crashes>>

\* The transport is unknown or the logo unreadable: nothing joins the chain.
RenderFails(j) ==
  /\ at[j] = "print"
  /\ Goto(j, "error")
  /\ UNCHANGED <<attempt, row, reprint, printedAt, queue, received, copies, crashes>>

\* The error of the first attempt is tried on the fallback transport.
Fallback(j) ==
  /\ at[j] = "error"
  /\ j \in Receipts
  /\ HasFallback
  /\ attempt[j] = 1
  /\ attempt' = [attempt EXCEPT ![j] = 2]
  /\ Goto(j, "print")
  /\ UNCHANGED <<row, reprint, printedAt, queue, received, copies, crashes>>

GiveUp(j) ==
  /\ at[j] = "error"
  /\ j \in Receipts => ~HasFallback \/ attempt[j] = 2
  /\ Goto(j, IF j \in Receipts THEN "failed" ELSE "done")
  /\ UNCHANGED <<attempt, row, reprint, printedAt, queue, received, copies, crashes>>

\* One transaction sets the sale's printedAt and the status of the job.
RecordPrinted(j) ==
  /\ at[j] = "sent"
  /\ IF j \in Receipts
     THEN /\ printedAt' = printedAt \cup {SaleOf[j]}
          /\ row' = [row EXCEPT ![j] = "PRINTED"]
     ELSE UNCHANGED <<printedAt, row>>
  /\ Goto(j, "done")
  /\ UNCHANGED <<attempt, reprint, queue, received, copies, crashes>>

\* An update of the database throws: before anything is sent, or when the
\* document is on paper.
UpdateFails(j) ==
  /\ at[j] \in {"mark", "sent"}
  /\ j \in Receipts
  /\ Goto(j, "failed")
  /\ UNCHANGED <<attempt, row, reprint, printedAt, queue, received, copies, crashes>>

\* The last update, which the code relies on.
RecordFailed(j) ==
  /\ at[j] = "failed"
  /\ row' = [row EXCEPT ![j] = "FAILED"]
  /\ Goto(j, "done")
  /\ UNCHANGED <<attempt, reprint, printedAt, queue, received, copies, crashes>>

\* The till reports a receipt printed by other means.
MarkReceiptPrinted(x) ==
  /\ printedAt' = printedAt \cup {x}
  /\ UNCHANGED <<at, attempt, row, reprint, queue, received, copies, crashes>>

-----------------------------------------------------------------------------
(* The chain and the transports.                                           *)

\* Mutant: documents are sent as they come.
MayStartAnyTime(j) == TRUE

MayStart(j) == Head(queue) = j

LastBytes(j) == received' = Document(j) /\ copies' = copies \cup {Document(j)}

\* The document's turn has come and its first bytes go out.  It stays the first of
\* the chain until it has been sent or has failed.
StartSending(j) ==
  /\ at[j] = "queued"
  /\ MayStart(j)
  /\ received' = Document(j)
  /\ Goto(j, "sending")
  /\ UNCHANGED <<attempt, row, reprint, printedAt, queue, copies, crashes>>

Accepted(j) ==
  /\ at[j] = "sending"
  /\ LastBytes(j)
  /\ queue' = Tail(queue)
  /\ Goto(j, "sent")
  /\ UNCHANGED <<attempt, row, reprint, printedAt, crashes>>

\* Mutant: print does not await the document.
RefusedUnseen(j) ==
  /\ at[j] = "queued" /\ MayStart(j)
  /\ queue' = Tail(queue)
  /\ Goto(j, "sent")
  /\ UNCHANGED <<attempt, row, reprint, printedAt, received, copies, crashes>>

\* There is no printer, no port or no connection.
Refused(j) ==
  /\ at[j] = "queued" /\ MayStart(j)
  /\ queue' = Tail(queue)
  /\ Goto(j, "error")
  /\ UNCHANGED <<attempt, row, reprint, printedAt, received, copies, crashes>>

\* Mutant: the chain waits for a document that has failed.
BrokenOffForGood(j) ==
  /\ at[j] = "sending"
  /\ Goto(j, "error")
  /\ UNCHANGED <<attempt, row, reprint, printedAt, queue, received, copies, crashes>>

\* An error or a timeout on the way, before or after the last byte.
BrokenOff(j) ==
  /\ at[j] = "sending"
  /\ LastBytes(j) \/ UNCHANGED <<received, copies>>
  /\ queue' = Tail(queue)
  /\ Goto(j, "error")
  /\ UNCHANGED <<attempt, row, reprint, printedAt, crashes>>

\* The server restarts: handlers and chain are gone, the rows stay.
Crash ==
  /\ crashes < MaxCrashes
  /\ crashes' = crashes + 1
  /\ at' = [j \in Jobs |-> IF at[j] = "idle" THEN "idle" ELSE "done"]
  /\ queue' = <<>>
  /\ UNCHANGED <<attempt, row, reprint, printedAt, received, copies>>

-----------------------------------------------------------------------------
Handle(j) == CreateJob(j) \/ MarkSending(j) \/ Enqueue(j) \/ RenderFails(j)
               \/ Fallback(j) \/ GiveUp(j)
               \/ RecordPrinted(j) \/ UpdateFails(j) \/ RecordFailed(j)

Send(j) == StartSending(j) \/ Accepted(j) \/ Refused(j) \/ BrokenOff(j)

Next ==
  \/ \E j \in Jobs : ReadSale(j) \/ PrintTest(j) \/ Handle(j) \/ Send(j)
  \/ \E x \in Sales : MarkReceiptPrinted(x)
  \/ Crash

\* Handlers run on once begun, and a transport answers or times out.
Fairness == \A j \in Jobs : WF_vars(Handle(j)) /\ WF_vars(Send(j))

Spec == Init /\ [][Next]_vars /\ Fairness

-----------------------------------------------------------------------------
(* Properties.                                                             *)

TypeOK ==
  /\ at \in [Jobs -> {"idle", "create", "mark", "print", "queued", "sending", "sent",
                      "error", "failed", "done"}]
  /\ attempt \in [Jobs -> {1, 2}]
  /\ row \in [Jobs -> {"NONE", "QUEUED", "SENDING", "PRINTED", "FAILED"}]
  /\ reprint \in [Jobs -> BOOLEAN]
  /\ printedAt \subseteq Sales
  /\ IsInjective(queue) /\ ToSet(queue) = {j \in Jobs : at[j] \in {"queued", "sending"}}
  /\ crashes \in 0 .. MaxCrashes

\* "Jobs are held in a single backend queue, so simultaneous phone checkouts
\* cannot interleave printer bytes" (src/docs/PC_PRINT_HUB.md:58): when the last
\* bytes of a document arrive, those before them were its own.
NoInterleaving ==
  [][\A d \in copies' \ copies : received = d]_vars

\* A job that is PRINTED has been sent in full by its last attempt, however the
\* first one ended, and its sale counts as printed.
PrintedIsOnPaper ==
  \A j \in Receipts :
    row[j] = "PRINTED" => Document(j) \in copies /\ SaleOf[j] \in printedAt

\* Every job that is created is PRINTED or FAILED in the end, also behind one
\* that fails, unless the server restarts before (printThermalReceipt, print).
JobsEnd ==
  \A j \in Receipts, n \in 0 .. MaxCrashes :
    (at[j] = "mark" /\ crashes = n) ~> (row[j] \in {"PRINTED", "FAILED"} \/ crashes > n)
=============================================================================

------------------------- MODULE PrintQueue_proofs -------------------------
(***************************************************************************)
(* Documents are printed one at a time and PRINTED means on paper, for any *)
(* sets of requests and sales and any number of restarts.                  *)
(***************************************************************************)
EXTENDS PrintQueue, TLAPS

Places == {"idle", "create", "mark", "print", "queued", "sending", "sent",
           "error", "failed", "done"}

Typed ==
  /\ at \in [Jobs -> Places]
  /\ attempt \in [Jobs -> {1, 2}]
  /\ row \in [Jobs -> {"NONE", "QUEUED", "SENDING", "PRINTED", "FAILED"}]
  /\ queue \in Seq(Jobs)

\* Requests that wait for the transport are in the chain, each once.
Waiting(j) == at[j] \in {"queued", "sending"}

InChain ==
  /\ \A j \in Jobs : Waiting(j) => \E n \in 1 .. Len(queue) : queue[n] = j
  /\ \A n \in 1 .. Len(queue) : Waiting(queue[n])
  /\ \A m, n \in 1 .. Len(queue) : queue[m] = queue[n] => m = n

\* The first of the chain is the only document that is being sent, and what the
\* printer has received last is of it.
OneAtATime == \A j \in Jobs : at[j] = "sending" => Head(queue) = j /\ received = Document(j)

OnPaper ==
  /\ \A j \in Jobs : at[j] = "sent" => Document(j) \in copies
  /\ \A j \in Jobs : row[j] = "PRINTED" => at[j] = "done"

IInv == Typed /\ InChain /\ OneAtATime /\ OnPaper /\ PrintedIsOnPaper

ItsOwn == \A d \in copies' \ copies : received = d

-----------------------------------------------------------------------------
LEMMA Start == Init => IInv
<1> SUFFICES ASSUME Init PROVE IInv
  OBVIOUS
<1>1. Typed
  BY DEF Init, Typed, Places
<1>2. Len(queue) = 0
  BY DEF Init
<1>3. InChain
  BY <1>2 DEF Init, InChain, Waiting
<1> QED BY <1>1, <1>3 DEF Init, IInv, OneAtATime, OnPaper, PrintedIsOnPaper, Jobs

\* A request moves on without the chain: to "done" when it is recorded.
Moves(j, to) ==
  /\ Goto(j, to)
  /\ ~Waiting(j) /\ at[j] # "done"
  /\ to \in Places \ {"queued", "sending", "sent"}
  /\ UNCHANGED <<queue, received, copies>>
  /\ attempt' \in [Jobs -> {1, 2}] /\ \A i \in Jobs \ {j} : attempt'[i] = attempt[i]
  /\ row' \in [Jobs -> {"NONE", "QUEUED", "SENDING", "PRINTED", "FAILED"}]
  /\ \A i \in Jobs \ {j} : row'[i] = row[i]
  /\ printedAt \subseteq printedAt'

Recorded(j, to) ==
  /\ at[j] = "sent" /\ to = "done" /\ attempt'[j] = attempt[j]
  /\ j \in Receipts => SaleOf[j] \in printedAt'

LEMMA MoveKeeps ==
  ASSUME IInv, NEW j \in Jobs, NEW to, Moves(j, to),
         row'[j] = "PRINTED" => row[j] = "PRINTED" \/ Recorded(j, to)
  PROVE  IInv'
<1>1. Typed /\ InChain /\ OneAtATime /\ OnPaper /\ PrintedIsOnPaper
  BY DEF IInv
<1>2. /\ at' \in [Jobs -> Places] /\ at'[j] = to /\ \A i \in Jobs \ {j} : at'[i] = at[i]
      /\ queue' = queue /\ received' = received /\ copies' = copies
  BY <1>1 DEF Typed, Goto, Moves
<1>3. Typed'
  BY <1>1, <1>2 DEF Typed, Moves
<1>4. InChain'
  <2>1. \A i \in Jobs : Waiting(i)' <=> Waiting(i)
    BY <1>2 DEF Waiting, Moves
  <2>2. \A n \in 1 .. Len(queue) : queue[n] \in Jobs
    BY <1>1 DEF Typed
  <2> QED BY <1>1, <1>2, <2>1, <2>2 DEF InChain
<1>5. \A i \in Jobs \ {j} : Document(i)' = Document(i) /\ row'[i] = row[i] /\ at'[i] = at[i]
  BY <1>2 DEF Document, Moves
<1>6. OneAtATime'
  BY <1>1, <1>2, <1>5 DEF OneAtATime, Moves
<1>7. row[j] # "PRINTED"
  BY <1>1 DEF OnPaper, Moves
<1>8. OnPaper'
  BY <1>1, <1>2, <1>5, <1>7 DEF OnPaper, Moves, Recorded
<1>9. PrintedIsOnPaper'
  <2> SUFFICES ASSUME NEW i \in Receipts, row'[i] = "PRINTED"
               PROVE  Document(i)' \in copies' /\ SaleOf[i] \in printedAt'
    BY DEF PrintedIsOnPaper
  <2>1. CASE i = j
    <3>1. Recorded(j, to)
      BY <1>7, <2>1
    <3>2. Document(j)' = Document(j) /\ Document(j) \in copies
      BY <1>1, <3>1 DEF Recorded, Document, OnPaper
    <3> QED BY <1>2, <2>1, <3>1, <3>2 DEF Recorded
  <2>2. CASE i # j
    BY <1>1, <1>2, <1>5, <2>2 DEF PrintedIsOnPaper, Moves, Jobs
  <2> QED BY <2>1, <2>2
<1> QED BY <1>3, <1>4, <1>6, <1>8, <1>9 DEF IInv

\* The handler apart from print; none of it gives the printer anything.
LEMMA HandlerKeeps ==
  ASSUME IInv, NEW j \in Jobs,
         \/ ReadSale(j) \/ PrintTest(j) \/ CreateJob(j) \/ MarkSending(j) \/ RenderFails(j)
         \/ Fallback(j) \/ GiveUp(j) \/ RecordPrinted(j) \/ UpdateFails(j) \/ RecordFailed(j)
  PROVE  IInv' /\ copies' = copies
<1>1. Typed
  BY DEF IInv
<1>2. CASE ReadSale(j)
  <2>1. Moves(j, "create") /\ row' = row
    BY <1>1, <1>2 DEF ReadSale, Moves, Waiting, Places, Typed
  <2> QED BY <2>1, MoveKeeps DEF Moves
<1>3. CASE PrintTest(j) \/ MarkSending(j)
  <2>1. Moves(j, "print") /\ (row' = row \/ row'[j] = "SENDING")
    BY <1>1, <1>3 DEF PrintTest, MarkSending, Moves, Waiting, Places, Typed
  <2> QED BY <2>1, MoveKeeps DEF Moves
<1>4. CASE CreateJob(j)
  <2>1. Moves(j, "mark") /\ row'[j] = "QUEUED"
    BY <1>1, <1>4 DEF CreateJob, Moves, Waiting, Places, Typed
  <2> QED BY <2>1, MoveKeeps DEF Moves
<1>5. CASE RenderFails(j)
  <2>1. Moves(j, "error") /\ row' = row
    BY <1>1, <1>5 DEF RenderFails, Moves, Waiting, Places, Typed
  <2> QED BY <2>1, MoveKeeps DEF Moves
<1>6. CASE Fallback(j)
  <2>1. Moves(j, "print") /\ row' = row
    BY <1>1, <1>6 DEF Fallback, Moves, Waiting, Places, Typed
  <2> QED BY <2>1, MoveKeeps DEF Moves
<1>7. CASE GiveUp(j)
  <2> DEFINE to == IF j \in Receipts THEN "failed" ELSE "done"
  <2>1. to \in {"failed", "done"} /\ Goto(j, to)
    BY <1>7 DEF GiveUp
  <2> HIDE DEF to
  <2>2. Moves(j, to) /\ row' = row
    BY <1>1, <1>7, <2>1 DEF GiveUp, Moves, Waiting, Places, Typed
  <2> QED BY <2>2, MoveKeeps DEF Moves
<1>8. CASE RecordPrinted(j)
  <2>1. Moves(j, "done") /\ Recorded(j, "done")
    BY <1>1, <1>8 DEF RecordPrinted, Moves, Recorded, Waiting, Places, Typed
  <2> QED BY <2>1, MoveKeeps DEF Moves
<1>9. CASE UpdateFails(j)
  <2>1. Moves(j, "failed") /\ row' = row
    BY <1>1, <1>9 DEF UpdateFails, Moves, Waiting, Places, Typed
  <2> QED BY <2>1, MoveKeeps DEF Moves
<1>10. CASE RecordFailed(j)
  <2>1. Moves(j, "done") /\ row'[j] = "FAILED"
    BY <1>1, <1>10 DEF RecordFailed, Moves, Waiting, Places, Typed
  <2> QED BY <2>1, MoveKeeps DEF Moves
<1> QED BY <1>2, <1>3, <1>4, <1>5, <1>6, <1>7, <1>8, <1>9, <1>10

-----------------------------------------------------------------------------
\* What a step of the chain leaves to show.
LEMMA ChainKeeps ==
  ASSUME IInv, NEW j \in Jobs, NEW to \in Places, Goto(j, to), at[j] \notin {"done", "sent"},
         UNCHANGED <<attempt, row, printedAt>>, copies \subseteq copies',
         to = "sent" => Document(j) \in copies',
         queue' \in Seq(Jobs), InChain', OneAtATime'
  PROVE  IInv'
<1>1. Typed /\ OnPaper /\ PrintedIsOnPaper
  BY DEF IInv
<1>2. at' \in [Jobs -> Places] /\ at'[j] = to /\ \A i \in Jobs \ {j} : at'[i] = at[i]
  BY <1>1 DEF Typed, Goto
<1>3. Typed'
  BY <1>1, <1>2 DEF Typed
<1>4. \A i \in Jobs : Document(i)' = Document(i)
  BY DEF Document
<1>5. OnPaper'
  BY <1>1, <1>2, <1>4 DEF OnPaper
<1>6. PrintedIsOnPaper'
  BY <1>1, <1>4 DEF PrintedIsOnPaper, Jobs
<1> QED BY <1>3, <1>5, <1>6 DEF IInv

LEMMA EnqueueKeeps ==
  ASSUME IInv, NEW j \in Jobs, Enqueue(j)
  PROVE  IInv' /\ copies' = copies
<1>1. Typed /\ InChain /\ OneAtATime
  BY DEF IInv
<1>2. at'[j] = "queued" /\ (\A i \in Jobs \ {j} : at'[i] = at[i]) /\ ~Waiting(j)
  BY <1>1 DEF Enqueue, Goto, Typed, Waiting
<1>3. /\ queue' \in Seq(Jobs) /\ Len(queue') = Len(queue) + 1 /\ Len(queue) \in Nat
      /\ queue'[Len(queue) + 1] = j
      /\ \A n \in 1 .. Len(queue) : queue'[n] = queue[n] /\ queue[n] \in Jobs
  BY <1>1 DEF Enqueue, Typed
<1>4. \A n \in 1 .. Len(queue) : queue[n] # j
  BY <1>1, <1>2 DEF InChain
<1>5. InChain'
  <2>1. \A i \in Jobs : Waiting(i)' <=> Waiting(i) \/ i = j
    BY <1>2 DEF Waiting
  <2>2. ASSUME NEW i \in Jobs, Waiting(i)'
        PROVE  \E n \in 1 .. Len(queue') : queue'[n] = i
    <3>1. CASE i = j
      BY <1>3, <3>1
    <3>2. CASE i # j
      <4>1. PICK n \in 1 .. Len(queue) : queue[n] = i
        BY <1>1, <2>1, <2>2, <3>2 DEF InChain
      <4> QED BY <1>3, <4>1
    <3> QED BY <3>1, <3>2
  <2>3. \A n \in 1 .. Len(queue') : n \in 1 .. Len(queue) \/ n = Len(queue) + 1
    BY <1>3
  <2>4. \A n \in 1 .. Len(queue') : at'[queue'[n]] \in {"queued", "sending"}
    <3>1. \A n \in 1 .. Len(queue) : queue[n] \in Jobs /\ Waiting(queue[n])
      BY <1>1, <1>3 DEF InChain
    <3>2. \A n \in 1 .. Len(queue') : queue'[n] \in Jobs /\ (Waiting(queue'[n]) \/ queue'[n] = j)
      BY <1>3, <2>3, <3>1
    <3> QED BY <2>1, <3>2 DEF Waiting
  <2>5. \A m, n \in 1 .. Len(queue') : queue'[m] = queue'[n] => m = n
    BY <1>1, <1>3, <1>4, <2>3 DEF InChain
  <2> QED BY <2>2, <2>4, <2>5 DEF InChain, Waiting
<1>6. OneAtATime'
  <2> SUFFICES ASSUME NEW i \in Jobs, at'[i] = "sending"
               PROVE  Head(queue') = i /\ received' = Document(i)'
    BY DEF OneAtATime
  <2>1. i # j /\ at[i] = "sending"
    BY <1>2
  <2>2. Head(queue) = i /\ received = Document(i) /\ Len(queue) > 0
    BY <1>1, <1>3, <2>1 DEF OneAtATime, InChain, Waiting
  <2>3. Head(queue) = queue[1] /\ Head(queue') = queue'[1] /\ 1 \in 1 .. Len(queue)
    BY <1>1, <1>3, <2>2 DEF Typed
  <2> QED BY <1>3, <2>2, <2>3 DEF Enqueue, Document
<1> QED BY <1>1, <1>3, <1>5, <1>6, ChainKeeps DEF Enqueue, Places

LEMMA StartKeeps ==
  ASSUME IInv, NEW j \in Jobs, StartSending(j)
  PROVE  IInv' /\ copies' = copies
<1>1. Typed /\ InChain /\ OneAtATime
  BY DEF IInv
<1>2. at'[j] = "sending" /\ \A i \in Jobs \ {j} : at'[i] = at[i]
  BY <1>1 DEF StartSending, Goto, Typed
<1>3. \A n \in 1 .. Len(queue) : queue[n] \in Jobs
  BY <1>1 DEF Typed
<1>4. \A i \in Jobs : Waiting(i)' <=> Waiting(i)
  BY <1>2 DEF StartSending, Waiting
<1>5. InChain'
  BY <1>1, <1>3, <1>4 DEF InChain, StartSending
<1>6. OneAtATime'
  BY <1>1, <1>2 DEF OneAtATime, StartSending, MayStart, Document
<1> QED BY <1>1, <1>5, <1>6, ChainKeeps DEF StartSending, Places, Typed

LEMMA LeaveKeeps ==
  ASSUME IInv, NEW j \in Jobs, Accepted(j) \/ Refused(j) \/ BrokenOff(j)
  PROVE  IInv' /\ ItsOwn
<1>1. Typed /\ InChain /\ OneAtATime
  BY DEF IInv
<1>2. Waiting(j) /\ Head(queue) = j /\ queue' = Tail(queue)
  BY <1>1 DEF Accepted, Refused, BrokenOff, MayStart, OneAtATime, Waiting
<1>3. PICK to \in {"sent", "error"} : Goto(j, to) /\ (to = "sent" => Document(j) \in copies')
  BY DEF Accepted, Refused, BrokenOff, LastBytes
<1>4. copies' = copies \/ (copies' = copies \cup {Document(j)} /\ at[j] = "sending")
  BY DEF Accepted, Refused, BrokenOff, LastBytes
<1>5. ItsOwn
  BY <1>1, <1>4 DEF ItsOwn, OneAtATime
<1>6. at'[j] = to /\ \A i \in Jobs \ {j} : at'[i] = at[i]
  BY <1>1, <1>3 DEF Goto, Typed
<1>7. Len(queue) > 0 /\ queue[1] = j
  BY <1>1, <1>2 DEF InChain, Typed
<1>8. /\ queue' \in Seq(Jobs) /\ Len(queue) \in Nat /\ Len(queue') = Len(queue) - 1
      /\ \A n \in 1 .. Len(queue') : queue'[n] = queue[n + 1]
      /\ \A n \in 1 .. Len(queue) : queue[n] \in Jobs
  BY <1>1, <1>2, <1>7 DEF Typed
<1>9. InChain'
  <2>1. \A i \in Jobs : Waiting(i)' <=> Waiting(i) /\ i # j
    BY <1>3, <1>6 DEF Waiting
  <2>2. ASSUME NEW i \in Jobs, Waiting(i)'
        PROVE  \E n \in 1 .. Len(queue') : queue'[n] = i
    <3>1. PICK n \in 1 .. Len(queue) : queue[n] = i
      BY <1>1, <2>1, <2>2 DEF InChain
    <3>2. n - 1 \in 1 .. Len(queue') /\ queue'[n - 1] = i
      BY <1>7, <1>8, <2>1, <2>2, <3>1
    <3> QED BY <3>2
  <2>3. \A n \in 1 .. Len(queue') : n + 1 \in 1 .. Len(queue) /\ queue'[n] = queue[n + 1] /\ n \in Nat
    BY <1>8
  <2>4. \A n \in 1 .. Len(queue') : queue'[n] # j
    BY <1>1, <1>7, <1>8, <2>3 DEF InChain
  <2>5. \A n \in 1 .. Len(queue') : at'[queue'[n]] \in {"queued", "sending"}
    <3>1. \A n \in 1 .. Len(queue') : queue'[n] \in Jobs /\ Waiting(queue'[n]) /\ queue'[n] # j
      BY <1>1, <1>8, <2>3, <2>4 DEF InChain
    <3> QED BY <2>1, <3>1 DEF Waiting
  <2>6. \A m, n \in 1 .. Len(queue') : queue'[m] = queue'[n] => m = n
    BY <1>1, <2>3 DEF InChain
  <2> QED BY <2>2, <2>5, <2>6 DEF InChain, Waiting
<1>10. OneAtATime'
  <2>1. \A i \in Jobs : at[i] = "sending" => i = j
    BY <1>1, <1>2 DEF OneAtATime
  <2> QED BY <1>3, <1>6, <2>1 DEF OneAtATime
<1>11. IInv'
  BY <1>1, <1>2, <1>3, <1>4, <1>8, <1>9, <1>10, ChainKeeps
     DEF Accepted, Refused, BrokenOff, Waiting, Places
<1> QED BY <1>5, <1>11

-----------------------------------------------------------------------------
LEMMA CrashKeeps ==
  ASSUME IInv, Crash
  PROVE  IInv' /\ copies' = copies
<1>1. Typed /\ OnPaper /\ PrintedIsOnPaper
  BY DEF IInv
<1>2. /\ at' \in [Jobs -> {"idle", "done"}] /\ \A j \in Jobs : at[j] = "done" => at'[j] = "done"
      /\ queue' = <<>> /\ queue' \in Seq(Jobs) /\ Len(queue') = 0
      /\ UNCHANGED <<attempt, row, printedAt, copies>>
  BY DEF Crash
<1>3. Typed'
  BY <1>1, <1>2 DEF Typed, Places
<1>4. InChain' /\ OneAtATime'
  BY <1>2 DEF InChain, OneAtATime, Waiting
<1>5. OnPaper'
  BY <1>1, <1>2 DEF OnPaper
<1>6. PrintedIsOnPaper'
  BY <1>1, <1>2 DEF PrintedIsOnPaper, Document
<1> QED BY <1>2, <1>3, <1>4, <1>5, <1>6 DEF IInv

LEMMA Step ==
  ASSUME IInv, [Next]_vars
  PROVE  IInv' /\ ItsOwn
<1>1. CASE UNCHANGED vars \/ \E x \in Sales : MarkReceiptPrinted(x)
  <2>1. /\ UNCHANGED <<at, attempt, row, queue, received, copies>>
        /\ printedAt \subseteq printedAt'
    BY <1>1 DEF vars, MarkReceiptPrinted
  <2>2. Typed' /\ InChain' /\ OneAtATime' /\ OnPaper'
    BY <2>1 DEF IInv, Typed, InChain, OneAtATime, OnPaper, Waiting, Document
  <2>3. PrintedIsOnPaper'
    BY <2>1 DEF IInv, PrintedIsOnPaper, Document
  <2> QED BY <2>1, <2>2, <2>3 DEF IInv, ItsOwn
<1>2. ASSUME NEW j \in Jobs, ReadSale(j) \/ PrintTest(j) \/ Handle(j) \/ Send(j)
      PROVE  IInv' /\ ItsOwn
  <2>1. CASE Enqueue(j) \/ StartSending(j)
    BY <2>1, EnqueueKeeps, StartKeeps DEF ItsOwn
  <2>2. CASE Accepted(j) \/ Refused(j) \/ BrokenOff(j)
    BY <2>2, LeaveKeeps
  <2>3. CASE ~(Enqueue(j) \/ Send(j))
    <3>1. \/ ReadSale(j) \/ PrintTest(j) \/ CreateJob(j) \/ MarkSending(j) \/ RenderFails(j)
          \/ Fallback(j) \/ GiveUp(j) \/ RecordPrinted(j) \/ UpdateFails(j) \/ RecordFailed(j)
      BY <1>2, <2>3 DEF Handle
    <3> QED BY <3>1, HandlerKeeps DEF ItsOwn
  <2> QED BY <2>1, <2>2, <2>3 DEF Send
<1>3. CASE Crash
  BY <1>3, CrashKeeps DEF ItsOwn
<1> QED BY <1>1, <1>2, <1>3 DEF Next

LEMMA Invariant == Spec => []IInv
<1>1. Init => IInv
  BY Start
<1>2. IInv /\ [Next]_vars => IInv'
  BY Step
<1> QED BY <1>1, <1>2, PTL DEF Spec

\* A document's last bytes follow its own, whichever requests come at once, fail
\* or go to the fallback: the chain of print.
THEOREM OneDocumentAtATime == Spec => NoInterleaving
<1>1. IInv /\ [Next]_vars => [ItsOwn]_vars
  BY Step
<1>2. Spec => [][ItsOwn]_vars
  <2> HIDE DEF ItsOwn
  <2> QED BY <1>1, Invariant, PTL DEF Spec
<1> QED BY <1>2 DEF NoInterleaving, ItsOwn

\* A row is PRINTED only when the document is on paper (printThermalReceipt).
THEOREM PrintedRowsAreTrue == Spec => []PrintedIsOnPaper
<1>1. IInv => PrintedIsOnPaper
  BY DEF IInv
<1> QED BY <1>1, Invariant, PTL
=============================================================================

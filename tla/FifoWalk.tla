------------------------------ MODULE FifoWalk ------------------------------
(***************************************************************************)
(* The two loops behind the actions of FifoInventory, one row per step.    *)
(*                                                                         *)
(* allocateFifoSale and adjustFifoInventory lock the rows that have goods, *)
(* oldest first with an approved override in front, and take from one row  *)
(* after another until the request is met; what no row covers becomes a    *)
(* SHORTAGE row.  restoreFifoReturn walks the allocations of a sale line   *)
(* newest first and gives each row back what is still owed to it, for one  *)
(* return after another.  FifoInventory states what a walk as a whole does *)
(* (TakenInOrder, RestoredInOrder); here that is checked of the loops.     *)
(***************************************************************************)
EXTENDS QuantitySums, FiniteSets

CONSTANTS
  MaxBatches,   \* rows of the table; the last is free for a shortage
  Requests,     \* quantities a line may request
  MaxRemaining, \* bound on what a row holds at first
  Today

ASSUME RowBound       == MaxBatches \in Nat \ {0}
ASSUME RequestDomain  == Requests \subseteq Nat \ {0}
ASSUME HoldingBound   == MaxRemaining \in Nat
ASSUME DateDomain     == Today \in Nat \ {0}

VARIABLES
  batch,     \* the rows
  phase,     \* what the transaction is doing
  request,   \* the quantity asked for
  override,  \* the row a manager put in front, 0 for none
  todo,      \* rows the loop has locked and not yet reached
  needed,    \* "needed" of the loop
  take,      \* what the line has taken from each row
  back,      \* what this return has put back on each row
  restored,  \* what earlier returns have put back on each row
  returned,  \* quantity returned so far
  start      \* history: the rows when the walk began

walk == <<batch, phase, request, override, todo, needed, take, back, restored,
          returned, start>>

Batches == 1 .. MaxBatches
Nothing == [b \in Batches |-> 0]
NoRow   == [status |-> "NONE", source |-> "NONE", received |-> 0,
            remaining |-> 0, receivedAt |-> 0]

\* The table and the line as FifoInventory sees them.
Table == INSTANCE FifoInventory WITH
  Sales <- {"line"}, Quantities <- Requests, Counts <- {}, OpeningStock <- {},
  fifoEnabled <- TRUE, snapshot <- 0, rows <- MaxBatches - 1,
  sale <- [s \in {"line"} |-> [status |-> "COMPLETED", quantity |-> request,
                               returned |-> returned]],
  allocated <- [s \in {"line"} |-> take], restored <- [s \in {"line"} |-> restored],
  settled <- {}, voidedStock <- 0

Stocked(remaining, day) ==
  [status |-> IF remaining = 0 THEN "FULLY_CONSUMED" ELSE "POSTED",
   source |-> "BUKKU_PURCHASE", received |-> MaxRemaining, remaining |-> remaining,
   receivedAt |-> day]

WalkInit ==
  /\ \E left \in [1 .. MaxBatches - 1 -> 0 .. MaxRemaining],
        day \in [1 .. MaxBatches - 1 -> 1 .. Today] :
       batch = [b \in Batches |-> IF b = MaxBatches THEN NoRow ELSE Stocked(left[b], day[b])]
  /\ phase = "begin"
  /\ request \in Requests
  /\ override \in 0 .. MaxBatches - 1
  /\ todo = {} /\ needed = 0
  /\ take = Nothing /\ back = Nothing /\ restored = Nothing
  /\ returned = 0
  /\ start = batch

\* The rows WHERE "status" = 'POSTED' AND "remainingQuantity" > 0 FOR UPDATE.
LockRows ==
  /\ phase = "begin"
  /\ Table!OverrideAllowed(batch, override)
  /\ phase' = "taking"
  /\ todo' = {b \in Batches : Table!Available(batch[b]) > 0}
  /\ needed' = request
  /\ start' = batch
  /\ UNCHANGED <<batch, request, override, take, back, restored, returned>>

\* Mutant: rows come in the order they were created, whatever their date.
FirstCreated(b) == \A a \in todo : b <= a

\* The row the loop reaches next.
Foremost(b) == \A a \in todo \ {b} : Table!TakenBefore(start, override, b, a)

\* Mutant: a row is always emptied.
ConsumedWhole(b) == batch[b].remaining

Consumed(b) == IF needed < batch[b].remaining THEN needed ELSE batch[b].remaining

TakeFrom(b) ==
  LET after == batch[b].remaining - Consumed(b)
  IN  /\ phase = "taking"
      /\ needed # 0
      /\ b \in todo
      /\ Foremost(b)
      /\ batch' = [batch EXCEPT ![b].remaining = after,
                     ![b].status = IF after = 0 THEN "FULLY_CONSUMED" ELSE "POSTED"]
      /\ take' = [take EXCEPT ![b] = Consumed(b)]
      /\ needed' = needed - Consumed(b)
      /\ todo' = todo \ {b}
      /\ UNCHANGED <<phase, request, override, back, restored, returned, start>>

\* The rows with what is still needed as a shortage row.
Shorted ==
  IF needed = 0 THEN batch
  ELSE [batch EXCEPT ![MaxBatches] =
          [status |-> "SHORTAGE", source |-> "SALE_SHORTAGE", received |-> -needed,
           remaining |-> -needed, receivedAt |-> Today]]

\* Mutant: the shortage row is not allocated to the line.
EndTakingUnallocated ==
  /\ phase = "taking"
  /\ needed = 0 \/ todo = {}
  /\ phase' = "taken"
  /\ batch' = Shorted
  /\ todo' = {}
  /\ UNCHANGED <<request, override, needed, take, back, restored, returned, start>>

\* The loop ends; a remainder becomes a shortage row that the line owns.
EndTaking ==
  /\ phase = "taking"
  /\ needed = 0 \/ todo = {}
  /\ phase' = "taken"
  /\ batch' = Shorted
  /\ take' = IF needed = 0 THEN take ELSE [take EXCEPT ![MaxBatches] = needed]
  /\ todo' = {}
  /\ UNCHANGED <<request, override, needed, back, restored, returned, start>>

\* A return of part of the line reads its allocations and earlier restores.
BeginReturn(q) ==
  /\ phase \in {"taken", "given"}
  /\ returned + q <= request
  /\ phase' = "giving"
  /\ returned' = returned + q
  /\ needed' = q
  /\ todo' = {b \in Batches : take[b] > 0}
  /\ restored' = [b \in Batches |-> restored[b] + back[b]]
  /\ back' = Nothing
  /\ start' = batch
  /\ UNCHANGED <<batch, request, override, take>>

\* Allocations are walked newest first.
Newest(b) == \A a \in todo \ {b} : Table!OlderThan(start, a, b)

\* Mutant: earlier returns are not taken off.
OwedIgnoringEarlier(b) == take[b]

Owed(b) == take[b] - restored[b]

GiveBack(b) ==
  LET quantity == IF needed < Owed(b) THEN needed ELSE Owed(b)
      after    == batch[b].remaining + quantity
  IN  /\ phase = "giving"
      /\ needed # 0
      /\ b \in todo
      /\ Newest(b)
      /\ todo' = todo \ {b}
      /\ IF Owed(b) > 0
         THEN /\ back' = [back EXCEPT ![b] = quantity]
              /\ needed' = needed - quantity
              /\ batch' = [batch EXCEPT ![b].remaining = after,
                   ![b].status = IF @ # "SHORTAGE" THEN "POSTED"
                                 ELSE IF after = 0 THEN "FULLY_CONSUMED" ELSE "SHORTAGE"]
         ELSE UNCHANGED <<batch, back, needed>>
      /\ UNCHANGED <<phase, request, override, take, restored, returned, start>>

\* The loop ends; a return that is not covered in full is refused.
EndReturn ==
  /\ phase = "giving"
  /\ needed = 0 \/ todo = {}
  /\ phase' = IF needed = 0 THEN "given" ELSE "refused"
  /\ todo' = {}
  /\ UNCHANGED <<batch, request, override, needed, take, back, restored, returned, start>>

WalkNext ==
  \/ LockRows \/ EndTaking \/ EndReturn
  \/ \E b \in Batches : TakeFrom(b) \/ GiveBack(b)
  \/ \E q \in Requests : BeginReturn(q)

WalkSpec == WalkInit /\ [][WalkNext]_walk

-----------------------------------------------------------------------------
(* Properties.                                                             *)

\* Between any two rows of a walk the request is what has been taken, or put
\* back, and what is still needed.
NothingGoesAstray ==
  /\ phase = "taking" => request = SumOf(take, MaxBatches) + needed
  /\ phase = "giving" =>
       returned = SumOf(back, MaxBatches) + SumOf(restored, MaxBatches) + needed
  /\ needed >= 0

\* The walk as a whole takes the rows in order, and leaves them, the shortage
\* included, as FifoInventory says.
TakesInOrder ==
  phase = "taken" =>
    LET taken   == [b \in Batches |-> IF b = MaxBatches THEN 0 ELSE take[b]]
        missing == request - SumOf(taken, MaxBatches)
    IN  /\ Table!TakenInOrder(start, request, override, taken)
        /\ batch = Table!WithShortage(Table!AfterTaking(start, taken), "SALE_SHORTAGE", missing)
        /\ take = [taken EXCEPT ![MaxBatches] = missing]

\* Each return of a line goes back newest first, within what the line took and
\* has not been given back, and leaves the rows as FifoInventory says.
RestoresInOrder ==
  phase = "given" =>
    /\ Table!RestoredInOrder(start, "line", SumOf(back, MaxBatches), back)
    /\ batch = Table!AfterRestoring(start, back)

\* A return of a line sold under FIFO is never refused for want of allocations.
NeverRefused == phase # "refused"
=============================================================================

--------------------------- MODULE FifoInventory ---------------------------
(***************************************************************************)
(* The stock of one tracked product at one location.                       *)
(*                                                                         *)
(* Two tables describe the same goods: StockSnapshot holds one number, the *)
(* quantity on hand, and InventoryBatch holds one row for each delivery or *)
(* shortage, with the quantity that remains of it.  Checkout, returns,     *)
(* voids, purchase receipts, stock counts and shortage settlements change  *)
(* one table, the other or both, and most of them end by asserting that    *)
(* the two agree (assertFifoStockInvariant).  An action is one committed   *)
(* transaction; a transaction that throws leaves every table as it was, so *)
(* it is the absence of a step.                                            *)
(*                                                                         *)
(* Quantities are in base units.  A batch row is known by its position in  *)
(* creation order, which is also how rows with equal "receivedAt" are      *)
(* ordered ("createdAt" ASC).                                              *)
(***************************************************************************)
EXTENDS QuantitySums

CONSTANTS
  MaxBatches,    \* bound on the rows of InventoryBatch
  Sales,         \* sale lines of this product that may be created
  Quantities,    \* quantities that are sold, returned, received or settled
  Counts,        \* quantities a stock count or a batch upload may set
  OpeningStock,  \* stock the product may hold when the model starts
  Today          \* days 1 .. Today may be the date of a delivery

ASSUME BatchBound       == MaxBatches \in Nat
ASSUME QuantityDomain   == Quantities \subseteq Nat \ {0}
ASSUME CountDomain      == Counts \subseteq Int
ASSUME OpeningDomain    == OpeningStock \subseteq Int
ASSUME CalendarDomain   == Today \in Nat \ {0}

VARIABLES
  fifoEnabled,  \* Product.fifoEnabledAt is set
  snapshot,     \* StockSnapshot.quantity
  rows,         \* number of InventoryBatch rows
  batch,        \* batch[b]: row b of InventoryBatch, NoRow when b > rows
  sale,         \* sale[s]: status, base quantity, quantity already returned
  allocated,    \* allocated[s][b]: SaleBatchAllocation rows that consume b
  restored,     \* restored[s][b]: SaleBatchAllocation rows RETURN_RESTORE
  settled,      \* pairs <<shortage, target>> that have settlement events
  voidedStock   \* history: units voids put on the snapshot alone under FIFO

vars == <<fifoEnabled, snapshot, rows, batch, sale, allocated, restored,
          settled, voidedStock>>

Batches == 1 .. MaxBatches

BatchStatus == {"NONE", "DRAFT", "POSTED", "SHORTAGE", "FULLY_CONSUMED"}
BatchSource == {"NONE", "OPENING_LEGACY", "BUKKU_PURCHASE", "STOCK_ADJUSTMENT",
                "SALE_SHORTAGE", "STOCK_ADJUSTMENT_SHORTAGE"}

BatchRow == [status : BatchStatus, source : BatchSource, received : Int,
             remaining : Int, receivedAt : 0 .. Today]

NoRow == [status |-> "NONE", source |-> "NONE", received |-> 0,
          remaining |-> 0, receivedAt |-> 0]

SaleLine == [status : {"NONE", "COMPLETED", "VOIDED"}, quantity : Nat,
             returned : Nat]

NothingTaken == [b \in Batches |-> 0]

-----------------------------------------------------------------------------
(* Reading the batch table.                                                *)

\* What a row adds to the aggregate over status IN ('POSTED', 'SHORTAGE').
Counted(row) == IF row.status \in {"POSTED", "SHORTAGE"} THEN row.remaining ELSE 0

Balance(bs) == SumOf([b \in Batches |-> Counted(bs[b])], MaxBatches)

\* What a row offers to a sale: status 'POSTED' and remainingQuantity > 0.
Available(row) ==
  IF row.status = "POSTED" /\ row.remaining > 0 THEN row.remaining ELSE 0

\* ORDER BY "receivedAt" ASC, "createdAt" ASC.
OlderThan(bs, a, b) ==
  \/ bs[a].receivedAt < bs[b].receivedAt
  \/ bs[a].receivedAt = bs[b].receivedAt /\ a < b

\* The same order with an approved override row moved to the front; row 0
\* stands for no override.
TakenBefore(bs, override, a, b) ==
  \/ a = override /\ b # override
  \/ a # override /\ b # override /\ OlderThan(bs, a, b)

\* Mutant: stock above the batches passes the assertion.
FifoStockInvariantHoldsAtLeast(enabled, quantity, bs) ==
  enabled => quantity >= Balance(bs)

FifoStockInvariantHolds(enabled, quantity, bs) ==
  enabled => quantity = Balance(bs)

-----------------------------------------------------------------------------
(* Consuming and restoring batches.                                        *)

\* take[b] is what the loop over the locked rows takes from row b for a
\* request of q: it stops when q is reached or the rows are exhausted, and
\* opens a row only when those before it are empty.
TakenInOrder(bs, q, override, take) ==
  /\ \A b \in Batches : take[b] \in 0 .. Available(bs[b])
  /\ \/ SumOf(take, MaxBatches) = q
     \/ /\ SumOf(take, MaxBatches) < q
        /\ \A b \in Batches : take[b] = Available(bs[b])
  /\ \A a, b \in Batches :
       TakenBefore(bs, override, a, b) /\ take[b] > 0 => take[a] = Available(bs[a])

OverrideAllowed(bs, override) ==
  override # 0 => Available(bs[override]) > 0

\* Mutant: an emptied row stays POSTED.
AfterTakingStaysPosted(bs, take) ==
  [b \in Batches |-> [bs[b] EXCEPT !.remaining = @ - take[b]]]

AfterTaking(bs, take) ==
  [b \in Batches |->
     IF take[b] = 0 THEN bs[b]
     ELSE [bs[b] EXCEPT
             !.remaining = @ - take[b],
             !.status = IF bs[b].remaining = take[b] THEN "FULLY_CONSUMED" ELSE "POSTED"]]

\* The allocations of a sale give back newest first, each no more than it
\* consumed; anything less than q in total is refused.
RestoredInOrder(bs, s, q, back) ==
  LET owed(b) == allocated[s][b] - restored[s][b]
  IN  /\ \A b \in Batches : back[b] \in 0 .. owed(b)
      /\ SumOf(back, MaxBatches) = q
      /\ \A a, b \in Batches :
           OlderThan(bs, a, b) /\ back[a] > 0 => back[b] = owed(b)

AfterRestoring(bs, back) ==
  [b \in Batches |->
     IF back[b] = 0 THEN bs[b]
     ELSE [bs[b] EXCEPT
             !.remaining = @ + back[b],
             !.status = IF @ # "SHORTAGE" THEN "POSTED"
                        ELSE IF bs[b].remaining + back[b] = 0 THEN "FULLY_CONSUMED"
                        ELSE "SHORTAGE"]]

\* A row inserted now, dated today.
NewRow(status, source, quantity) ==
  [status |-> status, source |-> source, received |-> quantity,
   remaining |-> quantity, receivedAt |-> Today]

\* bs with the part of a request that no row could cover as a SHORTAGE row.
WithShortage(bs, source, missing) ==
  IF missing = 0 THEN bs
  ELSE [bs EXCEPT ![rows + 1] = NewRow("SHORTAGE", source, -missing)]

\* Mutant: the inserted row is not counted.
RowsForUncounted(missing) == rows

RowsFor(missing) == IF missing = 0 THEN rows ELSE rows + 1

\* Mutant: the allocation of an opened row records what the row held.
LineAllocationsOfWholeRows(take, missing) ==
  [b \in Batches |-> IF b > rows /\ b <= RowsFor(missing) THEN missing
                     ELSE IF take[b] > 0 THEN batch[b].remaining ELSE 0]

\* What a line is allocated from each row, its shortage row included.
LineAllocations(take, missing) ==
  [b \in Batches |-> IF b > rows /\ b <= RowsFor(missing) THEN missing ELSE take[b]]

-----------------------------------------------------------------------------
Init ==
  /\ settled = {}
  /\ voidedStock = 0
  /\ sale = [s \in Sales |-> [status |-> "NONE", quantity |-> 0, returned |-> 0]]
  /\ allocated = [s \in Sales |-> NothingTaken]
  /\ restored = [s \in Sales |-> NothingTaken]
  \* Stock held before FIFO is copied into one draft row, by the migration or
  \* by creating the product with an initial quantity.  A product created
  \* with no stock, or with an initial quantity of zero, is under FIFO at once.
  /\ fifoEnabled \in BOOLEAN
  /\ snapshot \in OpeningStock \cup {0}
  /\ rows \in 0 .. 1
  /\ rows <= MaxBatches
  /\ fifoEnabled => snapshot = 0
  /\ ~fifoEnabled => (rows = 1 <=> snapshot # 0)
  /\ batch = [b \in Batches |->
                IF b > rows THEN NoRow
                ELSE [status |-> "DRAFT", source |-> "OPENING_LEGACY",
                      received |-> snapshot, remaining |-> snapshot,
                      receivedAt |-> 1]]

(***************************************************************************)
(* Checkout of one line.  The snapshot is lowered first, below zero if need *)
(* be; under FIFO the line is then allocated, and what the rows cannot     *)
(* cover becomes a SHORTAGE row that the line owns.                        *)
(***************************************************************************)
Checkout(s, q, override) ==
  /\ sale[s].status = "NONE"
  /\ sale' = [sale EXCEPT ![s] = [status |-> "COMPLETED", quantity |-> q, returned |-> 0]]
  /\ snapshot' = snapshot - q
  /\ IF fifoEnabled
     THEN /\ OverrideAllowed(batch, override)
          /\ \E take \in [Batches -> 0 .. q] :
               LET missing == q - SumOf(take, MaxBatches)
                   next    == WithShortage(AfterTaking(batch, take), "SALE_SHORTAGE", missing)
               IN  /\ TakenInOrder(batch, q, override, take)
                   /\ RowsFor(missing) <= MaxBatches
                   /\ FifoStockInvariantHolds(TRUE, snapshot - q, next)
                   /\ batch' = next
                   /\ rows' = RowsFor(missing)
                   /\ allocated' = [allocated EXCEPT ![s] = LineAllocations(take, missing)]
     ELSE UNCHANGED <<rows, batch, allocated>>
  /\ UNCHANGED <<fifoEnabled, restored, settled, voidedStock>>

(***************************************************************************)
(* A manager voids a receipt without returns: the quantity goes back to    *)
(* the snapshot.  The batch table is not touched and nothing is asserted.  *)
(***************************************************************************)
VoidReceipt(s) ==
  /\ sale[s].status = "COMPLETED"
  /\ sale[s].returned = 0
  /\ sale' = [sale EXCEPT ![s].status = "VOIDED"]
  /\ snapshot' = snapshot + sale[s].quantity
  /\ voidedStock' = IF fifoEnabled THEN voidedStock + sale[s].quantity ELSE voidedStock
  /\ UNCHANGED <<fifoEnabled, rows, batch, allocated, restored, settled>>

\* A return that is written off changes no stock.
DisposeReturn(s, q) ==
  /\ sale[s].status = "COMPLETED"
  /\ sale[s].returned + q <= sale[s].quantity
  /\ sale' = [sale EXCEPT ![s].returned = @ + q]
  /\ UNCHANGED <<fifoEnabled, snapshot, rows, batch, allocated, restored, settled,
                 voidedStock>>

\* A refund or exchange puts the goods back; under FIFO, on the rows they
\* came from.
RestockReturn(s, q) ==
  /\ sale[s].status = "COMPLETED"
  /\ sale[s].returned + q <= sale[s].quantity
  /\ sale' = [sale EXCEPT ![s].returned = @ + q]
  /\ snapshot' = snapshot + q
  /\ IF fifoEnabled
     THEN \E back \in [Batches -> 0 .. q] :
            /\ RestoredInOrder(batch, s, q, back)
            /\ FifoStockInvariantHolds(TRUE, snapshot + q, AfterRestoring(batch, back))
            /\ batch' = AfterRestoring(batch, back)
            /\ restored' = [restored EXCEPT ![s] = [b \in Batches |-> @[b] + back[b]]]
     ELSE UNCHANGED <<batch, restored>>
  /\ UNCHANGED <<fifoEnabled, rows, allocated, settled, voidedStock>>

\* A batch upload row receive_purchase inserts a draft with nothing remaining.
DraftPurchase(q, day) ==
  /\ rows < MaxBatches
  /\ rows' = rows + 1
  /\ batch' = [batch EXCEPT ![rows + 1] =
       [status |-> "DRAFT", source |-> "BUKKU_PURCHASE", received |-> q,
        remaining |-> 0, receivedAt |-> day]]
  /\ UNCHANGED <<fifoEnabled, snapshot, sale, allocated, restored, settled, voidedStock>>

LegacyDrafts(bs) ==
  {b \in Batches : bs[b].status = "DRAFT" /\ bs[b].source = "OPENING_LEGACY"}

\* Posting a draft puts its goods on both tables, and puts a product that
\* waits for no legacy review under FIFO.
PostPurchase(b) ==
  LET next    == [batch EXCEPT ![b].status = "POSTED", ![b].remaining = batch[b].received]
      enabled == fifoEnabled \/ LegacyDrafts(batch) = {}
  IN  /\ batch[b].status = "DRAFT"
      /\ batch[b].source = "BUKKU_PURCHASE"
      /\ FifoStockInvariantHolds(enabled, snapshot + batch[b].received, next)
      /\ batch' = next
      /\ snapshot' = snapshot + batch[b].received
      /\ fifoEnabled' = enabled
      /\ UNCHANGED <<rows, sale, allocated, restored, settled, voidedStock>>

\* A manager approves the legacy drafts as they stand.
EnableLegacyFifo ==
  LET next == [b \in Batches |->
                 IF b \in LegacyDrafts(batch)
                 THEN [batch[b] EXCEPT !.status =
                         IF batch[b].remaining = 0 THEN "FULLY_CONSUMED" ELSE "POSTED"]
                 ELSE batch[b]]
  IN  /\ LegacyDrafts(batch) # {}
      /\ FifoStockInvariantHolds(TRUE, snapshot, next)
      /\ batch' = next
      /\ fifoEnabled' = TRUE
      /\ UNCHANGED <<snapshot, rows, sale, allocated, restored, settled, voidedStock>>

\* Mutant: the settled quantity is not taken from the target row.
SettleShortageFromNowhere(short, target, q) ==
  LET after == batch[short].remaining + q
  IN  /\ batch[short].status = "SHORTAGE"
      /\ batch[target].status = "POSTED"
      /\ q <= -batch[short].remaining
      /\ q <= batch[target].remaining
      /\ <<short, target>> \notin settled
      /\ batch' = [batch EXCEPT ![short].remaining = after,
           ![short].status = IF after = 0 THEN "FULLY_CONSUMED" ELSE "SHORTAGE"]
      /\ settled' = settled \cup {<<short, target>>}
      /\ UNCHANGED <<fifoEnabled, snapshot, rows, sale, allocated, restored, voidedStock>>

(***************************************************************************)
(* A manager moves goods from a posted row to a shortage.  The settlement   *)
(* events of a pair have a unique key, so a pair settles once.  Nothing is *)
(* asserted.                                                               *)
(***************************************************************************)
SettleShortage(short, target, q) ==
  LET after == batch[short].remaining + q
  IN  /\ batch[short].status = "SHORTAGE"
      /\ batch[target].status = "POSTED"
      /\ q <= batch[short].remaining \/ q <= -batch[short].remaining
      /\ q <= batch[target].remaining
      /\ <<short, target>> \notin settled
      /\ batch' = [batch EXCEPT
           ![short].remaining = after,
           ![short].status = IF after = 0 THEN "FULLY_CONSUMED" ELSE "SHORTAGE",
           ![target].remaining = @ - q,
           ![target].status = IF batch[target].remaining = q THEN "FULLY_CONSUMED" ELSE "POSTED"]
      /\ settled' = settled \cup {<<short, target>>}
      /\ UNCHANGED <<fifoEnabled, snapshot, rows, sale, allocated, restored, voidedStock>>

(***************************************************************************)
(* A stock count, or a row of a batch upload, sets the quantity.  Under     *)
(* FIFO the difference becomes a new row or is taken from the rows, the    *)
(* uncovered part as an acknowledged SHORTAGE row.                         *)
(***************************************************************************)
AdjustStock(counted, override) ==
  LET delta == counted - snapshot
  IN  /\ snapshot' = counted
      /\ override # 0 => delta < 0
      /\ \/ ~fifoEnabled /\ UNCHANGED <<rows, batch>>
         \/ /\ fifoEnabled
            /\ delta > 0
            /\ rows < MaxBatches
            /\ rows' = rows + 1
            /\ batch' = [batch EXCEPT ![rows + 1] = NewRow("POSTED", "STOCK_ADJUSTMENT", delta)]
            /\ FifoStockInvariantHolds(TRUE, counted, batch')
         \/ /\ fifoEnabled
            /\ delta <= 0
            /\ OverrideAllowed(batch, override)
            /\ \E take \in [Batches -> 0 .. -delta] :
                 LET missing == -delta - SumOf(take, MaxBatches)
                     next    == WithShortage(AfterTaking(batch, take),
                                             "STOCK_ADJUSTMENT_SHORTAGE", missing)
                 IN  /\ TakenInOrder(batch, -delta, override, take)
                     /\ RowsFor(missing) <= MaxBatches
                     /\ FifoStockInvariantHolds(TRUE, counted, next)
                     /\ batch' = next
                     /\ rows' = RowsFor(missing)
      /\ UNCHANGED <<fifoEnabled, sale, allocated, restored, settled, voidedStock>>

Next ==
  \/ \E s \in Sales, q \in Quantities, override \in 0 .. MaxBatches : Checkout(s, q, override)
  \/ \E s \in Sales : VoidReceipt(s)
  \/ \E s \in Sales, q \in Quantities : DisposeReturn(s, q) \/ RestockReturn(s, q)
  \/ \E q \in Quantities, day \in 1 .. Today : DraftPurchase(q, day)
  \/ \E b \in Batches : PostPurchase(b)
  \/ EnableLegacyFifo
  \/ \E short, target \in Batches, q \in Quantities : SettleShortage(short, target, q)
  \/ \E counted \in Counts, override \in 0 .. MaxBatches : AdjustStock(counted, override)

Spec == Init /\ [][Next]_vars

-----------------------------------------------------------------------------
(* Properties.                                                             *)

\* Every table holds values of its columns' types, unused rows are blank and
\* a row's quantities are those its status allows.
TypeOK ==
  /\ fifoEnabled \in BOOLEAN
  /\ snapshot \in Int
  /\ rows \in 0 .. MaxBatches
  /\ batch \in [Batches -> BatchRow]
  /\ \A b \in Batches : b > rows => batch[b] = NoRow
  /\ sale \in [Sales -> SaleLine]
  /\ allocated \in [Sales -> [Batches -> Nat]]
  /\ restored \in [Sales -> [Batches -> Nat]]
  /\ settled \subseteq Batches \X Batches
  /\ voidedStock \in Nat

\* The stock a FIFO product shows on hand is what its posted batches and open
\* shortages add up to, plus exactly the units that voids put back without a
\* batch: no sale, return, receipt, count or settlement ever makes the two
\* tables drift.
StockMatchesBatches ==
  fifoEnabled => snapshot = Balance(batch) + voidedStock

\* What assertFifoStockInvariant asserts, for every committed state.
FifoStockInvariant == FifoStockInvariantHolds(fifoEnabled, snapshot, batch)

\* A line sold under FIFO is allocated in full, once; a line sold before FIFO
\* has no allocation.
AllocationsCoverSale ==
  \A s \in Sales :
    SumOf(allocated[s], MaxBatches) \in {0, sale[s].quantity}

\* No batch gets back from a line more than the line took from it.
RestoredWithinAllocated ==
  \A s \in Sales, b \in Batches : restored[s][b] <= allocated[s][b]

\* Whatever part of a FIFO line may still be returned can be put back on the
\* batches it came from.
ReturnCanBeRestored ==
  \A s \in Sales :
    SumOf(allocated[s], MaxBatches) > 0 =>
      SumOf(allocated[s], MaxBatches) - SumOf(restored[s], MaxBatches)
        >= sale[s].quantity - sale[s].returned

\* The refusal "The original FIFO allocation cannot fully receive this return"
\* never meets a line sold under FIFO, in whatever order restocked and
\* written-off returns come, and no batch is given back more than it gave.
ReturnsFit == AllocationsCoverSale /\ RestoredWithinAllocated /\ ReturnCanBeRestored

\* A row's status tells its balance: a consumed row is empty, and a posted row
\* has goods on it unless it is a legacy row taken over below zero.
StatusTellsBalance ==
  \A b \in Batches :
    /\ batch[b].status = "FULLY_CONSUMED" => batch[b].remaining = 0
    /\ batch[b].status = "SHORTAGE" => batch[b].remaining # 0
    /\ batch[b].status = "POSTED" =>
         batch[b].remaining > 0 \/ (batch[b].source = "OPENING_LEGACY" /\ batch[b].remaining < 0)

\* What the other invariants rest on: a purchase draft holds nothing yet, a row
\* that a sale line consumed is one that can take goods back, a line has
\* allocations only once it is sold, no unreviewed legacy stock is left under
\* FIFO and no void is on record before it.
Bookkeeping ==
  /\ \A b \in Batches :
       batch[b].status = "DRAFT" /\ batch[b].source = "BUKKU_PURCHASE" =>
         batch[b].remaining = 0 /\ batch[b].received > 0
  /\ \A s \in Sales, b \in Batches : allocated[s][b] > 0 =>
       \/ batch[b].status = "POSTED" /\ batch[b].remaining > 0
       \/ batch[b].status \in {"SHORTAGE", "FULLY_CONSUMED"}
  /\ \A s \in Sales :
       IF sale[s].status = "NONE"
       THEN \A b \in Batches : allocated[s][b] = 0 /\ restored[s][b] = 0
       ELSE sale[s].quantity > 0
  /\ fifoEnabled => \A b \in LegacyDrafts(batch) : batch[b].remaining = 0
  /\ ~fifoEnabled => voidedStock = 0

\* The abstract specification of a stock position, seen through this model.
Position == INSTANCE StockPosition WITH
  enabled <- fifoEnabled, onHand <- snapshot, held <- Balance(batch), adrift <- voidedStock

\* Under FIFO the snapshot and the batches move in step in every transaction
\* but a void, and once a void has set them apart no sale, return, receipt or
\* count of the product commits again.
ImplementsPosition == Position!PositionSpec
=============================================================================

----------------------- MODULE FifoInventory_proofs -----------------------
(***************************************************************************)
(* Proofs about FifoInventory: its invariants hold for any number of rows, *)
(* lines and quantities, and it implements StockPosition.                  *)
(***************************************************************************)
EXTENDS FifoInventory, QuantitySums_proofs, TLAPS

IInv ==
  /\ TypeOK
  /\ StockMatchesBatches
  /\ AllocationsCoverSale
  /\ RestoredWithinAllocated
  /\ ReturnCanBeRestored
  /\ StatusTellsBalance
  /\ Bookkeeping

BatchTables == [Batches -> BatchRow]

-----------------------------------------------------------------------------
(* Balances.                                                               *)

\* What a row adds to the aggregate of assertFifoStockInvariant is a number.
LEMMA CountedType == ASSUME NEW row \in BatchRow PROVE Counted(row) \in Int
  BY DEF BatchRow, Counted

\* The aggregate of a table of rows is a number.
LEMMA BalanceType == ASSUME NEW bs \in BatchTables PROVE Balance(bs) \in Int
<1>1. [b \in Batches |-> Counted(bs[b])] \in [1 .. MaxBatches -> Int]
  BY CountedType DEF BatchTables, Batches
<1> QED BY <1>1, SumType, BatchBound DEF Balance

\* If every row of ds counts d more than the row of cs, the balance is the sum
\* of d higher.
LEMMA BalanceAdds ==
  ASSUME NEW cs \in BatchTables, NEW ds \in BatchTables, NEW d \in [Batches -> Int],
         \A b \in Batches : Counted(ds[b]) = Counted(cs[b]) + d[b]
  PROVE  Balance(ds) = Balance(cs) + SumOf(d, MaxBatches)
<1> DEFINE f == [b \in Batches |-> Counted(cs[b])]
<1> DEFINE g == [b \in Batches |-> Counted(ds[b])]
<1>1. f \in [1 .. MaxBatches -> Int] /\ g \in [1 .. MaxBatches -> Int]
  BY CountedType DEF BatchTables, Batches
<1>2. \A b \in 1 .. MaxBatches : g[b] = f[b] + d[b]
  BY DEF Batches
<1>3. d \in [1 .. MaxBatches -> Int]
  BY DEF Batches
<1> HIDE DEF f, g
<1>4. SumOf(g, MaxBatches) = SumOf(f, MaxBatches) + SumOf(d, MaxBatches)
  BY <1>1, <1>2, <1>3, SumAdd, BatchBound
<1> QED BY <1>4 DEF Balance, f, g

\* If only row j counts differently, the balance changes by that difference.
LEMMA BalanceOneRow ==
  ASSUME NEW cs \in BatchTables, NEW ds \in BatchTables, NEW j \in Batches,
         \A b \in Batches : b # j => Counted(ds[b]) = Counted(cs[b])
  PROVE  Balance(ds) = Balance(cs) + (Counted(ds[j]) - Counted(cs[j]))
<1> DEFINE f == [b \in Batches |-> Counted(cs[b])]
<1> DEFINE g == [b \in Batches |-> Counted(ds[b])]
<1>1. f \in [1 .. MaxBatches -> Int] /\ g \in [1 .. MaxBatches -> Int]
  BY CountedType DEF BatchTables, Batches
<1>2. \A b \in 1 .. MaxBatches : b # j => g[b] = f[b]
  BY DEF Batches
<1>3. j \in 1 .. MaxBatches /\ g[j] = Counted(ds[j]) /\ f[j] = Counted(cs[j])
  BY DEF Batches
<1> HIDE DEF f, g
<1>4. SumOf(g, MaxBatches) = SumOf(f, MaxBatches) + (g[j] - f[j])
  BY <1>1, <1>2, <1>3, SumChange, BatchBound
<1> QED BY <1>3, <1>4 DEF Balance, f, g

\* Tables whose rows count the same have the same balance.
LEMMA BalanceSame ==
  ASSUME NEW cs, NEW ds, \A b \in Batches : Counted(ds[b]) = Counted(cs[b])
  PROVE  Balance(ds) = Balance(cs)
<1>1. [b \in Batches |-> Counted(cs[b])] = [b \in Batches |-> Counted(ds[b])]
  OBVIOUS
<1> QED BY <1>1 DEF Balance

-----------------------------------------------------------------------------
(* Consuming and restoring.                                                *)

\* What a consumed table looks like, row by row: rows that gave goods were
\* posted, the rest is untouched, and the uncovered part is one new shortage.
\* The balance falls by exactly the quantity requested.
Consumed(source, q, take, missing, ds) ==
  /\ missing \in 0 .. q
  /\ SumOf(take, MaxBatches) = q - missing
  /\ RowsFor(missing) \in 0 .. MaxBatches /\ rows <= RowsFor(missing)
  /\ ds \in BatchTables
  /\ Balance(ds) = Balance(batch) - q
  /\ \A b \in Batches :
       \/ /\ take[b] = 0
          /\ ~(b > rows /\ b <= RowsFor(missing))
          /\ ds[b] = batch[b]
       \/ /\ take[b] > 0
          /\ ~(b > rows /\ b <= RowsFor(missing))
          /\ batch[b].status = "POSTED" /\ batch[b].remaining > 0
          /\ ds[b].source = batch[b].source
          /\ \/ ds[b].status = "POSTED" /\ ds[b].remaining > 0
             \/ ds[b].status = "FULLY_CONSUMED" /\ ds[b].remaining = 0
       \/ /\ take[b] = 0
          /\ b = rows + 1 /\ RowsFor(missing) = rows + 1 /\ missing > 0
          /\ ds[b].status = "SHORTAGE" /\ ds[b].source = source
          /\ ds[b].remaining = -missing

\* Taking q from the rows in order, with the uncovered part as a SHORTAGE row
\* (the loop shared by allocateFifoSale and adjustFifoInventory), lowers the
\* balance by exactly q.
LEMMA ConsumingMovesBalance ==
  ASSUME TypeOK, NEW q \in Nat, NEW override, NEW take \in [Batches -> 0 .. q],
         NEW source \in BatchSource, TakenInOrder(batch, q, override, take),
         RowsFor(q - SumOf(take, MaxBatches)) <= MaxBatches
  PROVE  LET missing == q - SumOf(take, MaxBatches)
         IN  Consumed(source, q, take, missing,
                      WithShortage(AfterTaking(batch, take), source, missing))
<1> DEFINE total == SumOf(take, MaxBatches)
<1> DEFINE missing == q - total
<1> DEFINE cs == AfterTaking(batch, take)
<1> DEFINE ds == WithShortage(cs, source, missing)
<1>1. /\ batch \in BatchTables
      /\ rows \in 0 .. MaxBatches
      /\ \A b \in Batches : b > rows => batch[b] = NoRow
  BY DEF TypeOK, BatchTables
<1>2. /\ take \in [1 .. MaxBatches -> Nat] /\ take \in [Batches -> Int]
      /\ \A b \in Batches : take[b] \in Nat
  BY DEF Batches
<1>3. total \in Nat /\ total <= q
  <2>1. total \in Nat
    BY <1>2, SumBounds, BatchBound
  <2> QED BY <2>1 DEF TakenInOrder
<1>4. \A b \in Batches : take[b] > 0 =>
        /\ batch[b].status = "POSTED" /\ batch[b].remaining > 0
        /\ take[b] <= batch[b].remaining
        /\ b <= rows
  <2> SUFFICES ASSUME NEW b \in Batches, take[b] > 0
               PROVE  /\ batch[b].status = "POSTED" /\ batch[b].remaining > 0
                      /\ take[b] <= batch[b].remaining
                      /\ b <= rows
    OBVIOUS
  <2>1. take[b] \in 0 .. Available(batch[b])
    BY DEF TakenInOrder
  <2>2. batch[b].status = "POSTED" /\ batch[b].remaining > 0 /\ take[b] <= batch[b].remaining
    BY <2>1, <1>1, <1>2 DEF Available, BatchTables, BatchRow
  <2>3. b <= rows
    BY <2>2, <1>1 DEF NoRow, Batches
  <2> QED BY <2>2, <2>3
<1>5. /\ cs \in BatchTables
      /\ \A b \in Batches :
           /\ Counted(batch[b]) = Counted(cs[b]) + take[b]
           /\ take[b] = 0 => cs[b] = batch[b]
           /\ take[b] > 0 =>
                /\ cs[b].source = batch[b].source
                /\ \/ cs[b].status = "POSTED" /\ cs[b].remaining > 0
                   \/ cs[b].status = "FULLY_CONSUMED" /\ cs[b].remaining = 0
  <2>1. ASSUME NEW b \in Batches
        PROVE  /\ cs[b] \in BatchRow
               /\ Counted(batch[b]) = Counted(cs[b]) + take[b]
               /\ take[b] = 0 => cs[b] = batch[b]
               /\ take[b] > 0 =>
                    /\ cs[b].source = batch[b].source
                    /\ \/ cs[b].status = "POSTED" /\ cs[b].remaining > 0
                       \/ cs[b].status = "FULLY_CONSUMED" /\ cs[b].remaining = 0
    <3>1. batch[b] \in BatchRow
      BY <1>1 DEF BatchTables
    <3>2. CASE take[b] = 0
      <4>1. cs[b] = batch[b]
        BY <3>2 DEF AfterTaking
      <4> QED BY <4>1, <3>1, <3>2, CountedType
    <3>3. CASE take[b] > 0
      <4>1. cs[b] = [batch[b] EXCEPT !.remaining = @ - take[b],
                       !.status = IF batch[b].remaining = take[b] THEN "FULLY_CONSUMED"
                                  ELSE "POSTED"]
        BY <3>3 DEF AfterTaking
      <4>2. batch[b].status = "POSTED" /\ take[b] <= batch[b].remaining
        BY <1>4, <3>3
      <4> DEFINE n == batch[b].remaining - take[b]
      <4> DEFINE st == IF batch[b].remaining = take[b] THEN "FULLY_CONSUMED" ELSE "POSTED"
      <4>3. batch[b].remaining \in Int /\ take[b] \in Int
        BY <3>1, <1>2 DEF BatchRow
      <4>4. n \in Int /\ st \in BatchStatus /\ cs[b] = [batch[b] EXCEPT !.remaining = n, !.status = st]
        BY <4>1, <4>3 DEF BatchStatus
      <4>5. /\ n >= 0
            /\ n = 0 => st = "FULLY_CONSUMED"
            /\ n # 0 => st = "POSTED"
            /\ batch[b].remaining = n + take[b]
        BY <4>2, <4>3
      <4> HIDE DEF n, st, cs
      <4>6. cs[b] \in BatchRow /\ cs[b].remaining = n /\ cs[b].status = st
            /\ cs[b].source = batch[b].source
        BY <4>4, <3>1 DEF BatchRow
      <4>7. Counted(batch[b]) = n + take[b] /\ Counted(cs[b]) = n
        BY <4>2, <4>4, <4>5, <4>6 DEF Counted
      <4> QED BY <3>3, <4>3, <4>4, <4>5, <4>6, <4>7
    <3> QED BY <3>2, <3>3, <1>2
  <2>2. cs \in BatchTables
    BY <2>1 DEF AfterTaking, BatchTables
  <2> QED BY <2>1, <2>2
<1> HIDE DEF cs
<1>6. Balance(batch) = Balance(cs) + total /\ Balance(cs) \in Int /\ Balance(batch) \in Int
  BY <1>1, <1>2, <1>5, BalanceAdds, BalanceType
<1>7. missing \in 0 .. q /\ missing \in Nat
  BY <1>3
<1>8. CASE missing = 0
  <2>1. ds = cs /\ RowsFor(missing) = rows
    BY <1>8 DEF WithShortage, RowsFor
  <2>2. Balance(ds) = Balance(batch) - q
    BY <2>1, <1>6, <1>3, <1>8
  <2> HIDE DEF ds, missing
  <2>3. Consumed(source, q, take, missing, ds)
    <3>1. SumOf(take, MaxBatches) = q - missing
      BY <1>3 DEF missing
    <3>2. \A b \in Batches : ~(b > rows /\ b <= rows)
      BY <1>1 DEF Batches
    <3>3. ASSUME NEW b \in Batches
          PROVE  \/ take[b] = 0 /\ ds[b] = batch[b]
                 \/ /\ take[b] > 0
                    /\ batch[b].status = "POSTED" /\ batch[b].remaining > 0
                    /\ ds[b].source = batch[b].source
                    /\ \/ ds[b].status = "POSTED" /\ ds[b].remaining > 0
                       \/ ds[b].status = "FULLY_CONSUMED" /\ ds[b].remaining = 0
      BY <1>2, <1>4, <1>5, <2>1
    <3>4. RowsFor(missing) \in 0 .. MaxBatches /\ rows <= RowsFor(missing)
      BY <1>1, <2>1
    <3>5. ds \in BatchTables
      BY <1>5, <2>1
    <3> QED BY <1>7, <2>1, <2>2, <3>1, <3>2, <3>3, <3>4, <3>5, Zenon DEF Consumed
  <2> QED BY <2>3 DEF ds, missing, cs
<1>9. CASE missing # 0
  <2> DEFINE new == NewRow("SHORTAGE", source, -missing)
  <2>1. /\ ds = [cs EXCEPT ![rows + 1] = new]
        /\ RowsFor(missing) = rows + 1
        /\ rows + 1 \in Batches
    BY <1>9, <1>1, BatchBound DEF WithShortage, RowsFor, Batches
  <2>2. new \in BatchRow /\ Counted(new) = -missing
    BY <1>7, CalendarDomain DEF NewRow, BatchRow, BatchStatus, Counted
  <2>3. ds \in BatchTables /\ \A b \in Batches : ds[b] = IF b = rows + 1 THEN new ELSE cs[b]
    BY <2>1, <2>2, <1>5 DEF BatchTables
  <2>4. batch[rows + 1] = NoRow /\ take[rows + 1] = 0 /\ cs[rows + 1] = NoRow
    <3>1. rows + 1 > rows
      BY <1>1
    <3>2. batch[rows + 1] = NoRow
      BY <3>1, <2>1, <1>1
    <3>3. take[rows + 1] = 0
      BY <3>2, <2>1, <1>2, <1>4 DEF NoRow
    <3> QED BY <3>2, <3>3, <2>1, <1>5
  <2>5. Balance(ds) = Balance(cs) + (Counted(ds[rows + 1]) - Counted(cs[rows + 1]))
    <3>1. \A b \in Batches : b # rows + 1 => Counted(ds[b]) = Counted(cs[b])
      BY <2>3
    <3> HIDE DEF ds
    <3> QED BY <3>1, <2>1, <2>3, <1>5, BalanceOneRow
  <2>6. Counted(ds[rows + 1]) = -missing /\ Counted(cs[rows + 1]) = 0
    BY <2>1, <2>2, <2>3, <2>4 DEF Counted, NoRow
  <2>7. Balance(ds) = Balance(batch) - q
    BY <2>5, <2>6, <1>6, <1>3
  <2>8. ds[rows + 1].status = "SHORTAGE" /\ ds[rows + 1].source = source
        /\ ds[rows + 1].remaining = -missing
    BY <2>1, <2>3 DEF NewRow
  <2> HIDE DEF ds, missing, new
  <2>9. Consumed(source, q, take, missing, ds)
    <3>1. SumOf(take, MaxBatches) = q - missing
      BY <1>3 DEF missing
    <3>2. rows + 1 \in 0 .. MaxBatches /\ rows <= rows + 1 /\ missing > 0
      BY <1>1, <2>1, <1>7, <1>9 DEF Batches
    <3>3. ASSUME NEW b \in Batches, b # rows + 1
          PROVE  /\ ~(b > rows /\ b <= rows + 1)
                 /\ \/ take[b] = 0 /\ ds[b] = batch[b]
                    \/ /\ take[b] > 0
                       /\ batch[b].status = "POSTED" /\ batch[b].remaining > 0
                       /\ ds[b].source = batch[b].source
                       /\ \/ ds[b].status = "POSTED" /\ ds[b].remaining > 0
                          \/ ds[b].status = "FULLY_CONSUMED" /\ ds[b].remaining = 0
      <4>1. ~(b > rows /\ b <= rows + 1)
        BY <3>3, <1>1 DEF Batches
      <4>2. ds[b] = cs[b]
        BY <2>3, <3>3
      <4> QED BY <4>1, <4>2, <1>2, <1>4, <1>5
    <3>4. RowsFor(missing) \in 0 .. MaxBatches /\ rows <= RowsFor(missing)
      BY <2>1, <3>2
    <3> QED BY <1>7, <2>1, <2>3, <2>4, <2>7, <2>8, <3>1, <3>2, <3>3, <3>4, Zenon DEF Consumed
  <2> QED BY <2>9 DEF ds, missing, cs
<1> QED BY <1>8, <1>9

\* What a table looks like after a return of q units: rows that get goods back
\* were consumed by the line and can hold them, the rest is untouched.  The
\* balance rises by exactly the quantity returned.
Restocked(s, q, back, ds) ==
  /\ ds \in BatchTables
  /\ Balance(ds) = Balance(batch) + q
  /\ SumOf(back, MaxBatches) = q
  /\ \A b \in Batches :
       /\ restored[s][b] + back[b] <= allocated[s][b]
       /\ \/ back[b] = 0 /\ ds[b] = batch[b]
          \/ /\ back[b] > 0
             /\ batch[b].status \in {"POSTED", "SHORTAGE", "FULLY_CONSUMED"}
             /\ ds[b].source = batch[b].source
             /\ \/ ds[b].status = "POSTED" /\ ds[b].remaining > 0
                \/ ds[b].status = "FULLY_CONSUMED" /\ ds[b].remaining = 0
                \/ ds[b].status = "SHORTAGE" /\ ds[b].remaining # 0

\* Putting q back on the rows a line consumed (restoreFifoReturn) raises the
\* balance by exactly q and leaves every row with a status that tells it.
LEMMA RestoringMovesBalance ==
  ASSUME TypeOK, StatusTellsBalance, RestoredWithinAllocated, Bookkeeping,
         NEW s \in Sales, NEW q \in Nat, NEW back \in [Batches -> 0 .. q],
         RestoredInOrder(batch, s, q, back)
  PROVE  Restocked(s, q, back, AfterRestoring(batch, back))
<1> DEFINE ds == AfterRestoring(batch, back)
<1>1. /\ batch \in BatchTables
      /\ back \in [Batches -> Int]
      /\ \A b \in Batches : /\ batch[b] \in BatchRow /\ back[b] \in Nat
                            /\ restored[s][b] \in Nat /\ allocated[s][b] \in Nat
                            /\ restored[s][b] <= allocated[s][b]
  BY DEF TypeOK, BatchTables, RestoredWithinAllocated
<1>2. ASSUME NEW b \in Batches
      PROVE  restored[s][b] + back[b] <= allocated[s][b]
  <2>1. back[b] \in 0 .. (allocated[s][b] - restored[s][b])
    BY DEF RestoredInOrder
  <2> QED BY <2>1, <1>1
<1>3. ASSUME NEW b \in Batches
      PROVE  /\ ds[b] \in BatchRow
             /\ Counted(ds[b]) = Counted(batch[b]) + back[b]
             /\ back[b] = 0 => ds[b] = batch[b]
             /\ back[b] > 0 =>
                  /\ batch[b].status \in {"POSTED", "SHORTAGE", "FULLY_CONSUMED"}
                  /\ ds[b].source = batch[b].source
                  /\ \/ ds[b].status = "POSTED" /\ ds[b].remaining > 0
                     \/ ds[b].status = "FULLY_CONSUMED" /\ ds[b].remaining = 0
                     \/ ds[b].status = "SHORTAGE" /\ ds[b].remaining # 0
  <2>1. batch[b] \in BatchRow /\ back[b] \in Nat
    BY <1>1
  <2>2. CASE back[b] = 0
    <3>1. ds[b] = batch[b]
      BY <2>2 DEF AfterRestoring
    <3> QED BY <3>1, <2>1, <2>2, CountedType
  <2>3. CASE back[b] > 0
    <3> DEFINE n == batch[b].remaining + back[b]
    <3> DEFINE st == IF batch[b].status # "SHORTAGE" THEN "POSTED"
                     ELSE IF n = 0 THEN "FULLY_CONSUMED" ELSE "SHORTAGE"
    <3>1. n \in Int /\ st \in BatchStatus /\ ds[b] = [batch[b] EXCEPT !.remaining = n, !.status = st]
      BY <2>1, <2>3 DEF AfterRestoring, BatchRow, BatchStatus
    <3>2. allocated[s][b] > 0
      BY <1>1, <1>2, <2>3
    <3>3. \/ batch[b].status = "POSTED" /\ batch[b].remaining > 0
          \/ batch[b].status = "SHORTAGE"
          \/ batch[b].status = "FULLY_CONSUMED" /\ batch[b].remaining = 0
      BY <3>2 DEF Bookkeeping, StatusTellsBalance
    <3>4. /\ batch[b].status = "POSTED" => st = "POSTED" /\ n > 0
          /\ batch[b].status = "FULLY_CONSUMED" => st = "POSTED" /\ n > 0
          /\ batch[b].status = "SHORTAGE" =>
               \/ st = "FULLY_CONSUMED" /\ n = 0
               \/ st = "SHORTAGE" /\ n # 0
      BY <3>3, <2>1, <2>3 DEF BatchRow
    <3>5. n = batch[b].remaining + back[b]
      OBVIOUS
    <3> HIDE DEF n, st, ds
    <3>6. ds[b] \in BatchRow /\ ds[b].remaining = n /\ ds[b].status = st
          /\ ds[b].source = batch[b].source
      BY <3>1, <2>1 DEF BatchRow
    <3>7. Counted(ds[b]) = Counted(batch[b]) + back[b]
      BY <3>3, <3>4, <3>5, <3>6, <3>1, <2>1 DEF Counted, BatchRow
    <3> QED BY <2>3, <3>3, <3>4, <3>6, <3>7
  <2> QED BY <2>1, <2>2, <2>3
<1>4. ds \in BatchTables
  BY <1>3 DEF AfterRestoring, BatchTables
<1>5. SumOf(back, MaxBatches) = q
  BY DEF RestoredInOrder
<1> HIDE DEF ds
<1>6. Balance(ds) = Balance(batch) + q
  BY <1>1, <1>3, <1>4, <1>5, BalanceAdds
<1>7. ASSUME NEW b \in Batches
      PROVE  \/ back[b] = 0 /\ ds[b] = batch[b]
             \/ /\ back[b] > 0
                /\ batch[b].status \in {"POSTED", "SHORTAGE", "FULLY_CONSUMED"}
                /\ ds[b].source = batch[b].source
                /\ \/ ds[b].status = "POSTED" /\ ds[b].remaining > 0
                   \/ ds[b].status = "FULLY_CONSUMED" /\ ds[b].remaining = 0
                   \/ ds[b].status = "SHORTAGE" /\ ds[b].remaining # 0
  BY <1>1, <1>3
<1>8. Restocked(s, q, back, ds)
  BY <1>2, <1>4, <1>5, <1>6, <1>7 DEF Restocked
<1> QED BY <1>8 DEF ds

-----------------------------------------------------------------------------
(* Each action preserves the invariant.                                    *)

\* The rows of a consumed table are as their statuses say.
LEMMA ConsumedRows ==
  ASSUME TypeOK, StatusTellsBalance, Bookkeeping, NEW q \in Nat, NEW missing,
         NEW take \in [Batches -> 0 .. q], NEW source \in BatchSource \ {"BUKKU_PURCHASE"},
         NEW ds, Consumed(source, q, take, missing, ds)
  PROVE  \A b \in Batches :
           /\ b > RowsFor(missing) => ds[b] = NoRow
           /\ ds[b].status = "FULLY_CONSUMED" => ds[b].remaining = 0
           /\ ds[b].status = "SHORTAGE" => ds[b].remaining # 0
           /\ ds[b].status = "POSTED" =>
                ds[b].remaining > 0 \/ (ds[b].source = "OPENING_LEGACY" /\ ds[b].remaining < 0)
           /\ ds[b].status = "DRAFT" => ds[b] = batch[b]
           /\ \/ batch[b].status = "POSTED" /\ batch[b].remaining > 0
              \/ batch[b].status \in {"SHORTAGE", "FULLY_CONSUMED"}
              \/ take[b] > 0
              \/ b > rows /\ b <= RowsFor(missing)
              => \/ ds[b].status = "POSTED" /\ ds[b].remaining > 0
                 \/ ds[b].status \in {"SHORTAGE", "FULLY_CONSUMED"}
<1> SUFFICES ASSUME NEW b \in Batches
             PROVE  /\ b > RowsFor(missing) => ds[b] = NoRow
                    /\ ds[b].status = "FULLY_CONSUMED" => ds[b].remaining = 0
                    /\ ds[b].status = "SHORTAGE" => ds[b].remaining # 0
                    /\ ds[b].status = "POSTED" =>
                         ds[b].remaining > 0 \/ (ds[b].source = "OPENING_LEGACY" /\ ds[b].remaining < 0)
                    /\ ds[b].status = "DRAFT" => ds[b] = batch[b]
                    /\ \/ batch[b].status = "POSTED" /\ batch[b].remaining > 0
                       \/ batch[b].status \in {"SHORTAGE", "FULLY_CONSUMED"}
                       \/ take[b] > 0
                       \/ b > rows /\ b <= RowsFor(missing)
                       => \/ ds[b].status = "POSTED" /\ ds[b].remaining > 0
                          \/ ds[b].status \in {"SHORTAGE", "FULLY_CONSUMED"}
  OBVIOUS
<1>1. /\ missing \in 0 .. q
      /\ rows \in 0 .. MaxBatches /\ RowsFor(missing) \in 0 .. MaxBatches
      /\ rows <= RowsFor(missing)
      /\ b > rows => batch[b] = NoRow
  BY DEF TypeOK, Consumed
<1>2. CASE /\ take[b] = 0
           /\ ~(b > rows /\ b <= RowsFor(missing))
           /\ ds[b] = batch[b]
  BY <1>1, <1>2 DEF StatusTellsBalance, Batches
<1>3. CASE /\ take[b] > 0
           /\ batch[b].status = "POSTED"
           /\ \/ ds[b].status = "POSTED" /\ ds[b].remaining > 0
              \/ ds[b].status = "FULLY_CONSUMED" /\ ds[b].remaining = 0
  <2>1. b <= rows
    BY <1>1, <1>3 DEF NoRow, Batches
  <2>2. ~(b > RowsFor(missing))
    BY <1>1, <2>1 DEF Batches
  <2> QED BY <1>3, <2>2
<1>4. CASE /\ take[b] = 0
           /\ b = rows + 1 /\ RowsFor(missing) = rows + 1 /\ missing > 0
           /\ ds[b].status = "SHORTAGE" /\ ds[b].source = source
           /\ ds[b].remaining = -missing
  <2>1. ~(b > RowsFor(missing)) /\ -missing # 0
    BY <1>1, <1>4
  <2> QED BY <1>4, <2>1
<1> QED BY <1>2, <1>3, <1>4 DEF Consumed

\* What a line owns once it is allocated adds up to the quantity sold.
LEMMA AllocatedInFull ==
  ASSUME TypeOK, NEW q \in Nat, NEW missing, NEW take \in [Batches -> 0 .. q],
         NEW source, NEW ds, Consumed(source, q, take, missing, ds),
         NEW a, a = [b \in Batches |-> IF b > rows /\ b <= RowsFor(missing) THEN missing
                                       ELSE take[b]]
  PROVE  a \in [Batches -> Nat] /\ SumOf(a, MaxBatches) = q
<1>1. missing \in 0 .. q /\ missing \in Nat /\ SumOf(take, MaxBatches) = q - missing
      /\ rows \in 0 .. MaxBatches
  BY DEF Consumed, TypeOK
<1>2. a \in [Batches -> Nat] /\ a \in [1 .. MaxBatches -> Int] /\ take \in [1 .. MaxBatches -> Int]
  BY <1>1 DEF Batches
<1>3. CASE missing = 0
  <2>1. RowsFor(missing) = rows
    BY <1>3 DEF RowsFor
  <2>2. \A b \in Batches : a[b] = take[b]
    BY <2>1, <1>1 DEF Batches
  <2>3. a = take
    BY <2>2
  <2>4. SumOf(a, MaxBatches) = SumOf(take, MaxBatches)
    BY <2>3, Zenon
  <2> QED BY <2>4, <1>1, <1>2, <1>3
<1>4. CASE missing # 0
  <2>1. RowsFor(missing) = rows + 1 /\ rows + 1 \in Batches
    BY <1>4, <1>1, BatchBound DEF RowsFor, Consumed, Batches
  <2>2. take[rows + 1] = 0 /\ a[rows + 1] = missing
    BY <2>1, <1>1 DEF Consumed
  <2>3. \A b \in 1 .. MaxBatches : b # rows + 1 => a[b] = take[b]
    BY <2>1, <1>1 DEF Batches
  <2>4. SumOf(a, MaxBatches) = SumOf(take, MaxBatches) + (a[rows + 1] - take[rows + 1])
    <3>1. rows + 1 \in 1 .. MaxBatches
      BY <2>1 DEF Batches
    <3> HIDE DEF Batches
    <3> QED BY <3>1, <2>3, <1>2, SumChange, BatchBound
  <2> QED BY <2>2, <2>4, <1>1, <1>2
<1> QED BY <1>3, <1>4

\* A committed checkout line preserves the inductive invariant.
LEMMA CheckoutPreserves ==
  ASSUME IInv, NEW s \in Sales, NEW q \in Quantities, NEW override \in 0 .. MaxBatches,
         Checkout(s, q, override)
  PROVE  IInv'
<1> USE DEF IInv
<1>1. q \in Nat /\ q > 0
  BY QuantityDomain
<1>2. /\ sale' \in [Sales -> SaleLine]
      /\ sale'[s].status = "COMPLETED" /\ sale'[s].quantity = q /\ sale'[s].returned = 0
      /\ \A t \in Sales : t # s => sale'[t] = sale[t]
  BY <1>1 DEF Checkout, TypeOK, SaleLine
<1>3. /\ sale[s].status = "NONE" /\ snapshot' = snapshot - q
      /\ fifoEnabled' = fifoEnabled /\ restored' = restored
      /\ settled' = settled /\ voidedStock' = voidedStock
  BY DEF Checkout
<1>4. \A b \in Batches : allocated[s][b] = 0 /\ restored[s][b] = 0
  BY <1>3 DEF Bookkeeping
<1>5. restored \in [Sales -> [Batches -> Nat]] /\ allocated \in [Sales -> [Batches -> Nat]]
  BY DEF TypeOK
<1>6. SumOf(restored[s], MaxBatches) = 0 /\ SumOf(allocated[s], MaxBatches) = 0
  <2>1. restored[s] \in [1 .. MaxBatches -> Int] /\ allocated[s] \in [1 .. MaxBatches -> Int]
    BY <1>5 DEF Batches
  <2>2. \A b \in 1 .. MaxBatches : allocated[s][b] = 0 /\ restored[s][b] = 0
    BY <1>4 DEF Batches
  <2> QED BY <2>1, <2>2, SumZero, BatchBound
<1>7. CASE ~fifoEnabled
  <2>1. rows' = rows /\ batch' = batch /\ allocated' = allocated
    BY <1>7 DEF Checkout
  <2>2. TypeOK'
    BY <1>1, <1>2, <1>3, <2>1 DEF TypeOK
  <2>3. StockMatchesBatches'
    BY <1>3, <1>7 DEF StockMatchesBatches
  <2>4. AllocationsCoverSale'
    BY <1>2, <1>6, <2>1 DEF AllocationsCoverSale
  <2>5. RestoredWithinAllocated'
    BY <1>3, <2>1 DEF RestoredWithinAllocated
  <2>6. ReturnCanBeRestored'
    BY <1>2, <1>3, <1>6, <2>1 DEF ReturnCanBeRestored
  <2>7. StatusTellsBalance'
    BY <2>1 DEF StatusTellsBalance
  <2>8. Bookkeeping'
    BY <1>1, <1>2, <1>3, <2>1, <1>7 DEF Bookkeeping
  <2> QED BY <2>2, <2>3, <2>4, <2>5, <2>6, <2>7, <2>8
<1>8. CASE fifoEnabled
  <2>1. PICK take \in [Batches -> 0 .. q] :
          LET missing == q - SumOf(take, MaxBatches)
              next    == WithShortage(AfterTaking(batch, take), "SALE_SHORTAGE", missing)
          IN  /\ TakenInOrder(batch, q, override, take)
              /\ RowsFor(missing) <= MaxBatches
              /\ FifoStockInvariantHolds(TRUE, snapshot - q, next)
              /\ batch' = next
              /\ rows' = RowsFor(missing)
              /\ allocated' = [allocated EXCEPT ![s] = LineAllocations(take, missing)]
    BY <1>8, Zenon DEF Checkout
  <2> DEFINE missing == q - SumOf(take, MaxBatches)
  <2> DEFINE a == [b \in Batches |-> IF b > rows /\ b <= RowsFor(missing) THEN missing
                                     ELSE take[b]]
  <2>2. Consumed("SALE_SHORTAGE", q, take, missing, batch')
    BY <1>1, <2>1, ConsumingMovesBalance DEF BatchSource
  <2>3. rows' = RowsFor(missing) /\ allocated' = [allocated EXCEPT ![s] = a]
    BY <2>1 DEF LineAllocations
  <2> HIDE DEF missing
  <2>4. a \in [Batches -> Nat] /\ SumOf(a, MaxBatches) = q
    BY <1>1, <2>2, AllocatedInFull
  <2>5. \A b \in Batches : a[b] > 0 => take[b] > 0 \/ (b > rows /\ b <= RowsFor(missing))
    OBVIOUS
  <2> HIDE DEF a
  <2>6. allocated' \in [Sales -> [Batches -> Nat]] /\ allocated'[s] = a
        /\ \A t \in Sales : t # s => allocated'[t] = allocated[t]
    BY <2>3, <2>4, <1>5
  <2>7. \A b \in Batches :
           /\ b > RowsFor(missing) => batch'[b] = NoRow
           /\ batch'[b].status = "FULLY_CONSUMED" => batch'[b].remaining = 0
           /\ batch'[b].status = "SHORTAGE" => batch'[b].remaining # 0
           /\ batch'[b].status = "POSTED" =>
                \/ batch'[b].remaining > 0
                \/ batch'[b].source = "OPENING_LEGACY" /\ batch'[b].remaining < 0
           /\ batch'[b].status = "DRAFT" => batch'[b] = batch[b]
           /\ \/ batch[b].status = "POSTED" /\ batch[b].remaining > 0
              \/ batch[b].status \in {"SHORTAGE", "FULLY_CONSUMED"}
              \/ take[b] > 0
              \/ b > rows /\ b <= RowsFor(missing)
              => \/ batch'[b].status = "POSTED" /\ batch'[b].remaining > 0
                 \/ batch'[b].status \in {"SHORTAGE", "FULLY_CONSUMED"}
    BY <1>1, <2>2, ConsumedRows DEF BatchSource
  <2>8. batch' \in BatchTables /\ rows' \in 0 .. MaxBatches /\ Balance(batch') = Balance(batch) - q
    BY <2>2, <2>3 DEF Consumed
  <2>9. TypeOK'
    BY <1>1, <1>2, <1>3, <2>3, <2>6, <2>7, <2>8 DEF TypeOK, BatchTables
  <2>10. StockMatchesBatches'
    <3>1. snapshot = Balance(batch) + voidedStock
      BY <1>8 DEF StockMatchesBatches
    <3>2. Balance(batch) \in Int /\ voidedStock \in Nat /\ snapshot \in Int
      BY BalanceType DEF TypeOK, BatchTables
    <3>3. snapshot - q = (Balance(batch) - q) + voidedStock
      BY <1>1, <3>1, <3>2
    <3> QED BY <3>3, <2>8, <1>3 DEF StockMatchesBatches
  <2>11. AllocationsCoverSale'
    BY <1>2, <2>4, <2>6 DEF AllocationsCoverSale
  <2>12. RestoredWithinAllocated'
    <3>1. ASSUME NEW b \in Batches PROVE restored[s][b] <= a[b]
      BY <1>4, <2>4
    <3> QED BY <1>3, <2>6, <3>1 DEF RestoredWithinAllocated
  <2>13. ReturnCanBeRestored'
    <3>1. SumOf(a, MaxBatches) - SumOf(restored[s], MaxBatches) >= q - 0
      BY <1>1, <1>6, <2>4
    <3> QED BY <1>2, <1>3, <2>6, <3>1 DEF ReturnCanBeRestored
  <2>14. StatusTellsBalance'
    BY <2>7 DEF StatusTellsBalance
  <2>15. Bookkeeping'
    <3>1. \A b \in Batches : batch'[b].status = "DRAFT" /\ batch'[b].source = "BUKKU_PURCHASE" =>
             batch'[b].remaining = 0 /\ batch'[b].received > 0
      BY <2>7 DEF Bookkeeping
    <3>2. \A t \in Sales, b \in Batches : allocated'[t][b] > 0 =>
             \/ batch'[b].status = "POSTED" /\ batch'[b].remaining > 0
             \/ batch'[b].status \in {"SHORTAGE", "FULLY_CONSUMED"}
      <4> SUFFICES ASSUME NEW t \in Sales, NEW b \in Batches, allocated'[t][b] > 0
                   PROVE  \/ batch'[b].status = "POSTED" /\ batch'[b].remaining > 0
                          \/ batch'[b].status \in {"SHORTAGE", "FULLY_CONSUMED"}
        OBVIOUS
      <4>1. CASE t = s
        BY <4>1, <2>5, <2>6, <2>7
      <4>2. CASE t # s
        BY <4>2, <2>6, <2>7 DEF Bookkeeping
      <4> QED BY <4>1, <4>2
    <3>3. \A t \in Sales :
            IF sale'[t].status = "NONE"
            THEN \A b \in Batches : allocated'[t][b] = 0 /\ restored'[t][b] = 0
            ELSE sale'[t].quantity > 0
      BY <1>1, <1>2, <1>3, <2>6 DEF Bookkeeping
    <3>4. \A b \in LegacyDrafts(batch') : batch'[b].remaining = 0
      BY <2>7, <1>8 DEF Bookkeeping, LegacyDrafts
    <3> QED BY <1>3, <1>8, <3>1, <3>2, <3>3, <3>4 DEF Bookkeeping
  <2> QED BY <2>9, <2>10, <2>11, <2>12, <2>13, <2>14, <2>15
<1> QED BY <1>7, <1>8

\* An action that leaves the lines and their allocations alone keeps what is
\* said about them.
LEMMA LinesUntouched ==
  ASSUME IInv, UNCHANGED <<sale, allocated, restored>>
  PROVE  AllocationsCoverSale' /\ RestoredWithinAllocated' /\ ReturnCanBeRestored'
BY DEF IInv, AllocationsCoverSale, RestoredWithinAllocated, ReturnCanBeRestored

\* A void preserves the inductive invariant: under FIFO the units it puts on
\* the snapshot are counted in voidedStock.
LEMMA VoidReceiptPreserves ==
  ASSUME IInv, NEW s \in Sales, VoidReceipt(s)
  PROVE  IInv'
<1> USE DEF IInv
<1>1. /\ sale[s].status = "COMPLETED" /\ snapshot' = snapshot + sale[s].quantity
      /\ sale' = [sale EXCEPT ![s].status = "VOIDED"]
      /\ voidedStock' = IF fifoEnabled THEN voidedStock + sale[s].quantity ELSE voidedStock
      /\ fifoEnabled' = fifoEnabled /\ rows' = rows /\ batch' = batch
      /\ allocated' = allocated /\ restored' = restored /\ settled' = settled
  BY DEF VoidReceipt
<1>2. sale[s] \in SaleLine /\ sale[s].quantity \in Nat
  BY DEF TypeOK, SaleLine
<1>3. /\ sale' \in [Sales -> SaleLine]
      /\ sale'[s].status = "VOIDED"
      /\ \A t \in Sales : /\ sale'[t].quantity = sale[t].quantity
                          /\ sale'[t].returned = sale[t].returned
                          /\ t # s => sale'[t] = sale[t]
  BY <1>1 DEF TypeOK, SaleLine
<1>4. TypeOK'
  BY <1>1, <1>2, <1>3 DEF TypeOK
<1>5. StockMatchesBatches'
  <2>1. Balance(batch) \in Int /\ voidedStock \in Nat /\ snapshot \in Int
    BY BalanceType DEF TypeOK, BatchTables
  <2> QED BY <2>1, <1>1, <1>2 DEF StockMatchesBatches
<1>6. AllocationsCoverSale' /\ RestoredWithinAllocated' /\ ReturnCanBeRestored'
  BY <1>1, <1>3 DEF AllocationsCoverSale, RestoredWithinAllocated, ReturnCanBeRestored
<1>7. StatusTellsBalance'
  BY <1>1 DEF StatusTellsBalance
<1>8. Bookkeeping'
  <2>1. \A t \in Sales :
          IF sale'[t].status = "NONE"
          THEN \A b \in Batches : allocated'[t][b] = 0 /\ restored'[t][b] = 0
          ELSE sale'[t].quantity > 0
    BY <1>1, <1>3 DEF Bookkeeping
  <2> QED BY <1>1, <2>1 DEF Bookkeeping
<1> QED BY <1>4, <1>5, <1>6, <1>7, <1>8

\* A written-off return preserves the inductive invariant.
LEMMA DisposeReturnPreserves ==
  ASSUME IInv, NEW s \in Sales, NEW q \in Quantities, DisposeReturn(s, q)
  PROVE  IInv'
<1> USE DEF IInv
<1>1. /\ sale[s].status = "COMPLETED"
      /\ sale' = [sale EXCEPT ![s].returned = @ + q]
      /\ fifoEnabled' = fifoEnabled /\ snapshot' = snapshot /\ rows' = rows /\ batch' = batch
      /\ allocated' = allocated /\ restored' = restored /\ settled' = settled
      /\ voidedStock' = voidedStock
  BY DEF DisposeReturn
<1>2. q \in Nat /\ sale[s] \in SaleLine
  BY QuantityDomain DEF TypeOK
<1>3. /\ sale' \in [Sales -> SaleLine]
      /\ sale'[s].status = "COMPLETED" /\ sale'[s].returned = sale[s].returned + q
      /\ \A t \in Sales : /\ sale'[t].quantity = sale[t].quantity
                          /\ sale'[t].status = sale[t].status
                          /\ t # s => sale'[t] = sale[t]
  BY <1>1, <1>2 DEF TypeOK, SaleLine
<1>4. TypeOK'
  BY <1>1, <1>3 DEF TypeOK
<1>5. StockMatchesBatches' /\ AllocationsCoverSale' /\ RestoredWithinAllocated'
  BY <1>1, <1>3 DEF StockMatchesBatches, AllocationsCoverSale, RestoredWithinAllocated
<1>6. ReturnCanBeRestored'
  <2> SUFFICES ASSUME NEW t \in Sales, SumOf(allocated[t], MaxBatches) > 0
               PROVE  SumOf(allocated[t], MaxBatches) - SumOf(restored[t], MaxBatches)
                        >= sale'[t].quantity - sale'[t].returned
    BY <1>1 DEF ReturnCanBeRestored
  <2>1. SumOf(allocated[t], MaxBatches) - SumOf(restored[t], MaxBatches)
          >= sale[t].quantity - sale[t].returned
    BY DEF ReturnCanBeRestored
  <2>2. /\ SumOf(allocated[t], MaxBatches) \in Int /\ SumOf(restored[t], MaxBatches) \in Int
        /\ sale[t].quantity \in Nat /\ sale[t].returned \in Nat
    <3>1. allocated[t] \in [1 .. MaxBatches -> Int] /\ restored[t] \in [1 .. MaxBatches -> Int]
      BY DEF TypeOK, Batches
    <3> QED BY <3>1, SumType, BatchBound DEF TypeOK, SaleLine
  <2>3. sale'[t].returned = sale[t].returned + q \/ sale'[t].returned = sale[t].returned
    BY <1>3
  <2> QED BY <2>1, <2>2, <2>3, <1>2, <1>3
<1>7. StatusTellsBalance'
  BY <1>1 DEF StatusTellsBalance
<1>8. Bookkeeping'
  BY <1>1, <1>3 DEF Bookkeeping
<1> QED BY <1>4, <1>5, <1>6, <1>7, <1>8

\* A refund or exchange that restocks preserves the inductive invariant.
LEMMA RestockReturnPreserves ==
  ASSUME IInv, NEW s \in Sales, NEW q \in Quantities, RestockReturn(s, q)
  PROVE  IInv'
<1> USE DEF IInv
<1>1. /\ sale[s].status = "COMPLETED"
      /\ sale' = [sale EXCEPT ![s].returned = @ + q]
      /\ snapshot' = snapshot + q
      /\ fifoEnabled' = fifoEnabled /\ rows' = rows
      /\ allocated' = allocated /\ settled' = settled /\ voidedStock' = voidedStock
  BY DEF RestockReturn
<1>2. q \in Nat /\ q > 0 /\ sale[s] \in SaleLine
  BY QuantityDomain DEF TypeOK
<1>3. /\ sale' \in [Sales -> SaleLine]
      /\ sale'[s].status = "COMPLETED" /\ sale'[s].returned = sale[s].returned + q
      /\ \A t \in Sales : /\ sale'[t].quantity = sale[t].quantity
                          /\ sale'[t].status = sale[t].status
                          /\ t # s => sale'[t] = sale[t]
  BY <1>1, <1>2 DEF TypeOK, SaleLine
<1>4. AllocationsCoverSale'
  BY <1>1, <1>3 DEF AllocationsCoverSale
<1>5. \A t \in Sales : /\ SumOf(allocated[t], MaxBatches) \in Int
                       /\ SumOf(restored[t], MaxBatches) \in Int
                       /\ restored[t] \in [Batches -> Nat]
                       /\ sale[t].quantity \in Nat /\ sale[t].returned \in Nat
  <2> SUFFICES ASSUME NEW t \in Sales
               PROVE  /\ SumOf(allocated[t], MaxBatches) \in Int
                      /\ SumOf(restored[t], MaxBatches) \in Int
                      /\ restored[t] \in [Batches -> Nat]
                      /\ sale[t].quantity \in Nat /\ sale[t].returned \in Nat
    OBVIOUS
  <2>1. allocated[t] \in [1 .. MaxBatches -> Int] /\ restored[t] \in [1 .. MaxBatches -> Int]
    BY DEF TypeOK, Batches
  <2> QED BY <2>1, SumType, BatchBound DEF TypeOK, SaleLine
<1>6. CASE ~fifoEnabled
  <2>1. batch' = batch /\ restored' = restored
    BY <1>6 DEF RestockReturn
  <2>2. TypeOK'
    BY <1>1, <1>2, <1>3, <2>1 DEF TypeOK
  <2>3. StockMatchesBatches' /\ RestoredWithinAllocated'
    BY <1>1, <1>6, <2>1 DEF StockMatchesBatches, RestoredWithinAllocated
  <2>4. ReturnCanBeRestored'
    <3> SUFFICES ASSUME NEW t \in Sales, SumOf(allocated[t], MaxBatches) > 0
                 PROVE  SumOf(allocated[t], MaxBatches) - SumOf(restored[t], MaxBatches)
                          >= sale'[t].quantity - sale'[t].returned
      BY <1>1, <2>1 DEF ReturnCanBeRestored
    <3>1. SumOf(allocated[t], MaxBatches) - SumOf(restored[t], MaxBatches)
            >= sale[t].quantity - sale[t].returned
      BY DEF ReturnCanBeRestored
    <3>2. sale'[t].returned = sale[t].returned + q \/ sale'[t].returned = sale[t].returned
      BY <1>3
    <3> QED BY <3>1, <3>2, <1>2, <1>3, <1>5
  <2>5. StatusTellsBalance'
    BY <2>1 DEF StatusTellsBalance
  <2>6. Bookkeeping'
    BY <1>1, <1>3, <1>6, <2>1 DEF Bookkeeping
  <2> QED BY <1>4, <2>2, <2>3, <2>4, <2>5, <2>6
<1>7. CASE fifoEnabled
  <2>1. PICK back \in [Batches -> 0 .. q] :
          /\ RestoredInOrder(batch, s, q, back)
          /\ batch' = AfterRestoring(batch, back)
          /\ restored' = [restored EXCEPT ![s] = [b \in Batches |-> @[b] + back[b]]]
    BY <1>7 DEF RestockReturn
  <2>2. Restocked(s, q, back, batch')
    BY <1>2, <2>1, RestoringMovesBalance
  <2> DEFINE r == [b \in Batches |-> restored[s][b] + back[b]]
  <2>3. r \in [Batches -> Nat] /\ \A b \in Batches : r[b] = restored[s][b] + back[b]
    BY <1>2, <1>5
  <2>4. restored' = [restored EXCEPT ![s] = r]
    BY <2>1 DEF TypeOK
  <2> HIDE DEF r
  <2>5. /\ restored' \in [Sales -> [Batches -> Nat]] /\ restored'[s] = r
        /\ \A t \in Sales : t # s => restored'[t] = restored[t]
    BY <2>3, <2>4 DEF TypeOK
  <2>6. SumOf(r, MaxBatches) = SumOf(restored[s], MaxBatches) + q
    <3>1. /\ restored[s] \in [1 .. MaxBatches -> Int] /\ back \in [1 .. MaxBatches -> Int]
          /\ r \in [1 .. MaxBatches -> Int]
      BY <1>2, <1>5, <2>3 DEF Batches
    <3>2. \A b \in 1 .. MaxBatches : r[b] = restored[s][b] + back[b]
      BY <2>3 DEF Batches
    <3>3. SumOf(back, MaxBatches) = q
      BY <2>2 DEF Restocked
    <3> QED BY <3>1, <3>2, <3>3, SumAdd, BatchBound
  <2>7. \A b \in Batches :
          /\ restored[s][b] + back[b] <= allocated[s][b]
          /\ \/ back[b] = 0 /\ batch'[b] = batch[b]
             \/ /\ back[b] > 0
                /\ batch[b].status \in {"POSTED", "SHORTAGE", "FULLY_CONSUMED"}
                /\ batch'[b].source = batch[b].source
                /\ \/ batch'[b].status = "POSTED" /\ batch'[b].remaining > 0
                   \/ batch'[b].status = "FULLY_CONSUMED" /\ batch'[b].remaining = 0
                   \/ batch'[b].status = "SHORTAGE" /\ batch'[b].remaining # 0
    BY <2>2 DEF Restocked
  <2>8. batch' \in BatchTables /\ Balance(batch') = Balance(batch) + q
    BY <2>2 DEF Restocked
  <2>9. TypeOK'
    <3>1. \A b \in Batches : b > rows => batch'[b] = NoRow
      BY <2>7 DEF TypeOK, NoRow
    <3> QED BY <1>1, <1>2, <1>3, <2>5, <2>8, <3>1 DEF TypeOK, BatchTables
  <2>10. StockMatchesBatches'
    <3>1. Balance(batch) \in Int /\ voidedStock \in Nat /\ snapshot \in Int
      BY BalanceType DEF TypeOK, BatchTables
    <3>2. snapshot + q = (Balance(batch) + q) + voidedStock
      BY <1>2, <1>7, <3>1 DEF StockMatchesBatches
    <3> QED BY <3>2, <2>8, <1>1 DEF StockMatchesBatches
  <2>11. RestoredWithinAllocated'
    BY <1>1, <2>3, <2>5, <2>7 DEF RestoredWithinAllocated
  <2>12. ReturnCanBeRestored'
    <3> SUFFICES ASSUME NEW t \in Sales, SumOf(allocated[t], MaxBatches) > 0
                 PROVE  SumOf(allocated[t], MaxBatches) - SumOf(restored'[t], MaxBatches)
                          >= sale'[t].quantity - sale'[t].returned
      BY <1>1 DEF ReturnCanBeRestored
    <3>1. SumOf(allocated[t], MaxBatches) - SumOf(restored[t], MaxBatches)
            >= sale[t].quantity - sale[t].returned
      BY DEF ReturnCanBeRestored
    <3>2. CASE t = s
      <4>1. SumOf(restored'[t], MaxBatches) = SumOf(restored[t], MaxBatches) + q
        BY <3>2, <2>5, <2>6
      <4>2. sale'[t].returned = sale[t].returned + q /\ sale'[t].quantity = sale[t].quantity
        BY <3>2, <1>3
      <4> QED BY <3>1, <4>1, <4>2, <1>2, <1>5
    <3>3. CASE t # s
      BY <3>1, <3>3, <1>3, <2>5
    <3> QED BY <3>2, <3>3
  <2>13. StatusTellsBalance'
    BY <2>7 DEF StatusTellsBalance
  <2>14. Bookkeeping'
    <3>1. \A b \in Batches : batch'[b].status = "DRAFT" => batch'[b] = batch[b]
      BY <2>7
    <3>2. \A t \in Sales, b \in Batches : allocated[t][b] > 0 =>
             \/ batch'[b].status = "POSTED" /\ batch'[b].remaining > 0
             \/ batch'[b].status \in {"SHORTAGE", "FULLY_CONSUMED"}
      BY <2>7 DEF Bookkeeping
    <3>3. \A t \in Sales :
            IF sale'[t].status = "NONE"
            THEN \A b \in Batches : allocated[t][b] = 0 /\ restored'[t][b] = 0
            ELSE sale'[t].quantity > 0
      BY <1>1, <1>3, <2>5 DEF Bookkeeping
    <3>4. \A b \in LegacyDrafts(batch') : batch'[b].remaining = 0
      BY <3>1, <1>7 DEF Bookkeeping, LegacyDrafts
    <3>5. \A b \in Batches : batch'[b].status = "DRAFT" /\ batch'[b].source = "BUKKU_PURCHASE" =>
             batch'[b].remaining = 0 /\ batch'[b].received > 0
      BY <3>1 DEF Bookkeeping
    <3> QED BY <1>1, <1>7, <3>2, <3>3, <3>4, <3>5 DEF Bookkeeping
  <2> QED BY <1>4, <2>9, <2>10, <2>11, <2>12, <2>13, <2>14
<1> QED BY <1>6, <1>7

\* An uploaded purchase draft preserves the inductive invariant.
LEMMA DraftPurchasePreserves ==
  ASSUME IInv, NEW q \in Quantities, NEW day \in 1 .. Today, DraftPurchase(q, day)
  PROVE  IInv'
<1> USE DEF IInv
<1> DEFINE draft == [status |-> "DRAFT", source |-> "BUKKU_PURCHASE", received |-> q,
                     remaining |-> 0, receivedAt |-> day]
<1>1. /\ rows < MaxBatches /\ rows' = rows + 1
      /\ batch' = [batch EXCEPT ![rows + 1] = draft]
      /\ UNCHANGED <<fifoEnabled, snapshot, sale, allocated, restored, settled, voidedStock>>
  BY DEF DraftPurchase
<1>2. rows + 1 \in Batches /\ rows \in Nat /\ batch[rows + 1] = NoRow
  <2>1. rows + 1 \in Batches /\ rows \in Nat /\ rows + 1 > rows
    BY <1>1, BatchBound DEF TypeOK, Batches
  <2> QED BY <2>1 DEF TypeOK
<1>3. draft \in BatchRow /\ q > 0
  BY QuantityDomain, CalendarDomain DEF BatchRow, BatchStatus, BatchSource
<1>4. /\ batch' \in BatchTables
      /\ batch'[rows + 1] = draft
      /\ \A b \in Batches : b # rows + 1 => batch'[b] = batch[b]
  BY <1>1, <1>2, <1>3 DEF TypeOK, BatchTables
<1>5. Balance(batch') = Balance(batch)
  <2>1. \A b \in Batches : Counted(batch'[b]) = Counted(batch[b])
    BY <1>2, <1>4 DEF Counted, NoRow
  <2> QED BY <2>1, BalanceSame
<1>6. TypeOK'
  <2>1. rows' \in 0 .. MaxBatches
    BY <1>1, <1>2, BatchBound
  <2>2. \A b \in Batches : b > rows' => batch'[b] = NoRow
    BY <1>1, <1>2, <1>4 DEF TypeOK, Batches
  <2> QED BY <1>1, <1>4, <2>1, <2>2 DEF TypeOK, BatchTables
<1>7. StockMatchesBatches'
  BY <1>1, <1>5 DEF StockMatchesBatches
<1>8. AllocationsCoverSale' /\ RestoredWithinAllocated' /\ ReturnCanBeRestored'
  BY <1>1, LinesUntouched
<1>9. StatusTellsBalance'
  BY <1>4 DEF StatusTellsBalance
<1>10. Bookkeeping'
  <2>1. \A b \in Batches : b = rows + 1 \/ batch'[b] = batch[b]
    BY <1>4
  <2>2. \A t \in Sales : ~(allocated[t][rows + 1] > 0)
    BY <1>2 DEF Bookkeeping, NoRow
  <2> QED BY <1>1, <1>3, <1>4, <2>1, <2>2 DEF Bookkeeping, LegacyDrafts
<1> QED BY <1>6, <1>7, <1>8, <1>9, <1>10

\* Posting a purchase draft preserves the inductive invariant.
LEMMA PostPurchasePreserves ==
  ASSUME IInv, NEW j \in Batches, PostPurchase(j)
  PROVE  IInv'
<1> USE DEF IInv
<1> DEFINE enabled == fifoEnabled \/ LegacyDrafts(batch) = {}
<1>1. /\ batch[j].status = "DRAFT" /\ batch[j].source = "BUKKU_PURCHASE"
      /\ FifoStockInvariantHolds(enabled, snapshot + batch[j].received, batch')
      /\ batch' = [batch EXCEPT ![j].status = "POSTED", ![j].remaining = batch[j].received]
      /\ snapshot' = snapshot + batch[j].received
      /\ fifoEnabled' = enabled
      /\ UNCHANGED <<rows, sale, allocated, restored, settled, voidedStock>>
  BY DEF PostPurchase
<1>2. batch \in BatchTables /\ batch[j] \in BatchRow /\ batch[j].received \in Int
      /\ batch[j].received > 0
  BY <1>1 DEF TypeOK, BatchTables, BatchRow, Bookkeeping
<1>3. /\ batch' \in BatchTables
      /\ batch'[j].status = "POSTED" /\ batch'[j].remaining = batch[j].received
      /\ \A b \in Batches : b # j => batch'[b] = batch[b]
  BY <1>1, <1>2 DEF BatchTables, BatchRow, BatchStatus
<1>4. Balance(batch') = Balance(batch) + batch[j].received
  <2>1. Counted(batch'[j]) = batch[j].received /\ Counted(batch[j]) = 0
    BY <1>1, <1>3 DEF Counted
  <2>2. Balance(batch') = Balance(batch) + (Counted(batch'[j]) - Counted(batch[j]))
    BY <1>2, <1>3, BalanceOneRow
  <2> QED BY <1>2, <2>1, <2>2
<1>5. TypeOK'
  <2>1. \A b \in Batches : b > rows => batch'[b] = NoRow
    BY <1>1, <1>3 DEF TypeOK, NoRow
  <2> QED BY <1>1, <1>2, <1>3, <2>1 DEF TypeOK, BatchTables
<1>6. StockMatchesBatches'
  <2>1. Balance(batch) \in Int /\ voidedStock \in Nat /\ snapshot \in Int
    BY BalanceType DEF TypeOK, BatchTables
  <2>2. CASE fifoEnabled
    BY <2>1, <2>2, <1>1, <1>2, <1>4 DEF StockMatchesBatches
  <2>3. CASE ~fifoEnabled /\ enabled
    <3>1. snapshot' = Balance(batch') /\ voidedStock' = 0
      BY <2>3, <1>1 DEF FifoStockInvariantHolds, Bookkeeping
    <3> QED BY <3>1, <2>1, <1>2, <1>4 DEF StockMatchesBatches
  <2>4. CASE ~enabled
    BY <2>4, <1>1 DEF StockMatchesBatches
  <2> QED BY <2>2, <2>3, <2>4
<1>7. AllocationsCoverSale' /\ RestoredWithinAllocated' /\ ReturnCanBeRestored'
  BY <1>1, LinesUntouched
<1>8. StatusTellsBalance'
  BY <1>2, <1>3 DEF StatusTellsBalance
<1>9. Bookkeeping'
  <2>1. \A b \in LegacyDrafts(batch') : b \in LegacyDrafts(batch) /\ batch'[b] = batch[b]
    BY <1>3 DEF LegacyDrafts
  <2>2. fifoEnabled' => \A b \in LegacyDrafts(batch') : batch'[b].remaining = 0
    BY <1>1, <2>1 DEF Bookkeeping
  <2>3. ~fifoEnabled' => voidedStock' = 0
    BY <1>1 DEF Bookkeeping
  <2>4. \A b \in Batches : batch'[b].status = "DRAFT" => batch'[b] = batch[b]
    BY <1>3
  <2>5. \A t \in Sales, b \in Batches : allocated[t][b] > 0 =>
           \/ batch'[b].status = "POSTED" /\ batch'[b].remaining > 0
           \/ batch'[b].status \in {"SHORTAGE", "FULLY_CONSUMED"}
    BY <1>2, <1>3 DEF Bookkeeping
  <2> QED BY <1>1, <2>2, <2>3, <2>4, <2>5 DEF Bookkeeping
<1> QED BY <1>5, <1>6, <1>7, <1>8, <1>9

\* Approving the legacy drafts preserves the inductive invariant.
LEMMA EnableLegacyFifoPreserves ==
  ASSUME IInv, EnableLegacyFifo
  PROVE  IInv'
<1> USE DEF IInv
<1>1. /\ FifoStockInvariantHolds(TRUE, snapshot, batch')
      /\ batch' = [b \in Batches |->
                     IF b \in LegacyDrafts(batch)
                     THEN [batch[b] EXCEPT !.status =
                             IF batch[b].remaining = 0 THEN "FULLY_CONSUMED" ELSE "POSTED"]
                     ELSE batch[b]]
      /\ fifoEnabled' = TRUE
      /\ UNCHANGED <<snapshot, rows, sale, allocated, restored, settled, voidedStock>>
  BY DEF EnableLegacyFifo
<1>2. batch \in BatchTables
  BY DEF TypeOK, BatchTables
<1>3. ASSUME NEW b \in Batches
      PROVE  /\ batch'[b] \in BatchRow
             /\ b \notin LegacyDrafts(batch) => batch'[b] = batch[b]
             /\ b \in LegacyDrafts(batch) =>
                  /\ batch[b].status = "DRAFT"
                  /\ batch'[b].source = "OPENING_LEGACY"
                  /\ batch'[b].remaining = batch[b].remaining
                  /\ \/ batch'[b].status = "FULLY_CONSUMED" /\ batch[b].remaining = 0
                     \/ batch'[b].status = "POSTED" /\ batch[b].remaining # 0
  <2>1. batch[b] \in BatchRow
    BY <1>2 DEF BatchTables
  <2>2. CASE b \in LegacyDrafts(batch)
    <3> DEFINE st == IF batch[b].remaining = 0 THEN "FULLY_CONSUMED" ELSE "POSTED"
    <3>1. batch'[b] = [batch[b] EXCEPT !.status = st] /\ st \in BatchStatus
      BY <1>1, <2>2 DEF BatchStatus
    <3>2. batch'[b] \in BatchRow /\ batch'[b].status = st
          /\ batch'[b].remaining = batch[b].remaining /\ batch'[b].source = batch[b].source
      <4> HIDE DEF st
      <4> QED BY <3>1, <2>1 DEF BatchRow
    <3> QED BY <3>2, <2>2 DEF LegacyDrafts
  <2>3. CASE b \notin LegacyDrafts(batch)
    BY <2>1, <2>3, <1>1
  <2> QED BY <2>2, <2>3
<1>4. batch' \in BatchTables
  BY <1>1, <1>3 DEF BatchTables
<1>5. TypeOK'
  <2>1. \A b \in Batches : b > rows => batch'[b] = NoRow
    BY <1>1, <1>3 DEF TypeOK, NoRow
  <2> QED BY <1>1, <1>4, <2>1 DEF TypeOK, BatchTables
<1>6. StockMatchesBatches'
  <2>1. Balance(batch) \in Int /\ voidedStock \in Nat /\ snapshot \in Int
    BY <1>2, BalanceType DEF TypeOK
  <2>2. CASE fifoEnabled
    <3>1. \A b \in Batches : Counted(batch'[b]) = Counted(batch[b])
      <4> SUFFICES ASSUME NEW b \in Batches PROVE Counted(batch'[b]) = Counted(batch[b])
        OBVIOUS
      <4>1. CASE b \in LegacyDrafts(batch)
        BY <4>1, <2>2, <1>3 DEF Counted, Bookkeeping
      <4>2. CASE b \notin LegacyDrafts(batch)
        BY <4>2, <1>3
      <4> QED BY <4>1, <4>2
    <3>2. Balance(batch') = Balance(batch)
      BY <3>1, BalanceSame
    <3> QED BY <3>2, <2>2, <1>1 DEF StockMatchesBatches
  <2>3. CASE ~fifoEnabled
    <3>1. snapshot' = Balance(batch') /\ voidedStock' = 0
      BY <2>3, <1>1 DEF FifoStockInvariantHolds, Bookkeeping
    <3>2. Balance(batch') \in Int
      BY <1>4, BalanceType
    <3> QED BY <3>1, <3>2 DEF StockMatchesBatches
  <2> QED BY <2>2, <2>3
<1>7. AllocationsCoverSale' /\ RestoredWithinAllocated' /\ ReturnCanBeRestored'
  BY <1>1, LinesUntouched
<1>8. StatusTellsBalance'
  <2> SUFFICES ASSUME NEW b \in Batches
               PROVE /\ batch'[b].status = "FULLY_CONSUMED" => batch'[b].remaining = 0
                     /\ batch'[b].status = "SHORTAGE" => batch'[b].remaining # 0
                     /\ batch'[b].status = "POSTED" =>
                          \/ batch'[b].remaining > 0
                          \/ batch'[b].source = "OPENING_LEGACY" /\ batch'[b].remaining < 0
    BY DEF StatusTellsBalance
  <2>1. batch'[b].remaining \in Int
    BY <1>3 DEF BatchRow
  <2>2. CASE b \in LegacyDrafts(batch)
    BY <2>1, <2>2, <1>3
  <2>3. CASE b \notin LegacyDrafts(batch)
    BY <2>3, <1>3 DEF StatusTellsBalance
  <2> QED BY <2>2, <2>3
<1>9. Bookkeeping'
  <2>1. \A b \in Batches : batch'[b].status = "DRAFT" => batch'[b] = batch[b]
    BY <1>3
  <2>2. LegacyDrafts(batch') = {}
    BY <1>3 DEF LegacyDrafts
  <2>3. \A t \in Sales, b \in Batches : allocated[t][b] > 0 =>
           \/ batch'[b].status = "POSTED" /\ batch'[b].remaining > 0
           \/ batch'[b].status \in {"SHORTAGE", "FULLY_CONSUMED"}
    BY <1>3 DEF Bookkeeping
  <2> QED BY <1>1, <2>1, <2>2, <2>3 DEF Bookkeeping
<1> QED BY <1>5, <1>6, <1>7, <1>8, <1>9

\* A settlement moves goods between two rows, so it leaves the balance alone.
LEMMA SettlingKeepsBalance ==
  ASSUME IInv, NEW short \in Batches, NEW target \in Batches, NEW q \in Quantities,
         SettleShortage(short, target, q)
  PROVE  /\ batch' \in BatchTables
         /\ Balance(batch') = Balance(batch)
         /\ batch[short].status = "SHORTAGE" /\ batch[target].status = "POSTED"
         /\ \A b \in Batches \ {short, target} : batch'[b] = batch[b]
         /\ \/ batch'[short].status = "FULLY_CONSUMED" /\ batch'[short].remaining = 0
            \/ batch'[short].status = "SHORTAGE" /\ batch'[short].remaining # 0
         /\ \/ batch'[target].status = "FULLY_CONSUMED" /\ batch'[target].remaining = 0
            \/ batch'[target].status = "POSTED" /\ batch'[target].remaining > 0
<1> USE DEF IInv
<1> DEFINE after == batch[short].remaining + q
<1> DEFINE left  == batch[target].remaining - q
<1> DEFINE st    == IF after = 0 THEN "FULLY_CONSUMED" ELSE "SHORTAGE"
<1> DEFINE tt    == IF batch[target].remaining = q THEN "FULLY_CONSUMED" ELSE "POSTED"
<1> DEFINE row1  == [batch[short] EXCEPT !.remaining = after, !.status = st]
<1> DEFINE row2  == [batch[target] EXCEPT !.remaining = left, !.status = tt]
<1> DEFINE mid   == [batch EXCEPT ![short] = row1]
<1>1. /\ batch[short].status = "SHORTAGE" /\ batch[target].status = "POSTED"
      /\ q <= batch[target].remaining /\ short # target
      /\ batch' = [batch EXCEPT
           ![short].remaining = after, ![short].status = st,
           ![target].remaining = @ - q, ![target].status = tt]
  BY DEF SettleShortage
<1>2. batch \in BatchTables /\ batch[short] \in BatchRow /\ batch[target] \in BatchRow /\ q \in Nat
  BY QuantityDomain DEF TypeOK, BatchTables
<1>3. /\ after \in Int /\ left \in Int /\ st \in BatchStatus /\ tt \in BatchStatus
      /\ left >= 0 /\ (left = 0 => tt = "FULLY_CONSUMED") /\ (left # 0 => tt = "POSTED")
      /\ (after = 0 => st = "FULLY_CONSUMED") /\ (after # 0 => st = "SHORTAGE")
  BY <1>1, <1>2 DEF BatchRow, BatchStatus
<1>4. batch'[short] = row1 /\ batch'[target] = row2
      /\ \A b \in Batches \ {short, target} : batch'[b] = batch[b]
  BY <1>1, <1>2 DEF BatchTables, BatchRow
<1>5. batch[short].remaining \in Int /\ batch[target].remaining \in Int
      /\ after = batch[short].remaining + q /\ left = batch[target].remaining - q
  BY <1>2 DEF BatchRow
<1> HIDE DEF after, left, st, tt
<1>6. /\ row1 \in BatchRow /\ row1.remaining = after /\ row1.status = st
      /\ row2 \in BatchRow /\ row2.remaining = left /\ row2.status = tt
  BY <1>2, <1>3 DEF BatchRow
<1> HIDE DEF row1, row2
<1>7. batch' \in BatchTables
  <2>1. \A b \in Batches : batch'[b] \in BatchRow
    BY <1>2, <1>4, <1>6 DEF BatchTables
  <2>2. batch' = [b \in Batches |-> batch'[b]]
    BY <1>1, <1>2 DEF BatchTables
  <2> QED BY <2>1, <2>2 DEF BatchTables
<1>8. /\ mid \in BatchTables /\ mid[short] = row1
      /\ \A b \in Batches : b # short => mid[b] = batch[b]
  BY <1>2, <1>6 DEF BatchTables
<1> HIDE DEF mid
<1>9. /\ Counted(batch[short]) = batch[short].remaining /\ Counted(row1) = after
      /\ Counted(batch[target]) = batch[target].remaining /\ Counted(row2) = left
  BY <1>1, <1>3, <1>6 DEF Counted
<1>10. Balance(mid) = Balance(batch) + (Counted(mid[short]) - Counted(batch[short]))
  BY <1>2, <1>8, BalanceOneRow
<1>11. Balance(batch') = Balance(mid) + (Counted(batch'[target]) - Counted(mid[target]))
  <2>1. \A b \in Batches : b # target => Counted(batch'[b]) = Counted(mid[b])
    BY <1>4, <1>8
  <2> QED BY <2>1, <1>7, <1>8, BalanceOneRow
<1>12. Balance(batch') = Balance(batch)
  <2>1. Balance(batch) \in Int
    BY <1>2, BalanceType
  <2>2. Balance(mid) = Balance(batch) + (after - batch[short].remaining)
    BY <1>8, <1>9, <1>10
  <2>3. Balance(batch') = Balance(mid) + (left - batch[target].remaining)
    BY <1>1, <1>4, <1>8, <1>9, <1>11
  <2> QED BY <2>1, <2>2, <2>3, <1>2, <1>3, <1>5
<1>13. /\ \/ batch'[short].status = "FULLY_CONSUMED" /\ batch'[short].remaining = 0
          \/ batch'[short].status = "SHORTAGE" /\ batch'[short].remaining # 0
       /\ \/ batch'[target].status = "FULLY_CONSUMED" /\ batch'[target].remaining = 0
          \/ batch'[target].status = "POSTED" /\ batch'[target].remaining > 0
  BY <1>3, <1>4, <1>6
<1> QED BY <1>1, <1>4, <1>7, <1>12, <1>13

\* Settling a shortage preserves the inductive invariant.
LEMMA SettleShortagePreserves ==
  ASSUME IInv, NEW short \in Batches, NEW target \in Batches, NEW q \in Quantities,
         SettleShortage(short, target, q)
  PROVE  IInv'
<1> USE DEF IInv
<1>1. /\ settled' = settled \cup {<<short, target>>}
      /\ UNCHANGED <<fifoEnabled, snapshot, rows, sale, allocated, restored, voidedStock>>
  BY DEF SettleShortage
<1>2. /\ batch' \in BatchTables
      /\ Balance(batch') = Balance(batch)
      /\ batch[short].status = "SHORTAGE" /\ batch[target].status = "POSTED"
      /\ \A b \in Batches \ {short, target} : batch'[b] = batch[b]
      /\ \/ batch'[short].status = "FULLY_CONSUMED" /\ batch'[short].remaining = 0
         \/ batch'[short].status = "SHORTAGE" /\ batch'[short].remaining # 0
      /\ \/ batch'[target].status = "FULLY_CONSUMED" /\ batch'[target].remaining = 0
         \/ batch'[target].status = "POSTED" /\ batch'[target].remaining > 0
  BY SettlingKeepsBalance
<1>3. \A b \in Batches : b = short \/ b = target \/ batch'[b] = batch[b]
  BY <1>2
<1>4. TypeOK'
  <2>1. \A b \in Batches : b > rows => batch'[b] = NoRow
    BY <1>2, <1>3 DEF TypeOK, NoRow
  <2> QED BY <1>1, <1>2, <2>1 DEF TypeOK, BatchTables
<1>5. StockMatchesBatches'
  BY <1>1, <1>2 DEF StockMatchesBatches
<1>6. AllocationsCoverSale' /\ RestoredWithinAllocated' /\ ReturnCanBeRestored'
  BY <1>1, LinesUntouched
<1>7. StatusTellsBalance'
  BY <1>2, <1>3 DEF StatusTellsBalance
<1>8. Bookkeeping'
  <2>1. \A b \in Batches : batch'[b].status = "DRAFT" => batch'[b] = batch[b]
    BY <1>2, <1>3
  <2>2. fifoEnabled' => \A b \in LegacyDrafts(batch') : batch'[b].remaining = 0
    BY <1>1, <2>1 DEF Bookkeeping, LegacyDrafts
  <2>3. \A t \in Sales, b \in Batches : allocated[t][b] > 0 =>
           \/ batch'[b].status = "POSTED" /\ batch'[b].remaining > 0
           \/ batch'[b].status \in {"SHORTAGE", "FULLY_CONSUMED"}
    BY <1>2, <1>3 DEF Bookkeeping
  <2> QED BY <1>1, <2>1, <2>2, <2>3 DEF Bookkeeping
<1> QED BY <1>4, <1>5, <1>6, <1>7, <1>8

\* What a count does to a product under FIFO: the balance moves by the
\* difference, and every row stays as its status says.
Adjusted(delta) ==
  /\ batch' \in BatchTables
  /\ rows' \in 0 .. MaxBatches
  /\ Balance(batch') = Balance(batch) + delta
  /\ \A b \in Batches :
       /\ b > rows' => batch'[b] = NoRow
       /\ batch'[b].status = "FULLY_CONSUMED" => batch'[b].remaining = 0
       /\ batch'[b].status = "SHORTAGE" => batch'[b].remaining # 0
       /\ batch'[b].status = "POSTED" =>
            \/ batch'[b].remaining > 0
            \/ batch'[b].source = "OPENING_LEGACY" /\ batch'[b].remaining < 0
       /\ batch'[b].status = "DRAFT" => batch'[b] = batch[b]
       /\ \/ batch[b].status = "POSTED" /\ batch[b].remaining > 0
          \/ batch[b].status \in {"SHORTAGE", "FULLY_CONSUMED"}
          => \/ batch'[b].status = "POSTED" /\ batch'[b].remaining > 0
             \/ batch'[b].status \in {"SHORTAGE", "FULLY_CONSUMED"}

\* A stock count under FIFO moves the balance by the difference it counted and
\* leaves the rows well formed.
LEMMA CountMovesBalance ==
  ASSUME IInv, fifoEnabled, NEW counted \in Counts, NEW override \in 0 .. MaxBatches,
         AdjustStock(counted, override)
  PROVE  Adjusted(counted - snapshot)
<1> USE DEF IInv
<1> DEFINE delta == counted - snapshot
<1>1. delta \in Int
  BY CountDomain DEF TypeOK
<1>2. CASE delta > 0
  <2> DEFINE new == NewRow("POSTED", "STOCK_ADJUSTMENT", delta)
  <2>1. rows < MaxBatches /\ rows' = rows + 1 /\ batch' = [batch EXCEPT ![rows + 1] = new]
    <3>1. ~(delta <= 0)
      BY <1>1, <1>2
    <3> QED BY <3>1, Zenon DEF AdjustStock
  <2>2. rows + 1 \in Batches /\ rows \in Nat /\ rows + 1 > rows /\ batch \in BatchTables
    BY <2>1, BatchBound DEF TypeOK, Batches, BatchTables
  <2>3. batch[rows + 1] = NoRow
    BY <2>2 DEF TypeOK
  <2>4. new \in BatchRow /\ new.status = "POSTED" /\ new.remaining = delta
    BY <1>1, CalendarDomain DEF NewRow, BatchRow, BatchStatus, BatchSource
  <2> HIDE DEF new
  <2>5. /\ batch' \in BatchTables /\ batch'[rows + 1] = new
        /\ \A b \in Batches : b # rows + 1 => batch'[b] = batch[b]
    BY <2>1, <2>2, <2>4 DEF BatchTables
  <2>6. Counted(new) = delta /\ Counted(batch[rows + 1]) = 0
    BY <2>3, <2>4 DEF Counted, NoRow
  <2>7. Balance(batch') = Balance(batch) + (Counted(batch'[rows + 1]) - Counted(batch[rows + 1]))
    BY <2>2, <2>5, BalanceOneRow
  <2>8. Balance(batch') = Balance(batch) + delta
    BY <2>5, <2>6, <2>7, <1>1
  <2>9. rows' \in 0 .. MaxBatches
    BY <2>1, <2>2, BatchBound
  <2> HIDE DEF delta
  <2>10. ASSUME NEW b \in Batches
         PROVE  /\ b > rows' => batch'[b] = NoRow
                /\ batch'[b].status = "FULLY_CONSUMED" => batch'[b].remaining = 0
                /\ batch'[b].status = "SHORTAGE" => batch'[b].remaining # 0
                /\ batch'[b].status = "POSTED" =>
                     \/ batch'[b].remaining > 0
                     \/ batch'[b].source = "OPENING_LEGACY" /\ batch'[b].remaining < 0
                /\ batch'[b].status = "DRAFT" => batch'[b] = batch[b]
                /\ \/ batch[b].status = "POSTED" /\ batch[b].remaining > 0
                   \/ batch[b].status \in {"SHORTAGE", "FULLY_CONSUMED"}
                   => \/ batch'[b].status = "POSTED" /\ batch'[b].remaining > 0
                      \/ batch'[b].status \in {"SHORTAGE", "FULLY_CONSUMED"}
    <3>1. CASE b = rows + 1
      BY <3>1, <2>1, <2>2, <2>4, <2>5, <1>2
    <3>2. CASE b # rows + 1
      <4>1. b > rows' => b > rows
        BY <2>1, <2>2 DEF Batches
      <4>2. batch'[b] = batch[b]
        BY <3>2, <2>5
      <4> QED BY <4>1, <4>2 DEF TypeOK, StatusTellsBalance
    <3> QED BY <3>1, <3>2
  <2>11. Adjusted(delta)
    BY <2>5, <2>8, <2>9, <2>10 DEF Adjusted
  <2> QED BY <2>11 DEF delta
<1>3. CASE ~(delta > 0)
  <2>1. -delta \in Nat
    BY <1>1, <1>3
  <2>2. PICK take \in [Batches -> 0 .. -delta] :
          LET missing == -delta - SumOf(take, MaxBatches)
              next    == WithShortage(AfterTaking(batch, take),
                                      "STOCK_ADJUSTMENT_SHORTAGE", missing)
          IN  /\ TakenInOrder(batch, -delta, override, take)
              /\ RowsFor(missing) <= MaxBatches
              /\ batch' = next
              /\ rows' = RowsFor(missing)
    BY <1>3 DEF AdjustStock
  <2> DEFINE missing == -delta - SumOf(take, MaxBatches)
  <2> DEFINE q == -delta
  <2>3. q \in Nat /\ take \in [Batches -> 0 .. q] /\ TakenInOrder(batch, q, override, take)
        /\ missing = q - SumOf(take, MaxBatches)
    BY <2>1, <2>2
  <2>4. RowsFor(missing) <= MaxBatches /\ rows' = RowsFor(missing)
        /\ batch' = WithShortage(AfterTaking(batch, take), "STOCK_ADJUSTMENT_SHORTAGE", missing)
    BY <2>2
  <2>5. q = -delta
    OBVIOUS
  <2> HIDE DEF missing, q, delta
  <2>6. Consumed("STOCK_ADJUSTMENT_SHORTAGE", q, take, missing, batch')
    BY <2>3, <2>4, ConsumingMovesBalance DEF BatchSource
  <2>7. \A b \in Batches :
           /\ b > RowsFor(missing) => batch'[b] = NoRow
           /\ batch'[b].status = "FULLY_CONSUMED" => batch'[b].remaining = 0
           /\ batch'[b].status = "SHORTAGE" => batch'[b].remaining # 0
           /\ batch'[b].status = "POSTED" =>
                \/ batch'[b].remaining > 0
                \/ batch'[b].source = "OPENING_LEGACY" /\ batch'[b].remaining < 0
           /\ batch'[b].status = "DRAFT" => batch'[b] = batch[b]
           /\ \/ batch[b].status = "POSTED" /\ batch[b].remaining > 0
              \/ batch[b].status \in {"SHORTAGE", "FULLY_CONSUMED"}
              \/ take[b] > 0
              \/ b > rows /\ b <= RowsFor(missing)
              => \/ batch'[b].status = "POSTED" /\ batch'[b].remaining > 0
                 \/ batch'[b].status \in {"SHORTAGE", "FULLY_CONSUMED"}
    <3>1. "STOCK_ADJUSTMENT_SHORTAGE" \in BatchSource \ {"BUKKU_PURCHASE"}
      BY DEF BatchSource
    <3>2. q \in Nat /\ take \in [Batches -> 0 .. q] /\ TypeOK /\ StatusTellsBalance /\ Bookkeeping
      BY <2>3
    <3> HIDE DEF IInv
    <3> QED BY <2>6, <3>1, <3>2, ConsumedRows
  <2>8. batch' \in BatchTables /\ rows' \in 0 .. MaxBatches /\ Balance(batch') = Balance(batch) - q
    BY <2>4, <2>6 DEF Consumed
  <2>9. Balance(batch') = Balance(batch) + delta
    <3>1. Balance(batch) \in Int
      BY BalanceType DEF TypeOK, BatchTables
    <3> QED BY <3>1, <2>5, <2>8, <1>1
  <2>10. Adjusted(delta)
    BY <2>4, <2>7, <2>8, <2>9 DEF Adjusted
  <2> QED BY <2>10 DEF delta
<1> QED BY <1>2, <1>3

\* A stock count preserves the inductive invariant.
LEMMA AdjustStockPreserves ==
  ASSUME IInv, NEW counted \in Counts, NEW override \in 0 .. MaxBatches,
         AdjustStock(counted, override)
  PROVE  IInv'
<1> USE DEF IInv
<1>1. /\ snapshot' = counted /\ counted \in Int /\ snapshot \in Int
      /\ UNCHANGED <<fifoEnabled, sale, allocated, restored, settled, voidedStock>>
  BY CountDomain DEF AdjustStock, TypeOK
<1>2. AllocationsCoverSale' /\ RestoredWithinAllocated' /\ ReturnCanBeRestored'
  BY <1>1, LinesUntouched
<1>3. CASE ~fifoEnabled
  <2>1. rows' = rows /\ batch' = batch
    BY <1>3 DEF AdjustStock
  <2>2. TypeOK' /\ StatusTellsBalance' /\ Bookkeeping' /\ StockMatchesBatches'
    BY <1>1, <1>3, <2>1 DEF TypeOK, StatusTellsBalance, Bookkeeping, StockMatchesBatches
  <2> QED BY <1>2, <2>2
<1>4. CASE fifoEnabled
  <2>1. Adjusted(counted - snapshot)
    BY <1>4, CountMovesBalance
  <2>2. TypeOK'
    BY <1>1, <2>1 DEF TypeOK, Adjusted, BatchTables
  <2>3. StockMatchesBatches'
    <3>1. Balance(batch) \in Int /\ voidedStock \in Nat /\ snapshot = Balance(batch) + voidedStock
      BY <1>4, BalanceType DEF TypeOK, BatchTables, StockMatchesBatches
    <3>2. Balance(batch') = Balance(batch) + (counted - snapshot)
      BY <2>1 DEF Adjusted
    <3> QED BY <1>1, <3>1, <3>2 DEF StockMatchesBatches
  <2>4. StatusTellsBalance'
    BY <2>1 DEF StatusTellsBalance, Adjusted
  <2>5. Bookkeeping'
    <3>1. \A b \in Batches : batch'[b].status = "DRAFT" => batch'[b] = batch[b]
      BY <2>1 DEF Adjusted
    <3>2. \A t \in Sales, b \in Batches : allocated[t][b] > 0 =>
             \/ batch'[b].status = "POSTED" /\ batch'[b].remaining > 0
             \/ batch'[b].status \in {"SHORTAGE", "FULLY_CONSUMED"}
      BY <2>1 DEF Bookkeeping, Adjusted
    <3>3. \A b \in LegacyDrafts(batch') : batch'[b].remaining = 0
      BY <3>1, <1>4 DEF Bookkeeping, LegacyDrafts
    <3> QED BY <1>1, <1>4, <3>1, <3>2, <3>3 DEF Bookkeeping
  <2> QED BY <1>2, <2>2, <2>3, <2>4, <2>5
<1> QED BY <1>3, <1>4

-----------------------------------------------------------------------------
(* Invariance.                                                             *)

\* A table of drafts and blanks balances at zero.
LEMMA InitialBalance ==
  ASSUME Init
  PROVE  batch \in BatchTables /\ Balance(batch) = 0
<1>1. ASSUME NEW b \in Batches
      PROVE  batch[b] \in BatchRow /\ Counted(batch[b]) = 0
  <2>1. snapshot \in Int
    BY OpeningDomain DEF Init
  <2>2. batch[b] = NoRow \/ batch[b] = [status |-> "DRAFT", source |-> "OPENING_LEGACY",
           received |-> snapshot, remaining |-> snapshot, receivedAt |-> 1]
    BY DEF Init
  <2> QED BY <2>1, <2>2, CalendarDomain DEF BatchRow, BatchStatus, BatchSource, NoRow, Counted
<1>2. batch \in BatchTables
  BY <1>1 DEF Init, BatchTables
<1> DEFINE f == [b \in Batches |-> Counted(batch[b])]
<1>3. f \in [1 .. MaxBatches -> Int] /\ \A b \in 1 .. MaxBatches : f[b] = 0
  BY <1>1 DEF Batches
<1> HIDE DEF f
<1>4. SumOf(f, MaxBatches) = 0
  BY <1>3, SumZero, BatchBound
<1> QED BY <1>2, <1>4 DEF Balance, f

\* The opening states satisfy the inductive invariant.
LEMMA InitEstablishes == Init => IInv
<1> SUFFICES ASSUME Init PROVE IInv
  OBVIOUS
<1>1. batch \in BatchTables /\ Balance(batch) = 0
  BY InitialBalance
<1>2. /\ sale = [s \in Sales |-> [status |-> "NONE", quantity |-> 0, returned |-> 0]]
      /\ allocated = [s \in Sales |-> [b \in Batches |-> 0]]
      /\ restored = [s \in Sales |-> [b \in Batches |-> 0]]
      /\ settled = {} /\ voidedStock = 0
      /\ fifoEnabled \in BOOLEAN /\ snapshot \in Int /\ rows \in 0 .. MaxBatches
      /\ fifoEnabled => snapshot = 0
  BY OpeningDomain, BatchBound DEF Init, NothingTaken
<1>3. \A b \in Batches :
        \/ batch[b] = NoRow
        \/ /\ ~(b > rows)
           /\ batch[b].status = "DRAFT" /\ batch[b].source = "OPENING_LEGACY"
           /\ batch[b].remaining = snapshot
  BY DEF Init
<1>4. TypeOK
  <2>1. sale \in [Sales -> SaleLine]
    BY <1>2 DEF SaleLine
  <2>2. \A b \in Batches : b > rows => batch[b] = NoRow
    BY <1>3
  <2> QED BY <1>1, <1>2, <2>1, <2>2 DEF TypeOK, BatchTables
<1>5. StockMatchesBatches
  BY <1>1, <1>2 DEF StockMatchesBatches
<1>6. \A s \in Sales : SumOf(allocated[s], MaxBatches) = 0
  <2> SUFFICES ASSUME NEW s \in Sales PROVE SumOf(allocated[s], MaxBatches) = 0
    OBVIOUS
  <2>1. allocated[s] \in [1 .. MaxBatches -> Int] /\ \A b \in 1 .. MaxBatches : allocated[s][b] = 0
    BY <1>2 DEF Batches
  <2> QED BY <2>1, SumZero, BatchBound
<1>7. AllocationsCoverSale /\ ReturnCanBeRestored /\ RestoredWithinAllocated
  BY <1>2, <1>6 DEF AllocationsCoverSale, ReturnCanBeRestored, RestoredWithinAllocated
<1>8. StatusTellsBalance
  BY <1>3 DEF StatusTellsBalance, NoRow
<1>9. Bookkeeping
  BY <1>2, <1>3 DEF Bookkeeping, LegacyDrafts, NoRow
<1> QED BY <1>4, <1>5, <1>7, <1>8, <1>9 DEF IInv

\* Every step preserves the inductive invariant.
LEMMA NextPreserves == IInv /\ [Next]_vars => IInv'
<1> SUFFICES ASSUME IInv, [Next]_vars PROVE IInv'
  OBVIOUS
<1>1. CASE UNCHANGED vars
  BY <1>1 DEF vars, IInv, TypeOK, StockMatchesBatches, AllocationsCoverSale,
     RestoredWithinAllocated, ReturnCanBeRestored, StatusTellsBalance, Bookkeeping
<1>2. ASSUME NEW s \in Sales, NEW q \in Quantities, NEW override \in 0 .. MaxBatches,
             Checkout(s, q, override)
      PROVE  IInv'
  BY <1>2, CheckoutPreserves
<1>3. ASSUME NEW s \in Sales, VoidReceipt(s) PROVE IInv'
  BY <1>3, VoidReceiptPreserves
<1>4. ASSUME NEW s \in Sales, NEW q \in Quantities, DisposeReturn(s, q) PROVE IInv'
  BY <1>4, DisposeReturnPreserves
<1>5. ASSUME NEW s \in Sales, NEW q \in Quantities, RestockReturn(s, q) PROVE IInv'
  BY <1>5, RestockReturnPreserves
<1>6. ASSUME NEW q \in Quantities, NEW day \in 1 .. Today, DraftPurchase(q, day) PROVE IInv'
  BY <1>6, DraftPurchasePreserves
<1>7. ASSUME NEW b \in Batches, PostPurchase(b) PROVE IInv'
  BY <1>7, PostPurchasePreserves
<1>8. ASSUME EnableLegacyFifo PROVE IInv'
  BY <1>8, EnableLegacyFifoPreserves
<1>9. ASSUME NEW short \in Batches, NEW target \in Batches, NEW q \in Quantities,
             SettleShortage(short, target, q)
      PROVE  IInv'
  BY <1>9, SettleShortagePreserves
<1>10. ASSUME NEW counted \in Counts, NEW override \in 0 .. MaxBatches,
              AdjustStock(counted, override)
       PROVE  IInv'
  BY <1>10, AdjustStockPreserves
<1> QED BY <1>1, <1>2, <1>3, <1>4, <1>5, <1>6, <1>7, <1>8, <1>9, <1>10 DEF Next

\* Every reachable state satisfies the inductive invariant.
LEMMA Invariance == Spec => []IInv
  BY InitEstablishes, NextPreserves, PTL DEF Spec

\* The tables always hold values of their columns' types.
THEOREM TypeCorrect == Spec => []TypeOK
  BY Invariance, PTL DEF IInv

\* Under FIFO the snapshot is the balance of the batches plus exactly the units
\* that voids put back without a batch.
THEOREM StockAlwaysMatchesBatches == Spec => []StockMatchesBatches
  BY Invariance, PTL DEF IInv

\* A line sold under FIFO stays allocated in full, no batch gets back more
\* than it gave, and what may still be returned can always be restored.
THEOREM ReturnsAlwaysFit ==
  Spec => []ReturnsFit
  BY Invariance, PTL DEF IInv, ReturnsFit

\* Purchase drafts hold nothing until they are posted, rows that a line
\* consumed can take goods back, and no unreviewed legacy stock is left under
\* FIFO, whatever order uploads, postings and approvals come in.
THEOREM BookkeepingKept == Spec => []Bookkeeping
BY Invariance, PTL DEF IInv

\* A row's status always tells its balance.
THEOREM StatusAlwaysTellsBalance == Spec => []StatusTellsBalance
  BY Invariance, PTL DEF IInv

-----------------------------------------------------------------------------
(* Refinement.                                                             *)

\* What every step does to the four numbers of the abstract specification.
LEMMA StepMapsToPosition ==
  ASSUME IInv, IInv', [Next]_vars
  PROVE  [Position!PositionNext]_(Position!position)
<1> USE DEF Position!position, Position!PositionNext
<1>1. /\ snapshot \in Int /\ snapshot' \in Int
      /\ voidedStock \in Nat /\ voidedStock' \in Nat
      /\ fifoEnabled \in BOOLEAN /\ fifoEnabled' \in BOOLEAN
      /\ Balance(batch) \in Int /\ Balance(batch') \in Int
  BY BalanceType DEF IInv, TypeOK, BatchTables
<1>2. /\ fifoEnabled => snapshot = Balance(batch) + voidedStock
      /\ fifoEnabled' => snapshot' = Balance(batch') + voidedStock'
      /\ ~fifoEnabled => voidedStock = 0
  BY DEF IInv, StockMatchesBatches, Bookkeeping
<1>3. CASE fifoEnabled /\ UNCHANGED <<fifoEnabled, snapshot, voidedStock>>
  <2>1. Balance(batch') = Balance(batch)
    <3>1. fifoEnabled' /\ snapshot' = snapshot /\ voidedStock' = voidedStock
      BY <1>3
    <3>2. snapshot = Balance(batch) + voidedStock /\ snapshot = Balance(batch') + voidedStock
      BY <1>2, <1>3, <3>1
    <3>3. Balance(batch) = snapshot - voidedStock
      BY <3>2, <1>1
    <3>4. Balance(batch') = snapshot - voidedStock
      BY <3>2, <1>1
    <3> QED BY <3>3, <3>4
  <2> QED BY <1>3, <2>1
<1>4. CASE fifoEnabled /\ fifoEnabled' /\ voidedStock' = voidedStock /\ snapshot' = Balance(batch')
  <2>1. voidedStock = 0 /\ snapshot' = snapshot + (Balance(batch') - Balance(batch))
    BY <1>1, <1>2, <1>4
  <2> QED BY <1>1, <1>4, <2>1 DEF Position!MoveTogether
<1>5. CASE ~fifoEnabled /\ voidedStock' = voidedStock
  <2>1. fifoEnabled' => snapshot' = Balance(batch')
    BY <1>1, <1>2, <1>5
  <2> QED BY <1>1, <1>5, <2>1 DEF Position!BeforeFifo
<1>6. ASSUME NEW s \in Sales, NEW q \in Quantities, NEW override \in 0 .. MaxBatches,
             Checkout(s, q, override)
      PROVE  [Position!PositionNext]_(Position!position)
  <2>1. fifoEnabled' = fifoEnabled /\ voidedStock' = voidedStock
    BY <1>6 DEF Checkout
  <2>2. fifoEnabled => snapshot' = Balance(batch')
    BY <1>6 DEF Checkout, FifoStockInvariantHolds
  <2> QED BY <2>1, <2>2, <1>4, <1>5
<1>7. ASSUME NEW s \in Sales, VoidReceipt(s)
      PROVE  [Position!PositionNext]_(Position!position)
  <2>1. /\ sale[s].status = "COMPLETED" /\ snapshot' = snapshot + sale[s].quantity
        /\ voidedStock' = IF fifoEnabled THEN voidedStock + sale[s].quantity ELSE voidedStock
        /\ fifoEnabled' = fifoEnabled /\ batch' = batch
    BY <1>7 DEF VoidReceipt
  <2>2. sale[s].quantity \in Nat /\ sale[s].quantity > 0
    BY <2>1 DEF IInv, TypeOK, SaleLine, Bookkeeping
  <2>3. CASE fifoEnabled
    BY <2>1, <2>2, <2>3, <1>1 DEF Position!Void
  <2> QED BY <2>1, <2>3, <1>5
<1>8. ASSUME NEW s \in Sales, NEW q \in Quantities, DisposeReturn(s, q)
      PROVE  [Position!PositionNext]_(Position!position)
  BY <1>8, <1>3, <1>5 DEF DisposeReturn
<1>9. ASSUME NEW s \in Sales, NEW q \in Quantities, RestockReturn(s, q)
      PROVE  [Position!PositionNext]_(Position!position)
  <2>1. fifoEnabled' = fifoEnabled /\ voidedStock' = voidedStock
    BY <1>9 DEF RestockReturn
  <2>2. fifoEnabled => snapshot' = Balance(batch')
    BY <1>9 DEF RestockReturn, FifoStockInvariantHolds
  <2> QED BY <2>1, <2>2, <1>4, <1>5
<1>10. ASSUME NEW q \in Quantities, NEW day \in 1 .. Today, DraftPurchase(q, day)
       PROVE  [Position!PositionNext]_(Position!position)
  BY <1>10, <1>3, <1>5 DEF DraftPurchase
<1>11. ASSUME NEW b \in Batches, PostPurchase(b)
       PROVE  [Position!PositionNext]_(Position!position)
  <2>1. voidedStock' = voidedStock /\ (fifoEnabled => fifoEnabled')
        /\ (fifoEnabled => snapshot' = Balance(batch'))
    BY <1>11 DEF PostPurchase, FifoStockInvariantHolds
  <2> QED BY <2>1, <1>4, <1>5
<1>12. ASSUME EnableLegacyFifo
       PROVE  [Position!PositionNext]_(Position!position)
  <2>1. voidedStock' = voidedStock /\ fifoEnabled' /\ snapshot' = Balance(batch')
    BY <1>12 DEF EnableLegacyFifo, FifoStockInvariantHolds
  <2> QED BY <2>1, <1>4, <1>5
<1>13. ASSUME NEW short \in Batches, NEW target \in Batches, NEW q \in Quantities,
              SettleShortage(short, target, q)
       PROVE  [Position!PositionNext]_(Position!position)
  BY <1>13, <1>3, <1>5 DEF SettleShortage
<1>14. ASSUME NEW counted \in Counts, NEW override \in 0 .. MaxBatches,
              AdjustStock(counted, override)
       PROVE  [Position!PositionNext]_(Position!position)
  <2>1. fifoEnabled' = fifoEnabled /\ voidedStock' = voidedStock
    BY <1>14 DEF AdjustStock
  <2>2. fifoEnabled => snapshot' = Balance(batch')
    BY <1>14 DEF AdjustStock, FifoStockInvariantHolds
  <2> QED BY <2>1, <2>2, <1>4, <1>5
<1>15. CASE UNCHANGED vars
  BY <1>15 DEF vars
<1> QED BY <1>6, <1>7, <1>8, <1>9, <1>10, <1>11, <1>12, <1>13, <1>14, <1>15 DEF Next

\* FifoInventory implements StockPosition: snapshot and batches move in step
\* but for voids, and after a void only further voids change either.
THEOREM PositionImplemented == Spec => ImplementsPosition
<1>1. Init => Position!PositionInit
  BY InitialBalance, OpeningDomain DEF Init, Position!PositionInit
<1>2. IInv /\ IInv' /\ [Next]_vars => [Position!PositionNext]_(Position!position)
  BY StepMapsToPosition
<1> QED BY <1>1, <1>2, Invariance, PTL DEF Spec, ImplementsPosition, Position!PositionSpec
=============================================================================

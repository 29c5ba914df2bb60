------------------------- MODULE StockSteps_proofs -------------------------
(***************************************************************************)
(* FifoInventory takes each stock transaction as one step.  The two models *)
(* of what is inside that step, proved for any sets and any sizes:         *)
(*                                                                         *)
(*   - statement by statement (StockIsolation), the row locks, the         *)
(*     snapshots and the assertions keep the two tables of a FIFO product  *)
(*     together, for any sets of checkouts, receipts, counts and approvals;*)
(*   - row by row (FifoWalk), the loops of allocateFifoSale and            *)
(*     restoreFifoReturn do what FifoInventory says of them as a whole,    *)
(*     for tables of any size and any dates, requests and returns.         *)
(***************************************************************************)
EXTENDS StockIsolation, FifoWalk, QuantitySums_proofs

-----------------------------------------------------------------------------
(* Statement by statement.                                                 *)

Serializable == Sellers \cup Receivers

Seen == [enabled: BOOLEAN, stock: Int, goods: Nat, owed: Nat, draft: Nat]

Statements == {"begin", "stock", "product", "read", "rows", "upsert", "assert",
               "sum", "commit", "done"}

Row == [at: Statements, seen: Seen, stock: Int, goods: Int, owed: Nat,
        enables: BOOLEAN, missed: SUBSET Rows]

Typed ==
  /\ enabled \in BOOLEAN
  /\ stock \in Int /\ goods \in Nat /\ owed \in Nat /\ draft \in Nat
  /\ tx \in [Tx -> Row]
  /\ lock \in [Rows -> Tx \cup {Free}]
  /\ strays \subseteq Sellers \cup Counters

\* Which statements a transaction of each kind passes.
Stages(t) ==
  /\ t \in Sellers => tx[t].at \in {"begin", "stock", "rows", "commit", "done"}
  /\ t \in Receivers => tx[t].at \in {"begin", "stock", "product", "commit", "done"}
  /\ t \in Counters =>
       tx[t].at \in {"begin", "read", "rows", "upsert", "assert", "commit", "done"}
  /\ t \in Reviewers => tx[t].at \in {"begin", "rows", "product", "assert", "sum", "commit", "done"}

\* The locks that a transaction holds when it has come to a statement, and the
\* rows it may have locked at all.
Locked(t) ==
  /\ t \in Sellers /\ tx[t].at \in {"rows", "commit"} => lock["stock"] = t
  /\ t \in Receivers /\ tx[t].at \in {"product", "commit"} => lock["stock"] = t
  /\ t \in Receivers /\ tx[t].at = "commit" => lock["product"] = t
  /\ t \in Counters /\ tx[t].at \in {"assert", "commit"} => lock["stock"] = t
  /\ t \in Reviewers /\ tx[t].at \in {"product", "assert", "sum", "commit"} =>
       lock["draft"] = t /\ draft # 0
  /\ t \in Reviewers /\ tx[t].at \in {"assert", "sum", "commit"} => lock["product"] = t
  /\ \A r \in Rows : lock[r] = t => Running(t) /\ r \notin tx[t].missed
  /\ lock["stock"] = t => t \notin Reviewers
  /\ lock["draft"] = t => t \in Reviewers

\* What a transaction is going to change.
Changes(t) ==
  /\ tx[t].goods < 0 => lock["goods"] = t /\ goods + tx[t].goods >= 0
  /\ tx[t].enables =>
       /\ lock["product"] = t /\ t \in Receivers \cup Reviewers
       /\ t \in Receivers => draft = 0
  /\ t \in Receivers \cup Reviewers => tx[t].owed = 0
  /\ t \in Counters /\ tx[t].seen.enabled /\ tx[t].at \in {"upsert", "assert", "commit"} =>
       tx[t].goods - tx[t].owed = tx[t].stock - tx[t].seen.stock

\* What is left of a snapshot while the rows it shows have not been written.
Snapshot(t) ==
  LET seen == tx[t].seen
      missed == tx[t].missed
  IN  /\ seen.enabled => enabled
      /\ t \in Serializable /\ Running(t) =>
           /\ seen.draft = 0 => draft = 0
           /\ "stock" \notin missed => seen.stock = stock
           /\ "goods" \notin missed => goods >= seen.goods
           /\ "product" \notin missed => seen.enabled = enabled
           /\ "stock" \notin missed /\ "product" \notin missed =>
                goods = seen.goods /\ owed = seen.owed
           /\ strays = {} /\ seen.enabled => seen.stock = seen.goods - seen.owed

\* What an assertion has found still holds when its transaction commits, and
\* what its first statement has read when the second one runs.
StillAsserted(t) ==
  /\ t \in Counters /\ tx[t].at = "commit" /\ tx[t].seen.enabled =>
       tx[t].stock = goods + tx[t].goods - (owed + tx[t].owed)
  /\ t \in Reviewers /\ tx[t].at = "sum" /\ strays = {} => tx[t].seen.stock = stock
  /\ t \in Reviewers /\ tx[t].at = "commit" /\ strays = {} =>
       stock = goods + tx[t].goods - owed

Own(t) == Stages(t) /\ Locked(t) /\ Changes(t) /\ Snapshot(t) /\ StillAsserted(t)

IInv ==
  /\ Typed
  /\ \A t \in Tx : Own(t)
  /\ enabled => draft = 0
  /\ DriftNeedsStray

-----------------------------------------------------------------------------
(* Beginnings, and what follows from the invariant at once.                *)

LEMMA Start == Init => IInv
<1> SUFFICES ASSUME Init PROVE IInv
  OBVIOUS
<1>1. Typed
  BY OpeningDomain DEF Init, Typed, Row, Seen, Idle, Statements
<1>2. ASSUME NEW t \in Tx PROVE Own(t)
  <2>1. tx[t] = Idle /\ \A r \in Rows : lock[r] # t
    BY FreeIsNobody DEF Init
  <2>2. "stock" \in Rows /\ "goods" \in Rows /\ "product" \in Rows /\ "draft" \in Rows
    BY DEF Rows
  <2> QED BY <2>1, <2>2 DEF Own, Stages, Locked, Changes, Snapshot, StillAsserted, Idle, Running
<1>3. (enabled => draft = 0) /\ DriftNeedsStray
  BY OpeningDomain DEF Init, DriftNeedsStray, FifoStockInvariant
<1> QED BY <1>1, <1>2, <1>3 DEF IInv

LEMMA Consequences == IInv => TypeOK /\ DriftNeedsStray /\ CountsOverwriteNothing
<1> SUFFICES ASSUME IInv PROVE TypeOK /\ DriftNeedsStray /\ CountsOverwriteNothing
  OBVIOUS
<1>1. TypeOK
  <2>1. ASSUME NEW r \in Rows, lock[r] # Free PROVE lock[r] \in Tx /\ Running(lock[r])
    BY <2>1 DEF IInv, Own, Locked, Typed
  <2> QED BY <2>1 DEF IInv, Typed, TypeOK
<1>2. ASSUME NEW t \in Counters, tx[t].at = "commit", tx[t].seen.enabled, strays = {}
      PROVE  stock = tx[t].seen.stock
  <2>1. t \in Tx /\ Own(t) /\ tx[t] \in Row
    BY DEF IInv, Tx, Typed
  <2>2. enabled /\ stock = goods - owed
    BY <2>1, <1>2 DEF IInv, Own, Snapshot, DriftNeedsStray, FifoStockInvariant
  <2>3. /\ tx[t].goods - tx[t].owed = tx[t].stock - tx[t].seen.stock
        /\ tx[t].stock = goods + tx[t].goods - (owed + tx[t].owed)
    BY <2>1, <1>2 DEF Own, Changes, StillAsserted
  <2>4. /\ goods \in Int /\ owed \in Int /\ stock \in Int
        /\ tx[t].goods \in Int /\ tx[t].owed \in Int /\ tx[t].stock \in Int
        /\ tx[t].seen.stock \in Int
    BY <2>1 DEF IInv, Typed, Row, Seen
  <2> QED BY <2>2, <2>3, <2>4
<1> QED BY <1>1, <1>2 DEF IInv, CountsOverwriteNothing

-----------------------------------------------------------------------------
(* A statement changes the row of its transaction and takes or gives up    *)
(* locks; the database is as it was.                                       *)

Executes(t, row) ==
  /\ tx' = [tx EXCEPT ![t] = row]
  /\ lock' \in [Rows -> Tx \cup {Free}]
  /\ \A r \in Rows : \/ lock'[r] = lock[r]
                     \/ lock'[r] = t /\ lock[r] \in {Free, t}
                     \/ lock'[r] = Free /\ lock[r] = t
  /\ UNCHANGED <<db, strays>>

LEMMA OthersStay ==
  ASSUME IInv, NEW t \in Tx, NEW row \in Row, Executes(t, row), Own(t)'
  PROVE  IInv'
<1> USE DEF Executes, db
<1>1. Typed'
  BY DEF IInv, Typed
<1>2. ASSUME NEW u \in Tx, u # t PROVE Own(u)'
  <2>1. tx'[u] = tx[u]
    BY <1>2 DEF IInv, Typed
  <2>2. \A r \in Rows : lock'[r] = u <=> lock[r] = u
    BY <1>2, FreeIsNobody
  <2>3. "stock" \in Rows /\ "goods" \in Rows /\ "product" \in Rows /\ "draft" \in Rows
    BY DEF Rows
  <2>4. Own(u)
    BY DEF IInv
  <2>5. Stages(u)' /\ Snapshot(u)' /\ StillAsserted(u)'
    BY <2>1, <2>4 DEF Own, Stages, Snapshot, StillAsserted, Running
  <2>6. Locked(u)'
    BY <2>1, <2>2, <2>3, <2>4 DEF Own, Locked, Running
  <2>7. Changes(u)'
    BY <2>1, <2>2, <2>3, <2>4 DEF Own, Changes
  <2> QED BY <2>5, <2>6, <2>7 DEF Own
<1>3. (enabled => draft = 0)' /\ DriftNeedsStray'
  BY DEF IInv, DriftNeedsStray, FifoStockInvariant
<1> QED BY <1>1, <1>2, <1>3 DEF IInv

LEMMA RowNames == Rows = {"stock", "goods", "product", "draft"}
BY DEF Rows

LEMMA IdleRows == Idle \in Row /\ Done \in Row /\ Idle.at = "begin" /\ Done.at = "done"
<1>1. Idle \in Row /\ Idle.at = "begin"
  BY DEF Idle, Row, Seen, Statements
<1>2. "done" \in Statements
  BY DEF Statements
<1> QED BY <1>1, <1>2 DEF Done, Row

LEMMA AbortKeeps ==
  ASSUME IInv, NEW t \in Tx, Abort(t)
  PROVE  IInv'
<1>1. Executes(t, Done)
  BY DEF Abort, Executes, Unlock, IInv, Typed
<1>2. tx'[t] = Done /\ \A r \in Rows : lock'[r] # t
  BY FreeIsNobody DEF Abort, Unlock, IInv, Typed
<1>3. Own(t)'
  BY <1>2, RowNames DEF Own, Stages, Locked, Changes, Snapshot, StillAsserted, Done, Idle, Running
<1> QED BY <1>1, <1>3, IdleRows, OthersStay

\* A transaction that has not begun holds no lock.
LEMMA BeginKeeps ==
  ASSUME IInv, NEW t \in Serializable, Begin(t)
  PROVE  IInv'
<1> DEFINE row == [tx[t] EXCEPT !.at = "stock", !.seen = Current]
<1>1. t \in Tx /\ tx[t] \in Row /\ Own(t)
  BY DEF IInv, Typed, Tx, Serializable
<1>2. row \in Row
  BY <1>1 DEF Row, Seen, Current, IInv, Typed, Statements
<1>3. Executes(t, row)
  BY DEF Begin, Executes, IInv, Typed
<1>4. /\ tx'[t].at = "stock" /\ tx'[t].seen = Current /\ tx'[t].goods = tx[t].goods
      /\ tx'[t].owed = tx[t].owed /\ tx'[t].enables = tx[t].enables
      /\ tx'[t].missed = tx[t].missed
  BY <1>1 DEF Begin, IInv, Typed, Row
<1>5. tx[t].at = "begin" /\ UNCHANGED <<enabled, stock, goods, owed, draft, lock, strays>>
  BY DEF Begin, db
<1>6. \A r \in Rows : lock[r] # t
  BY <1>1, <1>5 DEF Own, Locked, Running
<1>7. t \notin Counters /\ t \notin Reviewers
  BY KindsDiffer DEF Serializable
<1>8. Stages(t)' /\ Locked(t)' /\ Changes(t)' /\ StillAsserted(t)'
  BY <1>1, <1>4, <1>5, <1>6, <1>7, RowNames
     DEF Own, Stages, Locked, Changes, StillAsserted, Running
<1>9. Snapshot(t)'
  BY <1>4, <1>5 DEF Snapshot, Current, IInv, DriftNeedsStray, FifoStockInvariant, Typed
<1> HIDE DEF row
<1> QED BY <1>1, <1>2, <1>3, <1>8, <1>9, OthersStay DEF Own

\* Two kinds are never met in one transaction.
LEMMA OneKind ==
  \A t \in Tx :
    /\ t \in Sellers => t \notin Receivers /\ t \notin Counters /\ t \notin Reviewers
    /\ t \in Receivers => t \notin Sellers /\ t \notin Counters /\ t \notin Reviewers
    /\ t \in Counters => t \notin Sellers /\ t \notin Receivers /\ t \notin Reviewers
    /\ t \in Reviewers => t \notin Sellers /\ t \notin Receivers /\ t \notin Counters
BY KindsDiffer DEF Tx

LEMMA SellStockKeeps ==
  ASSUME IInv, NEW t \in Sellers, SellStock(t)
  PROVE  IInv'
<1> DEFINE row == [tx[t] EXCEPT !.stock = tx[t].seen.stock - 1, !.at = "rows"]
<1>1. t \in Tx /\ tx[t] \in Row /\ Own(t)
  BY DEF IInv, Typed, Tx
<1>2. row \in Row
  <2>1. tx[t].seen.stock - 1 \in Int /\ "rows" \in Statements
    BY <1>1 DEF Row, Seen, Statements
  <2> QED BY <1>1, <2>1 DEF Row
<1>3. Executes(t, row)
  BY <1>1, RowNames DEF SellStock, MayLock, Executes, IInv, Typed
<1>4. /\ tx'[t].at = "rows" /\ tx'[t].seen = tx[t].seen /\ tx'[t].goods = tx[t].goods
      /\ tx'[t].owed = tx[t].owed /\ tx'[t].enables = tx[t].enables
      /\ tx'[t].missed = tx[t].missed
  BY <1>1 DEF SellStock, IInv, Typed, Row
<1>5. /\ tx[t].at = "stock" /\ "stock" \notin tx[t].missed
      /\ lock' = [lock EXCEPT !["stock"] = t]
      /\ UNCHANGED <<enabled, stock, goods, owed, draft, strays>>
  BY DEF SellStock, MayLock, db
<1>6. lock'["stock"] = t /\ \A r \in Rows \ {"stock"} : lock'[r] = lock[r]
  BY <1>5, RowNames DEF IInv, Typed
<1> HIDE DEF row
<1>7. Stages(t)' /\ Locked(t)' /\ Changes(t)' /\ StillAsserted(t)'
  BY <1>1, <1>4, <1>5, <1>6, OneKind, RowNames
     DEF Own, Stages, Locked, Changes, StillAsserted, Running
<1>8. Snapshot(t)'
  BY <1>1, <1>4, <1>5 DEF Own, Snapshot, Running
<1> QED BY <1>1, <1>2, <1>3, <1>7, <1>8, OthersStay DEF Own

LEMMA SellRowsKeeps ==
  ASSUME IInv, NEW t \in Sellers, SellRows(t)
  PROVE  IInv'
<1> DEFINE seen == tx[t].seen
           fifo == seen.enabled /\ seen.goods > 0
           row == [tx[t] EXCEPT !.at = "commit",
                     !.goods = IF seen.enabled THEN -Least(seen.goods, 1) ELSE 0,
                     !.owed = IF seen.enabled /\ seen.goods = 0 THEN 1 ELSE 0]
<1>1. t \in Tx /\ tx[t] \in Row /\ Own(t) /\ seen.goods \in Nat
  BY DEF IInv, Typed, Tx, Row, Seen
<1>2. row \in Row
  <2>1. /\ (IF seen.enabled THEN -Least(seen.goods, 1) ELSE 0) \in Int
        /\ (IF seen.enabled /\ seen.goods = 0 THEN 1 ELSE 0) \in Nat
        /\ "commit" \in Statements
    BY <1>1 DEF Statements, Least
  <2> QED BY <1>1, <2>1 DEF Row
<1>3. Executes(t, row)
  BY <1>1, RowNames DEF SellRows, MayLock, Executes, IInv, Typed
<1>4. /\ tx'[t].at = "commit" /\ tx'[t].seen = seen
      /\ tx'[t].goods = IF seen.enabled THEN -Least(seen.goods, 1) ELSE 0
      /\ tx'[t].enables = tx[t].enables /\ tx'[t].missed = tx[t].missed
  BY <1>1 DEF SellRows, IInv, Typed, Row
<1>5. /\ tx[t].at = "rows"
      /\ fifo => lock' = [lock EXCEPT !["goods"] = t] /\ "goods" \notin tx[t].missed
      /\ ~fifo => lock' = lock
      /\ UNCHANGED <<enabled, stock, goods, owed, draft, strays>>
  BY DEF SellRows, MayLock, db
<1>6. /\ \A r \in Rows \ {"goods"} : lock'[r] = lock[r]
      /\ fifo => lock'["goods"] = t
      /\ ~fifo => lock'["goods"] = lock["goods"]
  BY <1>5, RowNames DEF IInv, Typed
<1>7. Stages(t)' /\ StillAsserted(t)'
  BY <1>4, OneKind, <1>1 DEF Stages, StillAsserted
<1>8. Locked(t)'
  BY <1>1, <1>4, <1>5, <1>6, OneKind, RowNames DEF Own, Locked, Running
<1>9. Changes(t)'
  <2>1. tx'[t].goods < 0 => fifo /\ tx'[t].goods = -1
    BY <1>1, <1>4 DEF Least
  <2>2. fifo => goods >= seen.goods
    BY <1>1, <1>5 DEF Own, Snapshot, Running, Serializable
  <2> QED BY <2>1, <2>2, <1>1, <1>4, <1>5, <1>6, OneKind, RowNames DEF Own, Changes, IInv, Typed
<1>10. Snapshot(t)'
  BY <1>1, <1>4, <1>5 DEF Own, Snapshot, Running
<1> HIDE DEF row
<1> QED BY <1>1, <1>2, <1>3, <1>7, <1>8, <1>9, <1>10, OthersStay DEF Own

LEMMA PostStockKeeps ==
  ASSUME IInv, NEW t \in Receivers, PostStock(t)
  PROVE  IInv'
<1> DEFINE row == [tx[t] EXCEPT !.stock = tx[t].seen.stock + 1, !.goods = 1, !.at = "product"]
<1>1. t \in Tx /\ tx[t] \in Row /\ Own(t)
  BY DEF IInv, Typed, Tx
<1>2. row \in Row
  <2>1. tx[t].seen.stock + 1 \in Int /\ 1 \in Int /\ "product" \in Statements
    BY <1>1 DEF Row, Seen, Statements
  <2> QED BY <1>1, <2>1 DEF Row
<1>3. Executes(t, row)
  BY <1>1, RowNames DEF PostStock, MayLock, Executes, IInv, Typed
<1>4. /\ tx'[t].at = "product" /\ tx'[t].seen = tx[t].seen /\ tx'[t].goods = 1
      /\ tx'[t].owed = tx[t].owed /\ tx'[t].enables = tx[t].enables
      /\ tx'[t].missed = tx[t].missed
  BY <1>1 DEF PostStock, IInv, Typed, Row
<1>5. /\ tx[t].at = "stock" /\ "stock" \notin tx[t].missed
      /\ lock' = [lock EXCEPT !["stock"] = t]
      /\ UNCHANGED <<enabled, stock, goods, owed, draft, strays>>
  BY DEF PostStock, MayLock, db
<1>6. lock'["stock"] = t /\ \A r \in Rows \ {"stock"} : lock'[r] = lock[r]
  BY <1>5, RowNames DEF IInv, Typed
<1> HIDE DEF row
<1>7. Stages(t)' /\ Locked(t)' /\ Changes(t)' /\ StillAsserted(t)'
  BY <1>1, <1>4, <1>5, <1>6, OneKind, RowNames
     DEF Own, Stages, Locked, Changes, StillAsserted, Running
<1>8. Snapshot(t)'
  BY <1>1, <1>4, <1>5 DEF Own, Snapshot, Running
<1> QED BY <1>1, <1>2, <1>3, <1>7, <1>8, OthersStay DEF Own

LEMMA PostProductKeeps ==
  ASSUME IInv, NEW t \in Receivers, PostProduct(t)
  PROVE  IInv'
<1> DEFINE row == [tx[t] EXCEPT !.enables = tx[t].seen.draft = 0, !.at = "commit"]
<1>1. t \in Tx /\ tx[t] \in Row /\ Own(t)
  BY DEF IInv, Typed, Tx
<1>2. row \in Row
  <2>1. (tx[t].seen.draft = 0) \in BOOLEAN /\ "commit" \in Statements
    BY DEF Statements
  <2> QED BY <1>1, <2>1 DEF Row
<1>3. Executes(t, row)
  BY <1>1, RowNames DEF PostProduct, MayLock, Executes, IInv, Typed
<1>4. /\ tx'[t].at = "commit" /\ tx'[t].seen = tx[t].seen /\ tx'[t].goods = tx[t].goods
      /\ tx'[t].owed = tx[t].owed /\ tx'[t].enables = (tx[t].seen.draft = 0)
      /\ tx'[t].missed = tx[t].missed
  BY <1>1 DEF PostProduct, IInv, Typed, Row
<1>5. /\ tx[t].at = "product" /\ "product" \notin tx[t].missed
      /\ lock' = [lock EXCEPT !["product"] = t]
      /\ UNCHANGED <<enabled, stock, goods, owed, draft, strays>>
  BY DEF PostProduct, MayLock, db
<1>6. lock'["product"] = t /\ \A r \in Rows \ {"product"} : lock'[r] = lock[r]
  BY <1>5, RowNames DEF IInv, Typed
<1> HIDE DEF row
<1>7. Stages(t)' /\ Locked(t)' /\ StillAsserted(t)'
  BY <1>1, <1>4, <1>5, <1>6, OneKind, RowNames
     DEF Own, Stages, Locked, StillAsserted, Running
<1>8. Changes(t)'
  <2>1. tx[t].seen.draft = 0 => draft = 0
    BY <1>1, <1>5 DEF Own, Snapshot, Running, Serializable
  <2> QED BY <2>1, <1>1, <1>4, <1>5, <1>6, OneKind, RowNames DEF Own, Changes
<1>9. Snapshot(t)'
  BY <1>1, <1>4, <1>5 DEF Own, Snapshot, Running
<1> QED BY <1>1, <1>2, <1>3, <1>7, <1>8, <1>9, OthersStay DEF Own

-----------------------------------------------------------------------------
(* The statements of a count and of an approval.                           *)

LEMMA CountProductKeeps ==
  ASSUME IInv, NEW t \in Counters, CountProduct(t)
  PROVE  IInv'
<1> DEFINE row == [tx[t] EXCEPT !.at = "read", !.seen.enabled = enabled]
<1>1. t \in Tx /\ tx[t] \in Row /\ Own(t)
  BY DEF IInv, Typed, Tx
<1>2. row \in Row
  <2>1. [tx[t].seen EXCEPT !.enabled = enabled] \in Seen /\ "read" \in Statements
    BY <1>1 DEF Row, Seen, Statements, IInv, Typed
  <2> QED BY <1>1, <2>1 DEF Row
<1>3. Executes(t, row)
  BY <1>1 DEF CountProduct, Executes, IInv, Typed
<1>4. /\ tx'[t].at = "read" /\ tx'[t].seen.enabled = enabled /\ tx'[t].goods = tx[t].goods
      /\ tx'[t].owed = tx[t].owed /\ tx'[t].enables = tx[t].enables
      /\ tx'[t].missed = tx[t].missed
  BY <1>1 DEF CountProduct, IInv, Typed, Row, Seen
<1>5. tx[t].at = "begin" /\ UNCHANGED <<enabled, stock, goods, owed, draft, lock, strays>>
  BY DEF CountProduct, db
<1>6. t \notin Serializable
  BY <1>1, OneKind DEF Serializable
<1> HIDE DEF row
<1>7. Own(t)'
  BY <1>1, <1>4, <1>5, <1>6, OneKind, RowNames
     DEF Own, Stages, Locked, Changes, StillAsserted, Snapshot, Running
<1> QED BY <1>1, <1>2, <1>3, <1>7, OthersStay

LEMMA CountReadKeeps ==
  ASSUME IInv, NEW t \in Counters, NEW counted \in Counts, CountRead(t, counted)
  PROVE  IInv'
<1> DEFINE row == [tx[t] EXCEPT !.at = "rows", !.seen.stock = stock, !.stock = counted]
<1>1. t \in Tx /\ tx[t] \in Row /\ Own(t) /\ counted \in Int
  BY CountDomain DEF IInv, Typed, Tx
<1>2. row \in Row
  <2>1. [tx[t].seen EXCEPT !.stock = stock] \in Seen /\ "rows" \in Statements
    BY <1>1 DEF Row, Seen, Statements, IInv, Typed
  <2> QED BY <1>1, <2>1 DEF Row
<1>3. Executes(t, row)
  BY <1>1 DEF CountRead, Executes, IInv, Typed
<1>4. /\ tx'[t].at = "rows" /\ tx'[t].seen.enabled = tx[t].seen.enabled
      /\ tx'[t].goods = tx[t].goods
      /\ tx'[t].owed = tx[t].owed /\ tx'[t].enables = tx[t].enables
      /\ tx'[t].missed = tx[t].missed
  BY <1>1 DEF CountRead, IInv, Typed, Row, Seen
<1>5. tx[t].at = "read" /\ UNCHANGED <<enabled, stock, goods, owed, draft, lock, strays>>
  BY DEF CountRead, db
<1>6. t \notin Serializable
  BY <1>1, OneKind DEF Serializable
<1> HIDE DEF row
<1>7. Own(t)'
  BY <1>1, <1>4, <1>5, <1>6, OneKind, RowNames
     DEF Own, Stages, Locked, Changes, StillAsserted, Snapshot, Running
<1> QED BY <1>1, <1>2, <1>3, <1>7, OthersStay

\* What a count takes from the rows and what it owes make up the difference it
\* has found.
LEMMA CountRowsKeeps ==
  ASSUME IInv, NEW t \in Counters, CountRows(t)
  PROVE  IInv'
<1> DEFINE fifo  == tx[t].seen.enabled
           delta == tx[t].stock - tx[t].seen.stock
           taken == Least(goods, -delta)
           moved == IF ~fifo THEN 0 ELSE IF delta > 0 THEN delta ELSE -taken
           short == IF fifo /\ delta <= 0 THEN -delta - taken ELSE 0
           takes == fifo /\ delta <= 0 /\ goods > 0
           row == [tx[t] EXCEPT !.at = "upsert", !.goods = moved, !.owed = short]
<1>1. t \in Tx /\ tx[t] \in Row /\ Own(t)
  BY DEF IInv, Typed, Tx
<1>2. goods \in Nat /\ delta \in Int
  BY <1>1 DEF IInv, Typed, Row, Seen
<1>3. /\ moved \in Int /\ short \in Nat
      /\ fifo => moved - short = delta
      /\ moved < 0 => takes /\ goods + moved >= 0
  <2> HIDE DEF delta, fifo
  <2>1. delta <= 0 => taken \in Nat /\ taken <= goods /\ taken <= -delta
    BY <1>2 DEF Least
  <2>2. CASE ~fifo
    BY <2>2
  <2>3. CASE fifo /\ delta > 0
    BY <2>3, <1>2
  <2>4. CASE fifo /\ delta <= 0
    <3> HIDE DEF taken
    <3> QED BY <2>1, <2>4, <1>2
  <2> QED BY <2>2, <2>3, <2>4, <1>2
<1> HIDE DEF moved, short, takes
<1>4. row \in Row
  <2>1. "upsert" \in Statements
    BY DEF Statements
  <2> QED BY <1>1, <1>3, <2>1 DEF Row
<1>5. /\ tx[t].at = "rows"
      /\ tx' = [tx EXCEPT ![t] = row]
      /\ takes => MayLock(t, "goods") /\ lock' = [lock EXCEPT !["goods"] = t]
      /\ ~takes => lock' = lock
      /\ UNCHANGED <<enabled, stock, goods, owed, draft, strays>>
  <2>1. tx' = [tx EXCEPT ![t].at = "upsert", ![t].goods = moved, ![t].owed = short]
    BY DEF CountRows, moved, short
  <2> QED BY <2>1 DEF CountRows, takes, db
<1>6. Executes(t, row)
  BY <1>1, <1>5, RowNames DEF MayLock, Executes, IInv, Typed, db
<1>7. /\ tx'[t].at = "upsert" /\ tx'[t].seen = tx[t].seen /\ tx'[t].stock = tx[t].stock
      /\ tx'[t].goods = moved /\ tx'[t].owed = short
      /\ tx'[t].enables = tx[t].enables /\ tx'[t].missed = tx[t].missed
  BY <1>1, <1>5 DEF IInv, Typed, Row
<1>8. /\ \A r \in Rows \ {"goods"} : lock'[r] = lock[r]
      /\ takes => lock'["goods"] = t /\ "goods" \notin tx[t].missed
      /\ ~takes => lock'["goods"] = lock["goods"]
  BY <1>5, RowNames DEF IInv, Typed, MayLock
<1> HIDE DEF row
<1>9. Stages(t)' /\ StillAsserted(t)' /\ Snapshot(t)'
  BY <1>1, <1>5, <1>7, OneKind DEF Stages, StillAsserted, Snapshot, Own, Serializable
<1>10. Locked(t)'
  BY <1>1, <1>5, <1>7, <1>8, OneKind, RowNames DEF Own, Locked, Running
<1>11. Changes(t)'
  BY <1>1, <1>3, <1>5, <1>7, <1>8, OneKind, RowNames DEF Own, Changes
<1> QED BY <1>1, <1>4, <1>6, <1>9, <1>10, <1>11, OthersStay DEF Own

LEMMA CountUpsertKeeps ==
  ASSUME IInv, NEW t \in Counters, CountUpsert(t)
  PROVE  IInv'
<1> DEFINE row == [tx[t] EXCEPT !.at = "assert"]
<1>1. t \in Tx /\ tx[t] \in Row /\ Own(t)
  BY DEF IInv, Typed, Tx
<1>2. row \in Row
  BY <1>1 DEF Row, Statements
<1>3. Executes(t, row)
  BY <1>1, RowNames DEF CountUpsert, MayLock, Executes, IInv, Typed
<1>4. /\ tx'[t].at = "assert" /\ tx'[t].seen = tx[t].seen /\ tx'[t].goods = tx[t].goods
      /\ tx'[t].owed = tx[t].owed /\ tx'[t].enables = tx[t].enables
      /\ tx'[t].missed = tx[t].missed /\ tx'[t].stock = tx[t].stock
  BY <1>1 DEF CountUpsert, IInv, Typed, Row
<1>5. /\ tx[t].at = "upsert" /\ "stock" \notin tx[t].missed
      /\ lock' = [lock EXCEPT !["stock"] = t]
      /\ UNCHANGED <<enabled, stock, goods, owed, draft, strays>>
  BY DEF CountUpsert, MayLock, db
<1>6. lock'["stock"] = t /\ \A r \in Rows \ {"stock"} : lock'[r] = lock[r]
  BY <1>5, RowNames DEF IInv, Typed
<1> HIDE DEF row
<1>7. Stages(t)' /\ Locked(t)' /\ StillAsserted(t)' /\ Snapshot(t)'
  BY <1>1, <1>4, <1>5, <1>6, OneKind, RowNames
     DEF Own, Stages, Locked, StillAsserted, Snapshot, Serializable, Running
<1>8. Changes(t)'
  BY <1>1, <1>4, <1>5, <1>6, OneKind, RowNames DEF Own, Changes
<1> QED BY <1>1, <1>2, <1>3, <1>7, <1>8, OthersStay DEF Own

LEMMA CountAssertKeeps ==
  ASSUME IInv, NEW t \in Counters, CountAssert(t)
  PROVE  IInv'
<1> DEFINE row == [tx[t] EXCEPT !.at = "commit"]
<1>1. t \in Tx /\ tx[t] \in Row /\ Own(t)
  BY DEF IInv, Typed, Tx
<1>2. row \in Row
  BY <1>1 DEF Row, Statements
<1>3. Executes(t, row)
  BY <1>1 DEF CountAssert, Executes, IInv, Typed
<1>4. /\ tx'[t].at = "commit" /\ tx'[t].seen = tx[t].seen /\ tx'[t].goods = tx[t].goods
      /\ tx'[t].owed = tx[t].owed /\ tx'[t].enables = tx[t].enables
      /\ tx'[t].missed = tx[t].missed /\ tx'[t].stock = tx[t].stock
  BY <1>1 DEF CountAssert, IInv, Typed, Row
<1>5. /\ tx[t].at = "assert"
      /\ tx[t].seen.enabled => tx[t].stock = goods + tx[t].goods - (owed + tx[t].owed)
      /\ UNCHANGED <<enabled, stock, goods, owed, draft, lock, strays>>
  BY DEF CountAssert, db
<1> HIDE DEF row
<1>7. Stages(t)' /\ Locked(t)' /\ StillAsserted(t)' /\ Snapshot(t)'
  BY <1>1, <1>4, <1>5, OneKind, RowNames
     DEF Own, Stages, Locked, StillAsserted, Snapshot, Serializable, Running
<1>8. Changes(t)'
  BY <1>1, <1>4, <1>5, OneKind, RowNames DEF Own, Changes
<1> QED BY <1>1, <1>2, <1>3, <1>7, <1>8, OthersStay DEF Own

LEMMA ReviewReadKeeps ==
  ASSUME IInv, NEW t \in Reviewers, ReviewRead(t)
  PROVE  IInv'
<1> DEFINE row == [tx[t] EXCEPT !.at = "rows", !.seen.draft = draft]
<1>1. t \in Tx /\ tx[t] \in Row /\ Own(t)
  BY DEF IInv, Typed, Tx
<1>2. row \in Row
  <2>1. [tx[t].seen EXCEPT !.draft = draft] \in Seen /\ "rows" \in Statements
    BY <1>1 DEF Row, Seen, Statements, IInv, Typed
  <2> QED BY <1>1, <2>1 DEF Row
<1>3. Executes(t, row)
  BY <1>1 DEF ReviewRead, Executes, IInv, Typed
<1>4. /\ tx'[t].at = "rows" /\ tx'[t].seen.enabled = tx[t].seen.enabled
      /\ tx'[t].goods = tx[t].goods
      /\ tx'[t].owed = tx[t].owed /\ tx'[t].enables = tx[t].enables
      /\ tx'[t].missed = tx[t].missed
  BY <1>1 DEF ReviewRead, IInv, Typed, Row, Seen
<1>5. tx[t].at = "begin" /\ UNCHANGED <<enabled, stock, goods, owed, draft, lock, strays>>
  BY DEF ReviewRead, db
<1>6. t \notin Serializable
  BY <1>1, OneKind DEF Serializable
<1> HIDE DEF row
<1>7. Own(t)'
  BY <1>1, <1>4, <1>5, <1>6, OneKind, RowNames
     DEF Own, Stages, Locked, Changes, StillAsserted, Snapshot, Running
<1> QED BY <1>1, <1>2, <1>3, <1>7, OthersStay

LEMMA ReviewRowsKeeps ==
  ASSUME IInv, NEW t \in Reviewers, ReviewRows(t)
  PROVE  IInv'
<1> DEFINE row == [tx[t] EXCEPT !.at = "product", !.goods = tx[t].seen.draft]
<1>1. t \in Tx /\ tx[t] \in Row /\ Own(t) /\ tx[t].seen.draft \in Nat
  BY DEF IInv, Typed, Tx, Row, Seen
<1>2. row \in Row
  <2>1. tx[t].seen.draft \in Int /\ "product" \in Statements
    BY <1>1 DEF Statements
  <2> QED BY <1>1, <2>1 DEF Row
<1>3. Executes(t, row)
  BY <1>1, RowNames DEF ReviewRows, MayLock, Executes, IInv, Typed
<1>4. /\ tx'[t].at = "product" /\ tx'[t].seen = tx[t].seen
      /\ tx'[t].goods = tx[t].seen.draft
      /\ tx'[t].owed = tx[t].owed /\ tx'[t].enables = tx[t].enables
      /\ tx'[t].missed = tx[t].missed
  BY <1>1 DEF ReviewRows, IInv, Typed, Row
<1>5. /\ tx[t].at = "rows" /\ "draft" \notin tx[t].missed /\ draft # 0
      /\ lock' = [lock EXCEPT !["draft"] = t]
      /\ UNCHANGED <<enabled, stock, goods, owed, draft, strays>>
  BY DEF ReviewRows, MayLock, db
<1>6. lock'["draft"] = t /\ \A r \in Rows \ {"draft"} : lock'[r] = lock[r]
  BY <1>5, RowNames DEF IInv, Typed
<1> HIDE DEF row
<1>7. Stages(t)' /\ Locked(t)' /\ StillAsserted(t)' /\ Snapshot(t)'
  BY <1>1, <1>4, <1>5, <1>6, OneKind, RowNames
     DEF Own, Stages, Locked, StillAsserted, Snapshot, Serializable, Running
<1>8. Changes(t)'
  BY <1>1, <1>4, <1>5, <1>6, OneKind, RowNames DEF Own, Changes
<1> QED BY <1>1, <1>2, <1>3, <1>7, <1>8, OthersStay DEF Own

LEMMA ReviewProductKeeps ==
  ASSUME IInv, NEW t \in Reviewers, ReviewProduct(t)
  PROVE  IInv'
<1> DEFINE row == [tx[t] EXCEPT !.at = "assert", !.enables = TRUE]
<1>1. t \in Tx /\ tx[t] \in Row /\ Own(t)
  BY DEF IInv, Typed, Tx
<1>2. row \in Row
  BY <1>1 DEF Row, Statements
<1>3. Executes(t, row)
  BY <1>1, RowNames DEF ReviewProduct, MayLock, Executes, IInv, Typed
<1>4. /\ tx'[t].at = "assert" /\ tx'[t].seen = tx[t].seen /\ tx'[t].goods = tx[t].goods
      /\ tx'[t].owed = tx[t].owed /\ tx'[t].missed = tx[t].missed
  BY <1>1 DEF ReviewProduct, IInv, Typed, Row
<1>5. /\ tx[t].at = "product" /\ "product" \notin tx[t].missed
      /\ lock' = [lock EXCEPT !["product"] = t]
      /\ UNCHANGED <<enabled, stock, goods, owed, draft, strays>>
  BY DEF ReviewProduct, MayLock, db
<1>6. lock'["product"] = t /\ \A r \in Rows \ {"product"} : lock'[r] = lock[r]
  BY <1>5, RowNames DEF IInv, Typed
<1> HIDE DEF row
<1>7. Stages(t)' /\ Locked(t)' /\ StillAsserted(t)' /\ Snapshot(t)'
  BY <1>1, <1>4, <1>5, <1>6, OneKind, RowNames
     DEF Own, Stages, Locked, StillAsserted, Snapshot, Serializable, Running
<1>8. Changes(t)'
  BY <1>1, <1>4, <1>5, <1>6, OneKind, RowNames DEF Own, Changes
<1> QED BY <1>1, <1>2, <1>3, <1>7, <1>8, OthersStay DEF Own

LEMMA ReviewReadStockKeeps ==
  ASSUME IInv, NEW t \in Reviewers, ReviewReadStock(t)
  PROVE  IInv'
<1> DEFINE row == [tx[t] EXCEPT !.at = "sum", !.seen.stock = stock]
<1>1. t \in Tx /\ tx[t] \in Row /\ Own(t) /\ stock \in Int
  BY DEF IInv, Typed, Tx
<1>2. row \in Row
  <2>1. [tx[t].seen EXCEPT !.stock = stock] \in Seen
    BY <1>1 DEF Row, Seen
  <2> QED BY <1>1, <2>1 DEF Row, Statements
<1>3. Executes(t, row)
  BY <1>1 DEF ReviewReadStock, Executes, IInv, Typed
<1>4. /\ tx'[t].at = "sum" /\ tx'[t].seen.stock = stock
      /\ tx'[t].seen.enabled = tx[t].seen.enabled
      /\ tx'[t].goods = tx[t].goods /\ tx'[t].stock = tx[t].stock
      /\ tx'[t].owed = tx[t].owed /\ tx'[t].enables = tx[t].enables
      /\ tx'[t].missed = tx[t].missed
  <2>1. tx' = [tx EXCEPT ![t] = row]
    BY DEF ReviewReadStock
  <2>2. tx'[t] = row
    BY <2>1, <1>1 DEF IInv, Typed
  <2>3. tx[t].seen \in Seen
    BY <1>1 DEF Row
  <2> QED BY <2>2, <2>3, <1>1 DEF Row, Seen
<1>5. /\ tx[t].at = "assert"
      /\ UNCHANGED <<enabled, stock, goods, owed, draft, lock, strays>>
  BY DEF ReviewReadStock, db
<1> HIDE DEF row
<1>7. Stages(t)' /\ Locked(t)' /\ StillAsserted(t)' /\ Snapshot(t)'
  BY <1>1, <1>4, <1>5, OneKind, RowNames
     DEF Own, Stages, Locked, StillAsserted, Snapshot, Serializable, Running
<1>8. Changes(t)'
  BY <1>1, <1>4, <1>5, OneKind, RowNames DEF Own, Changes
<1> QED BY <1>1, <1>2, <1>3, <1>7, <1>8, OthersStay DEF Own

LEMMA ReviewAssertKeeps ==
  ASSUME IInv, NEW t \in Reviewers, ReviewAssert(t)
  PROVE  IInv'
<1> DEFINE row == [tx[t] EXCEPT !.at = "commit"]
<1>1. t \in Tx /\ tx[t] \in Row /\ Own(t)
  BY DEF IInv, Typed, Tx
<1>2. row \in Row
  BY <1>1 DEF Row, Statements
<1>3. Executes(t, row)
  BY <1>1 DEF ReviewAssert, Executes, IInv, Typed
<1>4. /\ tx'[t].at = "commit" /\ tx'[t].seen = tx[t].seen /\ tx'[t].goods = tx[t].goods
      /\ tx'[t].owed = tx[t].owed /\ tx'[t].enables = tx[t].enables
      /\ tx'[t].missed = tx[t].missed
  BY <1>1 DEF ReviewAssert, IInv, Typed, Row
<1>5. /\ tx[t].at = "sum" /\ tx[t].seen.stock = goods + tx[t].goods - owed
      /\ UNCHANGED <<enabled, stock, goods, owed, draft, lock, strays>>
  BY DEF ReviewAssert, db
<1> HIDE DEF row
<1>7. Stages(t)' /\ Locked(t)' /\ StillAsserted(t)' /\ Snapshot(t)'
  BY <1>1, <1>4, <1>5, OneKind, RowNames
     DEF Own, Stages, Locked, StillAsserted, Snapshot, Serializable, Running
<1>8. Changes(t)'
  BY <1>1, <1>4, <1>5, OneKind, RowNames DEF Own, Changes
<1> QED BY <1>1, <1>2, <1>3, <1>7, <1>8, OthersStay DEF Own

-----------------------------------------------------------------------------
(* A commit.                                                               *)

\* The history of strays grows, and while it stays empty no approval is
\* in its assertion or past it and the tables agree.
Agrees(t) ==
  /\ strays \subseteq strays' /\ strays' \subseteq Sellers \cup Counters
  /\ strays' = {} =>
       /\ \A u \in Reviewers \ {t} : tx[u].at \notin {"sum", "commit"}
       /\ enabled' => stock' = goods' - owed'

\* What a commit writes, its transaction has locked.
Writes(t) ==
  /\ goods' \in Nat /\ owed' \in Nat /\ stock' \in Int /\ draft' \in {draft, 0}
  /\ enabled' \in BOOLEAN
  /\ enabled => enabled'
  /\ lock["stock"] # t => stock' = stock
  /\ lock["goods"] # t => goods' >= goods
  /\ lock["product"] # t => enabled' = enabled
  /\ lock["draft"] # t => draft' = draft
  /\ lock["stock"] # t /\ lock["product"] # t => goods' = goods /\ owed' = owed
  /\ enabled' => draft' = 0

LEMMA CommitWrites ==
  ASSUME IInv, NEW t \in Tx, tx[t].at = "commit", Commit(t)
  PROVE  Writes(t)
<1>1. /\ tx[t] \in Row /\ Own(t) /\ stock \in Int /\ goods \in Nat /\ owed \in Nat
      /\ draft \in Nat /\ enabled \in BOOLEAN
  BY DEF IInv, Typed
<1>2. /\ tx[t].goods \in Int /\ tx[t].owed \in Nat /\ tx[t].stock \in Int
      /\ tx[t].enables \in BOOLEAN
  BY <1>1 DEF Row
<1>3. /\ stock' = IF lock["stock"] = t THEN tx[t].stock ELSE stock
      /\ goods' = goods + tx[t].goods
      /\ owed' = owed + tx[t].owed
      /\ enabled' = (enabled \/ tx[t].enables)
      /\ draft' = IF lock["draft"] = t THEN 0 ELSE draft
  BY DEF Commit
<1>4. tx[t].goods < 0 => lock["goods"] = t /\ goods + tx[t].goods >= 0
  BY <1>1 DEF Own, Changes
<1>5. goods' \in Nat /\ (lock["goods"] # t => goods' >= goods)
  BY <1>1, <1>2, <1>3, <1>4
<1>6. lock["stock"] = t \/ lock["product"] = t
  BY <1>1 DEF Own, Locked, Tx
<1>7. tx[t].enables =>
        /\ lock["product"] = t
        /\ draft = 0 \/ lock["draft"] = t
  BY <1>1 DEF Own, Changes, Locked
<1>8. enabled => draft = 0
  BY DEF IInv
<1> QED BY <1>1, <1>2, <1>3, <1>5, <1>6, <1>7, <1>8 DEF Writes

LEMMA CommitKeeps ==
  ASSUME IInv, NEW t \in Tx, tx[t].at = "commit", Commit(t), Agrees(t)
  PROVE  IInv'
<1>1. Writes(t)
  BY CommitWrites
<1>2. /\ \A u \in Tx \ {t} :
           tx'[u] = IF Running(u) /\ u \in Serializable
                    THEN [tx[u] EXCEPT !.missed = @ \cup Holds(t)] ELSE tx[u]
      /\ tx'[t] = Done /\ tx' = [u \in Tx |-> tx'[u]]
  BY DEF Commit, Serializable
<1>3. /\ lock' = [r \in Rows |-> IF lock[r] = t THEN Free ELSE lock[r]]
      /\ lock' \in [Rows -> Tx \cup {Free}]
  BY DEF Commit, Unlock, IInv, Typed
<1>4. Holds(t) \subseteq Rows /\ \A r \in Rows : r \in Holds(t) <=> lock[r] = t
  BY DEF Holds
<1>5. ASSUME NEW u \in Tx \ {t}
      PROVE  /\ tx'[u] \in Row /\ tx'[u].at = tx[u].at /\ tx'[u].seen = tx[u].seen
             /\ tx'[u].stock = tx[u].stock
             /\ tx'[u].goods = tx[u].goods /\ tx'[u].owed = tx[u].owed
             /\ tx'[u].enables = tx[u].enables
             /\ u \in Serializable /\ Running(u) =>
                  tx'[u].missed = tx[u].missed \cup Holds(t)
             /\ ~(u \in Serializable /\ Running(u)) => tx'[u].missed = tx[u].missed
  <2>1. tx[u] \in Row
    BY DEF IInv, Typed
  <2>2. tx[u].missed \cup Holds(t) \in SUBSET Rows
    BY <2>1, <1>4 DEF Row
  <2> QED BY <1>2, <2>1, <2>2 DEF Row
<1>6. Typed'
  <2>1. \A u \in Tx : tx'[u] \in Row
    BY <1>2, <1>5, IdleRows
  <2>2. tx' \in [Tx -> Row]
    BY <1>2, <2>1
  <2> QED BY <1>1, <1>3, <2>2 DEF Typed, Writes, Agrees, IInv
<1>7. Own(t)'
  <2>1. tx'[t] = Done /\ \A r \in Rows : lock'[r] # t
    BY <1>2, <1>3, FreeIsNobody
  <2> QED BY <2>1, RowNames
          DEF Own, Stages, Locked, Changes, Snapshot, StillAsserted, Done, Idle, Running
<1>8. ASSUME NEW u \in Tx \ {t} PROVE Own(u)'
  <2>1. \A r \in Rows : lock'[r] = u <=> lock[r] = u
    BY <1>3, FreeIsNobody
  <2>2. Own(u) /\ Own(t)
    BY DEF IInv
  <2>3. Running(u)' <=> Running(u)
    BY <1>5 DEF Running
  <2>4. \A r \in Rows : lock[r] = u => r \notin tx'[u].missed
    BY <1>4, <1>5, <2>2 DEF Own, Locked
  <2>5. Stages(u)'
    BY <1>5, <2>2 DEF Own, Stages
  <2>6. Locked(u)'
    <3>1. lock["draft"] = u => draft' = draft
      BY <1>1 DEF Writes
    <3> QED BY <1>5, <2>1, <2>2, <2>3, <2>4, <3>1, RowNames DEF Own, Locked
  <2>7. Changes(u)'
    <3>1. lock["goods"] = u => goods' >= goods
      BY <1>1 DEF Writes
    <3>2. draft = 0 => draft' = 0
      BY <1>1 DEF Writes
    <3>3. /\ goods \in Nat /\ goods' \in Nat /\ tx[u].goods \in Int
      BY <1>1 DEF IInv, Typed, Row, Writes
    <3>4. tx[u].goods < 0 => lock["goods"] = u /\ goods + tx[u].goods >= 0
      BY <2>2 DEF Own, Changes
    <3>5. tx[u].goods < 0 => lock'["goods"] = u /\ goods' + tx[u].goods >= 0
      BY <3>1, <3>3, <3>4, <2>1, RowNames
    <3> QED BY <1>5, <2>1, <2>2, <3>2, <3>5, RowNames DEF Own, Changes
  <2>8. Snapshot(u)'
    <3>1. tx[u].seen.enabled => enabled'
      BY <2>2, <1>1 DEF Own, Snapshot, Writes
    <3>2. CASE ~(u \in Serializable /\ Running(u))
      BY <3>1, <3>2, <1>5, <2>3 DEF Snapshot
    <3>3. CASE u \in Serializable /\ Running(u)
      <4>1. tx'[u].missed = tx[u].missed \cup Holds(t)
        BY <1>5, <3>3
      <4>2. tx[u].seen \in Seen /\ goods \in Nat /\ goods' \in Nat
        BY <1>1 DEF IInv, Typed, Row, Writes
      <4>3. \A r \in Rows : r \notin tx'[u].missed => r \notin tx[u].missed /\ lock[r] # t
        BY <4>1, <1>4
      <4>4. tx[u].seen.draft = 0 => draft' = 0
        BY <1>1, <2>2, <3>3 DEF Own, Snapshot, Writes
      <4>5. "stock" \notin tx'[u].missed => tx[u].seen.stock = stock'
        BY <1>1, <2>2, <3>3, <4>3, RowNames DEF Own, Snapshot, Writes
      <4>6. "goods" \notin tx'[u].missed => goods' >= tx[u].seen.goods
        <5>1. "goods" \notin tx'[u].missed => goods >= tx[u].seen.goods /\ goods' >= goods
          BY <1>1, <2>2, <3>3, <4>3, RowNames DEF Own, Snapshot, Writes
        <5> QED BY <5>1, <4>2 DEF Seen
      <4>7. "product" \notin tx'[u].missed => tx[u].seen.enabled = enabled'
        BY <1>1, <2>2, <3>3, <4>3, RowNames DEF Own, Snapshot, Writes
      <4>8. "stock" \notin tx'[u].missed /\ "product" \notin tx'[u].missed =>
              goods' = tx[u].seen.goods /\ owed' = tx[u].seen.owed
        BY <1>1, <2>2, <3>3, <4>3, RowNames DEF Own, Snapshot, Writes
      <4>9. strays' = {} /\ tx[u].seen.enabled =>
              tx[u].seen.stock = tx[u].seen.goods - tx[u].seen.owed
        BY <2>2, <3>3 DEF Own, Snapshot, Agrees
      <4> QED BY <1>5, <2>3, <3>1, <4>4, <4>5, <4>6, <4>7, <4>8, <4>9 DEF Snapshot
    <3> QED BY <3>2, <3>3
  <2>9. StillAsserted(u)'
    <3>1. ~(u \in Counters /\ tx[u].at = "commit" /\ tx[u].seen.enabled)
      <4> SUFFICES ASSUME u \in Counters, tx[u].at = "commit", tx[u].seen.enabled
                   PROVE  FALSE
        OBVIOUS
      <4>1. lock["stock"] = u /\ enabled
        BY <2>2 DEF Own, Locked, Snapshot
      <4>2. draft = 0
        BY <4>1 DEF IInv
      <4> QED BY <4>1, <4>2, <2>2 DEF Own, Locked, Tx
    <3>2. u \in Reviewers /\ tx[u].at \in {"sum", "commit"} => strays' # {}
      BY DEF Agrees
    <3> QED BY <1>5, <3>1, <3>2 DEF StillAsserted
  <2> QED BY <2>5, <2>6, <2>7, <2>8, <2>9 DEF Own
<1> QED BY <1>1, <1>6, <1>7, <1>8
        DEF IInv, Writes, Agrees, DriftNeedsStray, FifoStockInvariant

\* An approval in its assertion or past it keeps every transaction out that knows the
\* product to be under FIFO, and every receipt.
LEMMA ReviewersExclude ==
  ASSUME IInv, NEW t \in Tx, tx[t].at = "commit", NEW u \in Reviewers \ {t},
         tx[u].at \in {"sum", "commit"}
  PROVE  /\ t \in Sellers \cup Counters
         /\ ~tx[t].seen.enabled
<1>1. u \in Tx /\ Own(u) /\ Own(t)
  BY DEF IInv, Tx
<1>2. lock["draft"] = u /\ lock["product"] = u /\ draft # 0
  BY <1>1 DEF Own, Locked
<1>3. ~enabled
  BY <1>2 DEF IInv
<1> QED BY <1>1, <1>2, <1>3 DEF Own, Locked, Snapshot, Tx

\* A serializable transaction that commits has the stock it has seen, and by
\* its assertion leaves the tables in agreement.
LEMMA AssertedAgrees ==
  ASSUME IInv, NEW t \in Serializable, tx[t].at = "commit", Commit(t), strays = {},
         tx[t].seen.enabled, Asserted(t, TRUE)
  PROVE  stock' = goods' - owed'
<1>1. t \in Tx /\ tx[t] \in Row /\ Own(t)
  BY DEF IInv, Typed, Tx, Serializable
<1>2. /\ stock \in Int /\ goods \in Int /\ owed \in Int /\ tx[t].stock \in Int
      /\ tx[t].goods \in Int /\ tx[t].owed \in Int
      /\ tx[t].seen.stock \in Int /\ tx[t].seen.goods \in Int /\ tx[t].seen.owed \in Int
  BY <1>1 DEF IInv, Typed, Row, Seen
<1>3. lock["stock"] = t /\ "stock" \notin tx[t].missed /\ Running(t)
  BY <1>1, RowNames DEF Own, Locked, Serializable, Running
<1>4. tx[t].seen.stock = stock /\ tx[t].seen.stock = tx[t].seen.goods - tx[t].seen.owed
  BY <1>1, <1>3 DEF Own, Snapshot
<1>5. stock = goods - owed
  BY <1>1 DEF IInv, Own, Snapshot, DriftNeedsStray, FifoStockInvariant
<1>6. tx[t].stock = tx[t].seen.goods + tx[t].goods - (tx[t].seen.owed + tx[t].owed)
  BY DEF Asserted
<1>7. stock' = tx[t].stock /\ goods' = goods + tx[t].goods /\ owed' = owed + tx[t].owed
  BY <1>3 DEF Commit
<1>9. tx[t].seen.goods - tx[t].seen.owed = goods - owed
  BY <1>4, <1>5
<1>10. tx[t].stock = goods + tx[t].goods - (owed + tx[t].owed)
  <2> DEFINE a == tx[t].seen.goods
             b == tx[t].seen.owed
             g == tx[t].goods
             o == tx[t].owed
             n == tx[t].stock
  <2>1. a \in Int /\ b \in Int /\ g \in Int /\ o \in Int /\ n \in Int
    BY <1>2
  <2>2. a - b = goods - owed /\ n = a + g - (b + o)
    BY <1>6, <1>9
  <2>3. goods \in Int /\ owed \in Int
    BY <1>2
  <2> HIDE DEF a, b, g, o, n
  <2>4. n = goods + g - (owed + o)
    BY <2>1, <2>2, <2>3
  <2> QED BY <2>4 DEF g, o, n
<1> QED BY <1>2, <1>7, <1>10

LEMMA SellCommitKeeps ==
  ASSUME IInv, NEW t \in Sellers, SellCommit(t)
  PROVE  IInv'
<1>1. t \in Tx /\ t \in Serializable /\ tx[t].at = "commit" /\ Commit(t) /\ Own(t)
  BY DEF IInv, Tx, Serializable, SellCommit
<1>2. strays' = IF Strays(t) THEN strays \cup {t} ELSE strays
  BY DEF SellCommit, Note
<1>3. strays \subseteq strays' /\ strays' \subseteq Sellers \cup Counters
  BY <1>2 DEF IInv, Typed
<1>4. ASSUME strays' = {}
      PROVE  /\ \A u \in Reviewers \ {t} : tx[u].at \notin {"sum", "commit"}
             /\ enabled' => stock' = goods' - owed'
  <2>1. ~Strays(t) /\ strays = {}
    BY <1>2, <1>4
  <2>2. \A u \in Reviewers \ {t} : tx[u].at \notin {"sum", "commit"}
    BY <1>1, <2>1, ReviewersExclude DEF Strays
  <2>3. CASE tx[t].seen.enabled
    <3>1. Asserted(t, TRUE)
      BY <2>3 DEF SellCommit, Asserted
    <3> QED BY <1>1, <2>1, <2>2, <2>3, <3>1, AssertedAgrees
  <2>4. CASE ~tx[t].seen.enabled
    <3>1. ~enabled
      BY <2>1, <2>4 DEF Strays
    <3>2. ~tx[t].enables
      BY <1>1, OneKind DEF Own, Changes
    <3> QED BY <1>1, <2>2, <3>1, <3>2 DEF Commit
  <2> QED BY <2>3, <2>4
<1> QED BY <1>1, <1>3, <1>4, CommitKeeps DEF Agrees

\* A receipt that puts the product under FIFO has seen all of its rows as they
\* are; one that finds it there is asserted like a checkout.
LEMMA PostCommitKeeps ==
  ASSUME IInv, NEW t \in Receivers, PostCommit(t)
  PROVE  IInv'
<1>1. t \in Tx /\ t \in Serializable /\ tx[t].at = "commit" /\ Commit(t) /\ Own(t)
      /\ tx[t] \in Row
  BY DEF IInv, Typed, Tx, Serializable, PostCommit
<1>2. strays' = strays /\ strays \subseteq Sellers \cup Counters
  BY DEF PostCommit, IInv, Typed
<1>3. \A u \in Reviewers \ {t} : tx[u].at \notin {"sum", "commit"}
  BY <1>1, OneKind, ReviewersExclude
<1>4. /\ lock["stock"] = t /\ lock["product"] = t /\ Running(t)
      /\ "stock" \notin tx[t].missed /\ "product" \notin tx[t].missed
  BY <1>1, RowNames DEF Own, Locked, Running
<1>5. ASSUME strays = {}, enabled' PROVE stock' = goods' - owed'
  <2>1. CASE tx[t].seen.enabled
    <3>1. Asserted(t, TRUE)
      BY <2>1 DEF PostCommit, Asserted
    <3> QED BY <1>1, <1>5, <2>1, <3>1, AssertedAgrees
  <2>2. CASE ~tx[t].seen.enabled
    <3>1. /\ tx[t].seen.enabled = enabled
          /\ goods = tx[t].seen.goods /\ owed = tx[t].seen.owed
      BY <1>1, <1>4 DEF Own, Snapshot
    <3>2. tx[t].enables
      BY <1>1, <1>5, <2>2, <3>1 DEF Commit
    <3>3. tx[t].stock = goods + tx[t].goods - (owed + tx[t].owed)
      BY <3>1, <3>2 DEF PostCommit, Asserted
    <3>4. stock' = tx[t].stock /\ goods' = goods + tx[t].goods /\ owed' = owed + tx[t].owed
      BY <1>1, <1>4 DEF Commit
    <3>5. goods \in Int /\ owed \in Int /\ tx[t].goods \in Int /\ tx[t].owed \in Int
      BY <1>1 DEF IInv, Typed, Row
    <3> QED BY <3>3, <3>4, <3>5
  <2> QED BY <2>1, <2>2
<1> QED BY <1>1, <1>2, <1>3, <1>5, CommitKeeps DEF Agrees

LEMMA CountCommitKeeps ==
  ASSUME IInv, NEW t \in Counters, CountCommit(t)
  PROVE  IInv'
<1>1. t \in Tx /\ tx[t].at = "commit" /\ Commit(t) /\ Own(t)
  BY DEF IInv, Tx, CountCommit
<1>2. strays' = IF Strays(t) THEN strays \cup {t} ELSE strays
  BY DEF CountCommit, Note
<1>3. strays \subseteq strays' /\ strays' \subseteq Sellers \cup Counters
  BY <1>2 DEF IInv, Typed
<1>4. ASSUME strays' = {}
      PROVE  /\ \A u \in Reviewers \ {t} : tx[u].at \notin {"sum", "commit"}
             /\ enabled' => stock' = goods' - owed'
  <2>1. ~Strays(t) /\ strays = {}
    BY <1>2, <1>4
  <2>2. \A u \in Reviewers \ {t} : tx[u].at \notin {"sum", "commit"}
    BY <1>1, <2>1, ReviewersExclude DEF Strays
  <2>3. CASE tx[t].seen.enabled
    <3>1. lock["stock"] = t /\ tx[t].stock = goods + tx[t].goods - (owed + tx[t].owed)
      BY <1>1, <2>3 DEF Own, Locked, StillAsserted
    <3>2. stock' = tx[t].stock /\ goods' = goods + tx[t].goods /\ owed' = owed + tx[t].owed
      BY <1>1, <3>1 DEF Commit
    <3>3. goods \in Int /\ owed \in Int /\ tx[t].goods \in Int /\ tx[t].owed \in Int
      BY <1>1 DEF IInv, Typed, Row
    <3> QED BY <2>2, <3>1, <3>2, <3>3
  <2>4. CASE ~tx[t].seen.enabled
    <3>1. ~enabled
      BY <2>1, <2>4 DEF Strays
    <3>2. ~tx[t].enables
      BY <1>1, OneKind DEF Own, Changes
    <3> QED BY <1>1, <2>2, <3>1, <3>2 DEF Commit
  <2> QED BY <2>3, <2>4
<1> QED BY <1>1, <1>3, <1>4, CommitKeeps DEF Agrees

LEMMA ReviewCommitKeeps ==
  ASSUME IInv, NEW t \in Reviewers, ReviewCommit(t)
  PROVE  IInv'
<1>1. t \in Tx /\ tx[t].at = "commit" /\ Commit(t) /\ Own(t) /\ tx[t] \in Row
  BY DEF IInv, Typed, Tx, ReviewCommit
<1>2. strays' = strays /\ strays \subseteq Sellers \cup Counters
  BY DEF ReviewCommit, IInv, Typed
<1>3. \A u \in Reviewers \ {t} : tx[u].at \notin {"sum", "commit"}
  BY <1>1, OneKind, ReviewersExclude
<1>4. ASSUME strays = {} PROVE stock' = goods' - owed'
  <2>1. lock["stock"] # t /\ tx[t].owed = 0 /\ stock = goods + tx[t].goods - owed
    BY <1>1, <1>4, OneKind DEF Own, Locked, Changes, StillAsserted
  <2>2. stock' = stock /\ goods' = goods + tx[t].goods /\ owed' = owed + tx[t].owed
    BY <1>1, <2>1 DEF Commit
  <2>3. goods \in Int /\ owed \in Int /\ tx[t].goods \in Int
    BY <1>1 DEF IInv, Typed, Row
  <2> QED BY <2>1, <2>2, <2>3
<1> QED BY <1>1, <1>2, <1>3, <1>4, CommitKeeps DEF Agrees

-----------------------------------------------------------------------------
LEMMA StepKeeps == IInv /\ [Next]_vars => IInv'
<1> SUFFICES ASSUME IInv, [Next]_vars PROVE IInv'
  OBVIOUS
<1>1. CASE Sell
  BY <1>1, BeginKeeps, SellStockKeeps, SellRowsKeeps, SellCommitKeeps DEF Sell, Serializable
<1>2. CASE Receive
  BY <1>2, BeginKeeps, PostStockKeeps, PostProductKeeps, PostCommitKeeps DEF Receive, Serializable
<1>3. CASE Count
  BY <1>3, CountProductKeeps, CountReadKeeps, CountRowsKeeps, CountUpsertKeeps,
     CountAssertKeeps, CountCommitKeeps DEF Count
<1>4. CASE Review
  BY <1>4, ReviewReadKeeps, ReviewRowsKeeps, ReviewProductKeeps, ReviewReadStockKeeps,
     ReviewAssertKeeps,
     ReviewCommitKeeps DEF Review
<1>5. CASE \E t \in Tx : Abort(t)
  BY <1>5, AbortKeeps
<1>6. CASE UNCHANGED vars
  BY <1>6 DEF vars, db, IInv, Typed, Own, Stages, Locked, Changes, Snapshot, StillAsserted,
              Running, DriftNeedsStray, FifoStockInvariant
<1> QED BY <1>1, <1>2, <1>3, <1>4, <1>5, <1>6 DEF Next

LEMMA Inductive == Spec => []IInv
BY Start, StepKeeps, PTL DEF Spec

\* Rows hold values of their types, locks belong to transactions that run, and
\* goods and debts are never negative.
THEOREM TypesHold == Spec => []TypeOK
BY Inductive, Consequences, PTL

\* The tables of a FIFO product disagree only after a checkout or a count has
\* committed that had read the product before it was put under FIFO.
THEOREM TablesAgree == Spec => []DriftNeedsStray
BY Inductive, Consequences, PTL

\* A count made under FIFO never overwrites a sale or a receipt it has not seen.
THEOREM CountsSeeWhatTheyReplace == Spec => []CountsOverwriteNothing
BY Inductive, Consequences, PTL

-----------------------------------------------------------------------------
(* Row by row.                                                             *)

WalkRow == [status : {"NONE", "POSTED", "SHORTAGE", "FULLY_CONSUMED"},
            source : {"NONE", "BUKKU_PURCHASE", "SALE_SHORTAGE"},
            received : Int, remaining : Int, receivedAt : Nat]

WalkTypes ==
  /\ batch \in [Batches -> WalkRow] /\ start \in [Batches -> WalkRow]
  /\ phase \in {"begin", "taking", "taken", "giving", "given", "refused"}
  /\ request \in Nat /\ needed \in Nat /\ returned \in Nat
  /\ todo \in SUBSET Batches
  /\ take \in [Batches -> Nat] /\ back \in [Batches -> Nat] /\ restored \in [Batches -> Nat]

Avail(b)     == Table!Available(start[b])
Before(a, b) == Table!TakenBefore(start, override, a, b)
Older(a, b)  == Table!OlderThan(start, a, b)

\* Before the line has its goods no row is a shortage's and nothing is returned.
Untaken ==
  /\ phase = "begin" => batch[MaxBatches] = NoRow /\ take = Nothing
  /\ phase \in {"begin", "taking", "taken"} =>
       back = Nothing /\ restored = Nothing /\ returned = 0

\* The rows the loop has passed come before those it has still to reach, and are
\* empty while anything is needed.
Taking ==
  phase = "taking" =>
    /\ start[MaxBatches] = NoRow
    /\ batch = Table!AfterTaking(start, take)
    /\ request = SumOf(take, MaxBatches) + needed
    /\ \A b \in Batches : take[b] \in 0 .. Avail(b)
    /\ \A b \in todo : take[b] = 0 /\ Avail(b) > 0
    /\ \A a \in Batches \ todo : needed > 0 => take[a] = Avail(a)
    /\ \A a \in Batches \ todo, b \in todo : Avail(a) > 0 => Before(a, b)
    /\ \A a, b \in Batches : Before(a, b) /\ take[b] > 0 => take[a] = Avail(a)

\* The line has what it asked for, and of each row gives back no more than it took.
Taken ==
  phase \in {"taken", "giving", "given"} =>
    /\ SumOf(take, MaxBatches) = request
    /\ returned <= request
    /\ returned = SumOf(back, MaxBatches) + SumOf(restored, MaxBatches)
                    + (IF phase = "giving" THEN needed ELSE 0)
    /\ \A b \in Batches : restored[b] + back[b] <= take[b]

\* As Taking, from the newest row.
Giving ==
  phase = "giving" =>
    /\ batch = Table!AfterRestoring(start, back)
    /\ \A b \in todo : back[b] = 0
    /\ \A a \in Batches \ todo : needed > 0 => back[a] = Owed(a)
    /\ \A a \in Batches \ todo, b \in todo : take[a] > 0 => Older(b, a)
    /\ \A a, b \in Batches : Older(a, b) /\ back[a] > 0 => back[b] = Owed(b)

WalkInv ==
  WalkTypes /\ Untaken /\ Taking /\ Taken /\ Giving /\ TakesInOrder /\ RestoresInOrder
  /\ NeverRefused

-----------------------------------------------------------------------------
LEMMA LastRow == MaxBatches \in Batches /\ Batches = 1 .. MaxBatches /\ MaxBatches \in Nat
BY RowBound DEF Batches

LEMMA TableSum == \A f : Table!SumOf(f, MaxBatches) = SumOf(f, MaxBatches)
BY DEF Table!SumOf, Table!PartialSums, SumOf, PartialSums

LEMMA TableRows == Table!Batches = Batches
BY DEF Table!Batches, Batches

LEMMA Availability ==
  ASSUME NEW row \in WalkRow
  PROVE  /\ Table!Available(row) \in Nat
         /\ Table!Available(row) > 0 => Table!Available(row) = row.remaining
         /\ Table!Available(NoRow) = 0
BY DEF Table!Available, WalkRow, NoRow

LEMMA AvailIsNat == WalkTypes => \A b \in Batches : Avail(b) \in Nat
BY Availability DEF WalkTypes, Avail

\* No two rows come before each other.
LEMMA OlderOneWay ==
  ASSUME WalkTypes, NEW a \in Batches, NEW b \in Batches, Older(a, b)
  PROVE  ~Older(b, a)
<1>1. start[a].receivedAt \in Nat /\ start[b].receivedAt \in Nat
  BY DEF WalkTypes, WalkRow
<1>2. a \in Nat /\ b \in Nat
  BY LastRow
<1> QED BY <1>1, <1>2 DEF Older, Table!OlderThan

LEMMA BeforeOneWay ==
  ASSUME WalkTypes, NEW a \in Batches, NEW b \in Batches, Before(a, b)
  PROVE  ~Before(b, a)
BY OlderOneWay DEF Before, Older, Table!TakenBefore

\* What AfterTaking does to a row.
LEMMA RowTaken ==
  ASSUME NEW bs, NEW b \in Batches, NEW taken
  PROVE  Table!AfterTaking(bs, taken)[b] =
           IF taken[b] = 0 THEN bs[b]
           ELSE [bs[b] EXCEPT !.remaining = @ - taken[b],
                   !.status = IF bs[b].remaining = taken[b] THEN "FULLY_CONSUMED" ELSE "POSTED"]
BY TableRows DEF Table!AfterTaking

LEMMA SumNothing == SumOf(Nothing, MaxBatches) = 0 /\ Nothing \in [Batches -> Nat]
                    /\ \A b \in Batches : Nothing[b] = 0
<1>1. Nothing \in [Batches -> Nat] /\ \A b \in Batches : Nothing[b] = 0
  BY DEF Nothing
<1>2. Nothing \in [1 .. MaxBatches -> Int]
  BY <1>1, LastRow
<1> QED BY <1>1, <1>2, LastRow, SumZero

-----------------------------------------------------------------------------
LEMMA WalkStart == WalkInit => WalkInv
<1> SUFFICES ASSUME WalkInit PROVE WalkInv
  OBVIOUS
<1>1. NoRow \in WalkRow
  BY DEF NoRow, WalkRow
<1>2. ASSUME NEW remaining \in 0 .. MaxRemaining, NEW day \in 1 .. Today
      PROVE  Stocked(remaining, day) \in WalkRow
  BY HoldingBound, DateDomain DEF Stocked, WalkRow
<1>3. batch \in [Batches -> WalkRow] /\ batch[MaxBatches] = NoRow
  <2>1. PICK left \in [1 .. MaxBatches - 1 -> 0 .. MaxRemaining],
             day \in [1 .. MaxBatches - 1 -> 1 .. Today] :
          batch = [b \in Batches |-> IF b = MaxBatches THEN NoRow ELSE Stocked(left[b], day[b])]
    BY DEF WalkInit
  <2>2. ASSUME NEW b \in Batches, b # MaxBatches
        PROVE  left[b] \in 0 .. MaxRemaining /\ day[b] \in 1 .. Today
    <3>1. b \in 1 .. MaxBatches - 1
      BY <2>2, LastRow
    <3> QED BY <3>1
  <2> QED BY <1>1, <1>2, <2>1, <2>2, LastRow
<1>4. WalkTypes
  BY <1>3, SumNothing, RequestDomain DEF WalkInit, WalkTypes
<1> QED BY <1>3, <1>4 DEF WalkInit, WalkInv, Untaken, Taking, Taken, Giving, TakesInOrder,
        RestoresInOrder, NeverRefused

LEMMA LockStep ==
  ASSUME WalkInv, LockRows
  PROVE  WalkInv'
<1>1. /\ phase = "begin" /\ phase' = "taking" /\ needed' = request /\ start' = batch
      /\ todo' = {b \in Batches : Table!Available(batch[b]) > 0}
      /\ UNCHANGED <<batch, request, override, take, back, restored, returned>>
      /\ take = Nothing /\ batch[MaxBatches] = NoRow
  BY DEF LockRows, WalkInv, Untaken
<1>2. WalkTypes'
  BY <1>1 DEF WalkInv, WalkTypes
<1>3. Untaken'
  BY <1>1 DEF WalkInv, Untaken
<1>4. Taking'
  <2>1. batch = Table!AfterTaking(batch, Nothing)
    BY SumNothing, TableRows DEF Table!AfterTaking, WalkInv, WalkTypes
  <2>2. request = SumOf(take, MaxBatches) + request
    BY <1>1, SumNothing DEF WalkInv, WalkTypes
  <2>3. \A b \in Batches : /\ Table!Available(batch[b]) \in Nat
                           /\ take[b] = 0
    BY <1>1, SumNothing, Availability DEF WalkInv, WalkTypes
  <2>4. /\ \A b \in Batches : take'[b] \in 0 .. Avail(b)'
        /\ \A b \in todo' : take'[b] = 0 /\ Avail(b)' > 0
        /\ \A a \in Batches \ todo' : Avail(a)' = 0 /\ take'[a] = 0
    BY <1>1, <2>3 DEF Avail
  <2> QED BY <1>1, <2>1, <2>2, <2>3, <2>4 DEF Taking
<1>5. Taken' /\ Giving' /\ TakesInOrder' /\ RestoresInOrder' /\ NeverRefused'
  BY <1>1 DEF Taken, Giving, TakesInOrder, RestoresInOrder, NeverRefused
<1> QED BY <1>2, <1>3, <1>4, <1>5 DEF WalkInv

LEMMA TakeStep ==
  ASSUME WalkInv, NEW b \in Batches, TakeFrom(b)
  PROVE  WalkInv'
<1> DEFINE c == Consumed(b)
<1>1. /\ phase = "taking" /\ needed # 0 /\ b \in todo /\ Foremost(b)
      /\ batch' = [batch EXCEPT ![b].remaining = batch[b].remaining - c,
                     ![b].status = IF batch[b].remaining - c = 0 THEN "FULLY_CONSUMED" ELSE "POSTED"]
      /\ take' = [take EXCEPT ![b] = c] /\ needed' = needed - c /\ todo' = todo \ {b}
      /\ UNCHANGED <<phase, request, override, back, restored, returned, start>>
  BY DEF TakeFrom
<1>2. take[b] = 0 /\ Avail(b) > 0 /\ Avail(b) = start[b].remaining /\ batch[b] = start[b]
  <2>1. take[b] = 0 /\ Avail(b) > 0 /\ batch = Table!AfterTaking(start, take)
    BY <1>1 DEF WalkInv, Taking
  <2>2. batch[b] = start[b]
    BY <2>1, RowTaken
  <2> QED BY <2>1, <2>2, Availability DEF Avail, WalkInv, WalkTypes
<1>3. /\ c \in Nat /\ c > 0 /\ c <= needed /\ c <= Avail(b) /\ needed \in Nat /\ Avail(b) \in Nat
      /\ needed - c > 0 => c = Avail(b)
  <2>1. needed \in Nat /\ Avail(b) \in Nat /\ batch[b].remaining = Avail(b)
    BY <1>2, Availability DEF WalkInv, WalkTypes, Avail
  <2> QED BY <1>1, <1>2, <2>1 DEF Consumed
<1> HIDE DEF c
<1>4. take'[b] = c /\ (\A a \in Batches \ {b} : take'[a] = take[a]) /\ take' \in [Batches -> Nat]
  BY <1>1, <1>3 DEF WalkInv, WalkTypes
<1>5. WalkTypes'
  <2>1. batch' \in [Batches -> WalkRow]
    <3>1. batch[b] \in WalkRow /\ batch[b].remaining - c \in Int
      BY <1>3 DEF WalkInv, WalkTypes, WalkRow
    <3>2. ASSUME NEW remaining \in Int, NEW status \in {"POSTED", "FULLY_CONSUMED"}
          PROVE  [batch[b] EXCEPT !.remaining = remaining, !.status = status] \in WalkRow
      BY <3>1 DEF WalkRow
    <3> QED BY <1>1, <3>1, <3>2 DEF WalkInv, WalkTypes
  <2>2. needed' \in Nat
    BY <1>1, <1>3
  <2> QED BY <1>1, <1>4, <2>1, <2>2 DEF WalkInv, WalkTypes
<1>6. Untaken'
  BY <1>1 DEF WalkInv, Untaken
<1>7. Taking'
  <2>1. batch' = Table!AfterTaking(start, take')
    <3>1. ASSUME NEW a \in Batches PROVE batch'[a] = Table!AfterTaking(start, take')[a]
      <4>1. CASE a = b
        <5>1. start[b] \in WalkRow /\ batch \in [Batches -> WalkRow]
          BY DEF WalkInv, WalkTypes
        <5>2. start[b].remaining - c = 0 <=> start[b].remaining = c
          BY <1>2, <1>3
        <5>3. batch'[b] = [start[b] EXCEPT !.remaining = @ - c,
                 !.status = IF start[b].remaining = c THEN "FULLY_CONSUMED" ELSE "POSTED"]
          BY <1>1, <1>2, <5>1, <5>2 DEF WalkRow
        <5>4. Table!AfterTaking(start, take')[b] =
                IF take'[b] = 0 THEN start[b]
                ELSE [start[b] EXCEPT !.remaining = @ - take'[b],
                  !.status = IF start[b].remaining = take'[b] THEN "FULLY_CONSUMED" ELSE "POSTED"]
          BY TableRows DEF Table!AfterTaking
        <5>5. c # 0
          BY <1>3
        <5> QED BY <1>4, <4>1, <5>3, <5>4, <5>5
      <4>2. CASE a # b
        <5>1. batch'[a] = batch[a] /\ batch = Table!AfterTaking(start, take)
          BY <1>1, <4>2 DEF WalkInv, WalkTypes, Taking
        <5>2. take'[a] = take[a]
          BY <1>4, <4>2
        <5>4. /\ Table!AfterTaking(start, take)[a] =
                   IF take[a] = 0 THEN start[a]
                   ELSE [start[a] EXCEPT !.remaining = @ - take[a],
                           !.status = IF start[a].remaining = take[a] THEN "FULLY_CONSUMED" ELSE "POSTED"]
              /\ Table!AfterTaking(start, take')[a] =
                   IF take'[a] = 0 THEN start[a]
                   ELSE [start[a] EXCEPT !.remaining = @ - take'[a],
                           !.status = IF start[a].remaining = take'[a] THEN "FULLY_CONSUMED" ELSE "POSTED"]
          BY TableRows DEF Table!AfterTaking
        <5> QED BY <5>1, <5>2, <5>4
      <4> QED BY <4>1, <4>2
    <3>2. batch' \in [Batches -> WalkRow]
      BY <1>5 DEF WalkTypes
    <3> QED BY <3>1, <3>2, TableRows DEF Table!AfterTaking
  <2>2. request = SumOf(take', MaxBatches) + needed'
    <3>1. /\ take \in [1 .. MaxBatches -> Int] /\ take' \in [1 .. MaxBatches -> Int]
          /\ b \in 1 .. MaxBatches /\ \A k \in 1 .. MaxBatches : k # b => take'[k] = take[k]
      BY <1>4, LastRow DEF WalkInv, WalkTypes
    <3>2. SumOf(take', MaxBatches) = SumOf(take, MaxBatches) + (take'[b] - take[b])
      BY <3>1, LastRow, SumChange, ZenonT(30)
    <3>3. SumOf(take, MaxBatches) \in Int
      BY <3>1, LastRow, SumType
    <3> QED BY <1>1, <1>2, <1>3, <1>4, <3>2, <3>3 DEF WalkInv, Taking
  <2>3. /\ \A a \in Batches : take'[a] \in 0 .. Avail(a)
        /\ \A a \in todo' : take'[a] = 0 /\ Avail(a) > 0
    BY <1>1, <1>3, <1>4 DEF WalkInv, Taking, WalkTypes
  <2>4. \A a \in Batches \ todo' : needed' > 0 => take'[a] = Avail(a)
    BY <1>1, <1>3, <1>4 DEF WalkInv, Taking, WalkTypes
  <2>5. \A a \in Batches \ todo', d \in todo' : Avail(a) > 0 => Before(a, d)
    <3> SUFFICES ASSUME NEW a \in Batches \ todo', NEW d \in todo', Avail(a) > 0
                 PROVE  Before(a, d)
      OBVIOUS
    <3>1. CASE a = b
      BY <1>1, <3>1 DEF Foremost, Before
    <3>2. CASE a # b
      BY <1>1, <3>2 DEF WalkInv, Taking
    <3> QED BY <3>1, <3>2
  <2>6. \A a, d \in Batches : Before(a, d) /\ take'[d] > 0 => take'[a] = Avail(a)
    <3> SUFFICES ASSUME NEW a \in Batches, NEW d \in Batches, Before(a, d), take'[d] > 0
                 PROVE  take'[a] = Avail(a)
      OBVIOUS
    <3>1. ~Before(d, a)
      BY BeforeOneWay DEF WalkInv
    <3>2. d \notin todo' /\ Avail(d) > 0
      <4>1. take'[d] \in 0 .. Avail(d) /\ Avail(d) \in Nat
        BY <2>3, AvailIsNat DEF WalkInv
      <4> QED BY <2>3, <4>1
    <3>3. a # d
      BY <3>1
    <3>4. a \notin todo'
      BY <2>5, <3>1, <3>2
    <3>5. CASE a = b
      <4>1. d \notin todo
        BY <1>1, <3>2, <3>3, <3>5
      <4>2. Before(d, b)
        BY <1>1, <3>2, <4>1 DEF WalkInv, Taking
      <4> QED BY <3>1, <3>5, <4>2
    <3>6. CASE a # b
      <4>1. a \notin todo /\ needed > 0
        BY <1>1, <1>3, <3>4, <3>6
      <4> QED BY <1>1, <1>4, <3>6, <4>1 DEF WalkInv, Taking
    <3> QED BY <3>5, <3>6
  <2> QED BY <1>1, <2>1, <2>2, <2>3, <2>4, <2>5, <2>6 DEF WalkInv, Taking, Avail, Before
<1>8. Taken' /\ Giving' /\ TakesInOrder' /\ RestoresInOrder' /\ NeverRefused'
  BY <1>1 DEF Taken, Giving, TakesInOrder, RestoresInOrder, NeverRefused
<1> QED BY <1>5, <1>6, <1>7, <1>8 DEF WalkInv

LEMMA EndTakingStep ==
  ASSUME WalkInv, EndTaking
  PROVE  WalkInv'
<1>1. /\ phase = "taking" /\ (needed = 0 \/ todo = {}) /\ phase' = "taken" /\ todo' = {}
      /\ batch' = Shorted
      /\ take' = IF needed = 0 THEN take ELSE [take EXCEPT ![MaxBatches] = needed]
      /\ UNCHANGED <<request, override, needed, back, restored, returned, start>>
  BY DEF EndTaking
<1>2. /\ start[MaxBatches] = NoRow /\ batch = Table!AfterTaking(start, take)
      /\ request = SumOf(take, MaxBatches) + needed
      /\ take[MaxBatches] = 0 /\ take \in [Batches -> Nat] /\ needed \in Nat
      /\ take \in [1 .. MaxBatches -> Int]
  <2>1. take[MaxBatches] \in 0 .. Avail(MaxBatches) /\ start[MaxBatches] = NoRow
    BY <1>1, LastRow DEF WalkInv, Taking
  <2>2. Avail(MaxBatches) = 0
    BY <2>1 DEF Avail, Table!Available, NoRow
  <2> QED BY <1>1, <2>1, <2>2, LastRow DEF WalkInv, Taking, WalkTypes
<1>3. take' = [take EXCEPT ![MaxBatches] = needed]
  BY <1>1, <1>2, LastRow
<1>4. take' \in [Batches -> Nat] /\ take'[MaxBatches] = needed
      /\ \A b \in Batches \ {MaxBatches} : take'[b] = take[b]
  BY <1>2, <1>3, LastRow
<1>5. WalkTypes'
  <2>1. ASSUME needed # 0
        PROVE  [status |-> "SHORTAGE", source |-> "SALE_SHORTAGE", received |-> -needed,
                remaining |-> -needed, receivedAt |-> Today] \in WalkRow
    BY <1>2, DateDomain DEF WalkRow
  <2>2. batch' \in [Batches -> WalkRow]
    BY <1>1, <2>1, LastRow DEF WalkInv, WalkTypes, Shorted
  <2> QED BY <1>1, <1>4, <2>2 DEF WalkInv, WalkTypes
<1>6. SumOf(take', MaxBatches) = request
  <2>1. take' \in [1 .. MaxBatches -> Int] /\ SumOf(take, MaxBatches) \in Int
    BY <1>2, <1>4, LastRow, SumType
  <2>2. \A k \in 1 .. MaxBatches : k # MaxBatches => take'[k] = take[k]
    BY <1>4, LastRow
  <2>3. SumOf(take', MaxBatches) = SumOf(take, MaxBatches) + (take'[MaxBatches] - take[MaxBatches])
    BY <1>2, <2>1, <2>2, LastRow, SumChange, ZenonT(30)
  <2> QED BY <1>2, <1>4, <2>1, <2>3
<1>7. Untaken'
  BY <1>1 DEF WalkInv, Untaken
<1>8. Taken'
  <2>1. back = Nothing /\ restored = Nothing /\ returned = 0
    BY <1>1 DEF WalkInv, Untaken
  <2>2. request \in Nat /\ \A b \in Batches : take'[b] \in Nat
    BY <1>4 DEF WalkInv, WalkTypes
  <2> QED BY <1>1, <1>6, <2>1, <2>2, SumNothing DEF Taken
<1>9. TakesInOrder'
  <2> DEFINE taken == [b \in Batches |-> IF b = MaxBatches THEN 0 ELSE take'[b]]
  <2>1. taken = take
    BY <1>2, <1>4
  <2>2. request - SumOf(take, MaxBatches) = needed
    <3>1. SumOf(take, MaxBatches) \in Int
      BY <1>2, LastRow, SumType
    <3> QED BY <1>2, <3>1
  <2>3. Table!TakenInOrder(start, request, override, take)
    <3>1. \A b \in Batches : take[b] \in 0 .. Table!Available(start[b])
      BY <1>1 DEF WalkInv, Taking, Avail
    <3>2. \A a, b \in Batches : Table!TakenBefore(start, override, a, b) /\ take[b] > 0
            => take[a] = Table!Available(start[a])
      BY <1>1 DEF WalkInv, Taking, Avail, Before
    <3>3. CASE needed = 0
      <4>1. Table!SumOf(take, MaxBatches) = request
        BY <1>2, <1>6, <3>3, <2>2, TableSum, LastRow, SumType
      <4> QED BY <3>1, <3>2, <4>1, TableRows DEF Table!TakenInOrder
    <3>4. CASE needed # 0 /\ todo = {}
      <4>1. \A b \in Batches : take[b] = Table!Available(start[b])
        BY <1>1, <1>2, <3>4 DEF WalkInv, Taking, Avail
      <4>2. SumOf(take, MaxBatches) \in Int
        BY <1>2, LastRow, SumType
      <4>3. Table!SumOf(take, MaxBatches) < request
        BY <1>2, <3>4, <4>2, TableSum
      <4> QED BY <3>1, <3>2, <4>1, <4>3, TableRows DEF Table!TakenInOrder
    <3> QED BY <1>1, <3>3, <3>4
  <2>4. batch' = Table!WithShortage(Table!AfterTaking(start, take), "SALE_SHORTAGE", needed)
    <3>1. MaxBatches - 1 + 1 = MaxBatches
      BY LastRow
    <3>2. Table!NewRow("SHORTAGE", "SALE_SHORTAGE", -needed) =
            [status |-> "SHORTAGE", source |-> "SALE_SHORTAGE", received |-> -needed,
             remaining |-> -needed, receivedAt |-> Today]
      BY DEF Table!NewRow
    <3> QED BY <1>1, <1>2, <3>1, <3>2 DEF Shorted, Table!WithShortage
  <2>5. take' = [taken EXCEPT ![MaxBatches] = needed]
    BY <1>3, <2>1
  <2> HIDE DEF taken
  <2>6. /\ taken = [b \in Batches |-> IF b = MaxBatches THEN 0 ELSE take'[b]]
    BY DEF taken
  <2>7. /\ Table!TakenInOrder(start, request, override, taken)
        /\ batch' = Table!WithShortage(Table!AfterTaking(start, taken), "SALE_SHORTAGE", needed)
        /\ request - SumOf(taken, MaxBatches) = needed
    BY <2>1, <2>2, <2>3, <2>4
  <2>8. /\ start' = start /\ request' = request /\ override' = override
    BY <1>1
  <2> QED BY <2>5, <2>6, <2>7, <2>8 DEF TakesInOrder
<1>10. Taking' /\ Giving' /\ RestoresInOrder' /\ NeverRefused'
  BY <1>1 DEF Taking, Giving, RestoresInOrder, NeverRefused
<1> QED BY <1>5, <1>7, <1>8, <1>9, <1>10 DEF WalkInv

LEMMA BeginReturnStep ==
  ASSUME WalkInv, NEW q \in Requests, BeginReturn(q)
  PROVE  WalkInv'
<1>1. /\ phase \in {"taken", "given"} /\ returned + q <= request /\ phase' = "giving"
      /\ returned' = returned + q /\ needed' = q /\ todo' = {b \in Batches : take[b] > 0}
      /\ restored' = [b \in Batches |-> restored[b] + back[b]] /\ back' = Nothing
      /\ start' = batch /\ UNCHANGED <<batch, request, override, take>>
      /\ q \in Nat /\ q > 0
  BY RequestDomain DEF BeginReturn
<1>2. /\ restored' \in [Batches -> Nat]
      /\ \A b \in Batches : restored'[b] = restored[b] + back[b] /\ restored'[b] <= take[b]
  BY <1>1 DEF WalkInv, WalkTypes, Taken
<1>3. WalkTypes'
  BY <1>1, <1>2, SumNothing DEF WalkInv, WalkTypes
<1>4. Taken'
  <2>1. /\ restored \in [1 .. MaxBatches -> Int] /\ back \in [1 .. MaxBatches -> Int]
        /\ restored' \in [1 .. MaxBatches -> Int] /\ returned \in Nat
        /\ \A b \in 1 .. MaxBatches : restored'[b] = back[b] + restored[b]
    BY <1>2, LastRow DEF WalkInv, WalkTypes
  <2>2. SumOf(restored', MaxBatches) = SumOf(back, MaxBatches) + SumOf(restored, MaxBatches)
    BY <2>1, LastRow, SumAdd, ZenonT(30)
  <2>3. SumOf(back, MaxBatches) \in Int /\ SumOf(restored, MaxBatches) \in Int
    BY <2>1, LastRow, SumType
  <2>4. returned = SumOf(back, MaxBatches) + SumOf(restored, MaxBatches)
        /\ SumOf(take, MaxBatches) = request
    BY <1>1, <2>3 DEF WalkInv, Taken
  <2>5. \A b \in Batches : restored'[b] + back'[b] <= take'[b]
    BY <1>1, <1>2, SumNothing
  <2>6. returned' = SumOf(back', MaxBatches) + SumOf(restored', MaxBatches) + needed'
    BY <1>1, <2>1, <2>2, <2>3, <2>4, SumNothing
  <2>7. SumOf(take', MaxBatches) = request' /\ returned' <= request'
    BY <1>1, <2>4
  <2> QED BY <1>1, <2>5, <2>6, <2>7 DEF Taken
<1>5. Giving'
  <2>1. batch = Table!AfterRestoring(batch, Nothing)
    BY SumNothing, TableRows DEF Table!AfterRestoring, WalkInv, WalkTypes
  <2>2. \A b \in Batches : Nothing[b] = 0
    BY SumNothing
  <2>3. \A a \in Batches \ todo' : take[a] = 0 /\ restored'[a] = 0
    BY <1>1, <1>2 DEF WalkInv, WalkTypes
  <2> QED BY <1>1, <2>1, <2>2, <2>3 DEF Giving, Owed
<1>6. Untaken' /\ Taking' /\ TakesInOrder' /\ RestoresInOrder' /\ NeverRefused'
  BY <1>1 DEF Untaken, Taking, TakesInOrder, RestoresInOrder, NeverRefused
<1> QED BY <1>3, <1>4, <1>5, <1>6 DEF WalkInv

LEMMA EndReturnStep ==
  ASSUME WalkInv, EndReturn
  PROVE  WalkInv'
<1>1. /\ phase = "giving" /\ (needed = 0 \/ todo = {})
      /\ phase' = IF needed = 0 THEN "given" ELSE "refused"
      /\ todo' = {}
      /\ UNCHANGED <<batch, request, override, needed, take, back, restored, returned, start>>
  BY DEF EndReturn
<1>2. /\ back \in [1 .. MaxBatches -> Int] /\ restored \in [1 .. MaxBatches -> Int]
      /\ take \in [1 .. MaxBatches -> Int]
      /\ needed \in Nat /\ returned <= request /\ SumOf(take, MaxBatches) = request
      /\ returned = SumOf(back, MaxBatches) + SumOf(restored, MaxBatches) + needed
  BY <1>1, LastRow DEF WalkInv, WalkTypes, Taken
<1>3. SumOf(back, MaxBatches) \in Int /\ SumOf(restored, MaxBatches) \in Int
  BY <1>2, LastRow, SumType
<1>4. needed = 0
  <2> SUFFICES ASSUME needed # 0 PROVE FALSE
    OBVIOUS
  <2>1. \A b \in 1 .. MaxBatches : take[b] = back[b] + restored[b]
    <3>1. \A b \in Batches : back[b] = take[b] - restored[b]
      BY <1>1, <1>2 DEF WalkInv, Giving, Owed
    <3> QED BY <3>1, <1>2, LastRow
  <2>2. SumOf(take, MaxBatches) = SumOf(back, MaxBatches) + SumOf(restored, MaxBatches)
    BY <1>2, <2>1, LastRow, SumAdd, ZenonT(30)
  <2> QED BY <1>2, <1>3, <2>2
<1>5. phase' = "given"
  BY <1>1, <1>4
<1>6. WalkTypes' /\ Untaken' /\ Taking' /\ Giving' /\ TakesInOrder' /\ NeverRefused'
  BY <1>1, <1>5
     DEF WalkInv, WalkTypes, Untaken, Taking, Giving, TakesInOrder, NeverRefused
<1>7. Taken'
  BY <1>1, <1>3, <1>4, <1>5 DEF WalkInv, Taken
<1>8. RestoresInOrder'
  <2>1. batch = Table!AfterRestoring(start, back)
    BY <1>1 DEF WalkInv, Giving
  <2>2. \A b \in Batches : back[b] \in 0 .. take[b] - restored[b]
    BY <1>1 DEF WalkInv, WalkTypes, Taken
  <2>3. \A a, b \in Batches : Table!OlderThan(start, a, b) /\ back[a] > 0
          => back[b] = take[b] - restored[b]
    BY <1>1 DEF WalkInv, Giving, Older, Owed
  <2>4. Table!RestoredInOrder(start, "line", SumOf(back, MaxBatches), back)
    BY <2>2, <2>3, TableRows, TableSum DEF Table!RestoredInOrder
  <2>5. (Table!RestoredInOrder(start, "line", SumOf(back, MaxBatches), back))'
    BY <1>1, <2>4 DEF Table!RestoredInOrder
  <2> QED BY <1>1, <2>1, <2>5 DEF RestoresInOrder
<1> QED BY <1>6, <1>7, <1>8 DEF WalkInv

LEMMA GiveBackStep ==
  ASSUME WalkInv, NEW b \in Batches, GiveBack(b)
  PROVE  WalkInv'
<1> DEFINE c == IF Owed(b) > 0 THEN IF needed < Owed(b) THEN needed ELSE Owed(b) ELSE 0
<1>1. /\ phase = "giving" /\ needed # 0 /\ b \in todo /\ Newest(b) /\ todo' = todo \ {b}
      /\ UNCHANGED <<phase, request, override, take, restored, returned, start>>
      /\ needed \in Nat /\ back \in [Batches -> Nat] /\ batch \in [Batches -> WalkRow]
      /\ take \in [Batches -> Nat] /\ restored \in [Batches -> Nat]
      /\ todo \in SUBSET Batches
  BY DEF GiveBack, WalkInv, WalkTypes
<1>2. back[b] = 0 /\ Owed(b) \in Nat
  <2>1. back[b] = 0 /\ restored[b] + back[b] <= take[b]
    BY <1>1 DEF WalkInv, Giving, Taken
  <2> QED BY <1>1, <2>1 DEF Owed
<1>3. /\ c \in Nat /\ c <= needed /\ c <= Owed(b)
      /\ needed - c > 0 => c = Owed(b)
  BY <1>1, <1>2
<1>4. /\ back' = [back EXCEPT ![b] = c] /\ needed' = needed - c
      /\ c = 0 => batch' = batch
      /\ c # 0 => batch' = [batch EXCEPT ![b].remaining = batch[b].remaining + c,
                   ![b].status = IF @ # "SHORTAGE" THEN "POSTED"
                                 ELSE IF batch[b].remaining + c = 0 THEN "FULLY_CONSUMED"
                                 ELSE "SHORTAGE"]
  <2>1. CASE Owed(b) > 0
    BY <1>1, <1>2, <2>1 DEF GiveBack
  <2>2. CASE ~(Owed(b) > 0)
    <3>1. c = 0 /\ UNCHANGED <<batch, back, needed>>
      BY <2>2 DEF GiveBack
    <3>2. [back EXCEPT ![b] = 0] = back /\ needed - 0 = needed
      BY <1>1, <1>2
    <3> QED BY <3>1, <3>2
  <2> QED BY <2>1, <2>2
<1> HIDE DEF c
<1>5. back'[b] = c /\ (\A a \in Batches \ {b} : back'[a] = back[a]) /\ back' \in [Batches -> Nat]
  BY <1>1, <1>3, <1>4
<1>6. batch' \in [Batches -> WalkRow]
  <2>1. batch[b] \in WalkRow /\ batch[b].remaining + c \in Int
    BY <1>1, <1>3 DEF WalkRow
  <2>2. ASSUME NEW remaining \in Int, NEW status \in {"POSTED", "FULLY_CONSUMED", "SHORTAGE"}
        PROVE  [batch[b] EXCEPT !.remaining = remaining, !.status = status] \in WalkRow
    BY <2>1 DEF WalkRow
  <2> QED BY <1>1, <1>4, <2>1, <2>2
<1>7. WalkTypes'
  <2>1. needed' \in Nat
    BY <1>1, <1>3, <1>4
  <2> QED BY <1>1, <1>5, <1>6, <2>1 DEF WalkInv, WalkTypes
<1>8. Taken'
  <2>1. /\ back \in [1 .. MaxBatches -> Int] /\ back' \in [1 .. MaxBatches -> Int]
        /\ restored \in [1 .. MaxBatches -> Int] /\ b \in 1 .. MaxBatches
        /\ \A k \in 1 .. MaxBatches : k # b => back'[k] = back[k]
    BY <1>1, <1>5, LastRow
  <2>2. SumOf(back', MaxBatches) = SumOf(back, MaxBatches) + (back'[b] - back[b])
    BY <2>1, LastRow, SumChange, ZenonT(30)
  <2>3. SumOf(back, MaxBatches) \in Int /\ SumOf(restored, MaxBatches) \in Int
    BY <2>1, LastRow, SumType
  <2>4. returned = SumOf(back, MaxBatches) + SumOf(restored, MaxBatches) + needed
    BY <1>1 DEF WalkInv, Taken
  <2>5. returned \in Nat
    BY DEF WalkInv, WalkTypes
  <2>6. returned' = SumOf(back', MaxBatches) + SumOf(restored', MaxBatches) + needed'
    <3>1. restored' = restored /\ returned' = returned /\ needed' = needed - c
          /\ SumOf(back', MaxBatches) = SumOf(back, MaxBatches) + c
      BY <1>1, <1>2, <1>3, <1>4, <1>5, <2>2, <2>3
    <3> QED BY <1>1, <1>3, <2>3, <2>4, <3>1
  <2>7. \A a \in Batches : restored'[a] + back'[a] <= take'[a]
    <3>1. restored[b] + c <= take[b]
      BY <1>1, <1>3 DEF Owed
    <3>2. \A a \in Batches : restored[a] + back[a] <= take[a]
      BY <1>1 DEF WalkInv, Taken
    <3> QED BY <1>1, <1>5, <3>1, <3>2
  <2>8. SumOf(take', MaxBatches) = request' /\ returned' <= request'
    BY <1>1 DEF WalkInv, Taken
  <2> QED BY <1>1, <2>6, <2>7, <2>8 DEF Taken
<1>9. Giving'
  <2>1. batch' = Table!AfterRestoring(start, back')
    <3>1. batch = Table!AfterRestoring(start, back)
      BY <1>1 DEF WalkInv, Giving
    <3>2. ASSUME NEW a \in Batches PROVE batch'[a] = Table!AfterRestoring(start, back')[a]
      <4>1. /\ batch[a] =
                 IF back[a] = 0 THEN start[a]
                 ELSE [start[a] EXCEPT !.remaining = @ + back[a],
                         !.status = IF @ # "SHORTAGE" THEN "POSTED"
                                    ELSE IF start[a].remaining + back[a] = 0 THEN "FULLY_CONSUMED"
                                    ELSE "SHORTAGE"]
            /\ Table!AfterRestoring(start, back')[a] =
                 IF back'[a] = 0 THEN start[a]
                 ELSE [start[a] EXCEPT !.remaining = @ + back'[a],
                         !.status = IF @ # "SHORTAGE" THEN "POSTED"
                                    ELSE IF start[a].remaining + back'[a] = 0 THEN "FULLY_CONSUMED"
                                    ELSE "SHORTAGE"]
        BY <3>1, TableRows DEF Table!AfterRestoring
      <4>2. CASE a = b
        <5>1. batch[b] = start[b]
          BY <1>2, <4>1, <4>2
        <5>2. CASE c = 0
          BY <1>4, <1>5, <4>1, <4>2, <5>1, <5>2
        <5>3. CASE c # 0
          <6>1. batch'[b] = [batch[b] EXCEPT !.remaining = @ + c,
                   !.status = IF @ # "SHORTAGE" THEN "POSTED"
                              ELSE IF batch[b].remaining + c = 0 THEN "FULLY_CONSUMED"
                              ELSE "SHORTAGE"]
            BY <1>1, <1>4, <5>3 DEF WalkRow
          <6> QED BY <1>5, <4>1, <4>2, <5>1, <5>3, <6>1
        <5> QED BY <5>2, <5>3
      <4>3. CASE a # b
        <5>1. batch'[a] = batch[a] /\ back'[a] = back[a]
          BY <1>1, <1>4, <1>5, <4>3
        <5> QED BY <4>1, <5>1
      <4> QED BY <4>2, <4>3
    <3> QED BY <1>6, <3>2, TableRows DEF Table!AfterRestoring
  <2>2. \A a \in todo' : back'[a] = 0
    BY <1>1, <1>5 DEF WalkInv, Giving
  <2>3. \A a \in Batches \ todo' : needed' > 0 => back'[a] = Owed(a)
    BY <1>1, <1>3, <1>4, <1>5 DEF WalkInv, Giving
  <2>4. \A a \in Batches \ todo', d \in todo' : take[a] > 0 => Older(d, a)
    <3> SUFFICES ASSUME NEW a \in Batches \ todo', NEW d \in todo', take[a] > 0
                 PROVE  Older(d, a)
      OBVIOUS
    <3>1. CASE a = b
      BY <1>1, <3>1 DEF Newest, Older
    <3>2. CASE a # b
      BY <1>1, <3>2 DEF WalkInv, Giving
    <3> QED BY <3>1, <3>2
  <2>5. \A a, d \in Batches : Older(a, d) /\ back'[a] > 0 => back'[d] = Owed(d)
    <3> SUFFICES ASSUME NEW a \in Batches, NEW d \in Batches, Older(a, d), back'[a] > 0
                 PROVE  back'[d] = Owed(d)
      OBVIOUS
    <3>1. ~Older(d, a)
      BY OlderOneWay DEF WalkInv
    <3>2. a \notin todo' /\ take[a] > 0
      <4>1. restored[a] + back'[a] <= take[a]
        BY <1>1, <1>8 DEF Taken
      <4> QED BY <1>1, <1>5, <2>2, <4>1
    <3>3. d \notin todo'
      BY <2>4, <3>1, <3>2
    <3>4. d # b
      <4> SUFFICES ASSUME d = b PROVE FALSE
        OBVIOUS
      <4>1. a # b
        BY <3>1
      <4>2. a \notin todo
        BY <1>1, <3>2, <4>1
      <4>3. Older(b, a)
        BY <1>1, <3>2, <4>2 DEF WalkInv, Giving
      <4> QED BY <3>1, <4>3
    <3>5. d \notin todo /\ needed > 0
      BY <1>1, <3>3, <3>4
    <3> QED BY <1>1, <1>5, <3>4, <3>5 DEF WalkInv, Giving
  <2> QED BY <1>1, <2>1, <2>2, <2>3, <2>4, <2>5 DEF Giving, Owed, Older
<1>10. Untaken' /\ Taking' /\ TakesInOrder' /\ RestoresInOrder' /\ NeverRefused'
  BY <1>1 DEF Untaken, Taking, TakesInOrder, RestoresInOrder, NeverRefused
<1> QED BY <1>7, <1>8, <1>9, <1>10 DEF WalkInv

LEMMA WalkStep ==
  ASSUME WalkInv, [WalkNext]_walk
  PROVE  WalkInv'
<1>1. CASE LockRows
  BY <1>1, LockStep
<1>2. CASE EndTaking
  BY <1>2, EndTakingStep
<1>3. CASE EndReturn
  BY <1>3, EndReturnStep
<1>4. CASE \E b \in Batches : TakeFrom(b) \/ GiveBack(b)
  BY <1>4, TakeStep, GiveBackStep
<1>5. CASE \E q \in Requests : BeginReturn(q)
  BY <1>5, BeginReturnStep
<1>6. CASE UNCHANGED walk
  BY <1>6 DEF walk, WalkInv, WalkTypes, Untaken, Taking, Taken, Giving, TakesInOrder,
     RestoresInOrder, NeverRefused, Avail, Before, Older, Owed, Table!RestoredInOrder
<1> QED BY <1>1, <1>2, <1>3, <1>4, <1>5, <1>6 DEF WalkNext

LEMMA WalkHolds == WalkSpec => []WalkInv
BY WalkStart, WalkStep, PTL DEF WalkSpec

\* Between any two rows of allocateFifoSale's and restoreFifoReturn's loops, what
\* has been taken or put back and what is still needed is the request, for any
\* table of any size.
THEOREM NothingIsLostOnTheWay == WalkSpec => []NothingGoesAstray
<1>1. WalkInv => NothingGoesAstray
  BY DEF WalkInv, WalkTypes, Taking, Taken, NothingGoesAstray
<1> QED BY <1>1, WalkHolds, PTL

\* The loop that takes goods, row by row, does what FifoInventory says in one
\* step: the rows in order, the override first, and a shortage for the rest.
THEOREM TakingIsAsStated == WalkSpec => []TakesInOrder
<1>1. WalkInv => TakesInOrder
  BY DEF WalkInv
<1> QED BY <1>1, WalkHolds, PTL

\* The loop that restores a return does what FifoInventory says in one step:
\* newest first, to no row more than the line has not been given back.
THEOREM RestoringIsAsStated == WalkSpec => []RestoresInOrder
<1>1. WalkInv => RestoresInOrder
  BY DEF WalkInv
<1> QED BY <1>1, WalkHolds, PTL

\* However many returns a line is split into, none runs out of allocations.
THEOREM ReturnsAreCovered == WalkSpec => []NeverRefused
<1>1. WalkInv => NeverRefused
  BY DEF WalkInv
<1> QED BY <1>1, WalkHolds, PTL
=============================================================================

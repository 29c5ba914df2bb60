--------------------------- MODULE StockIsolation ---------------------------
(***************************************************************************)
(* The transactions of FifoInventory, statement by statement, on one       *)
(* product at one location, under the isolation each of them asks for.     *)
(*                                                                         *)
(* Checkouts and purchase receipts are serializable: they read the         *)
(* snapshot taken when they begin, and fail when a row they write or lock  *)
(* has been written by a commit since.  A stock count and the enablement   *)
(* of FIFO run at PostgreSQL's default, READ COMMITTED: each statement     *)
(* sees what is committed when it runs, and a write waits for the row and  *)
(* then goes ahead.  The count, besides, reads the product before its      *)
(* transaction begins.  Every serializable transaction of a product writes *)
(* its StockSnapshot row, so any two that overlap collide there and what   *)
(* SERIALIZABLE adds to snapshots never comes into play between them.      *)
(*                                                                         *)
(* Posted rows are one sum and open shortages another: goods - owed is the *)
(* aggregate that assertFifoStockInvariant reads.  Voids, which move the   *)
(* snapshot alone by design, are in FifoInventory only.                    *)
(***************************************************************************)
EXTENDS Integers, FiniteSets

CONSTANTS
  Sellers,    \* checkouts of one unit
  Receivers,  \* postings of a purchase receipt of one unit
  Counters,   \* stock counts
  Reviewers,  \* approvals of the legacy stock
  Counts,     \* quantities a count may find
  Opening     \* quantities the product may hold before FIFO

ASSUME CountDomain   == Counts \subseteq Int
ASSUME OpeningDomain == Opening \subseteq Nat

\* A transaction is of one kind.
ASSUME KindsDiffer ==
  /\ Sellers \cap Receivers = {} /\ Counters \cap Reviewers = {}
  /\ (Sellers \cup Receivers) \cap (Counters \cup Reviewers) = {}

VARIABLES
  enabled,  \* Product.fifoEnabledAt is set
  stock,    \* StockSnapshot.quantity
  goods,    \* remaining quantity of POSTED rows
  owed,     \* quantity of SHORTAGE rows
  draft,    \* quantity of the legacy draft row, 0 when none waits for review
  tx,       \* transactions in progress
  lock,     \* who holds the lock of each row
  strays    \* history: commits that passed FIFO by although it was on

db   == <<enabled, stock, goods, owed, draft>>
vars == <<db, tx, lock, strays>>

Tx   == Sellers \cup Receivers \cup Counters \cup Reviewers
Rows == {"stock", "goods", "product", "draft"}
Free == "free"

ASSUME FreeIsNobody == Free \notin Tx

\* at: the next statement; seen: what the transaction has read; stock, goods,
\* owed: what it will have changed; enables: whether it sets fifoEnabledAt;
\* missed: rows that others have committed since its snapshot.
Idle == [at |-> "begin", seen |-> [enabled |-> FALSE, stock |-> 0, goods |-> 0, owed |-> 0, draft |-> 0],
         stock |-> 0, goods |-> 0, owed |-> 0, enables |-> FALSE, missed |-> {}]
Done == [Idle EXCEPT !.at = "done"]

Current == [enabled |-> enabled, stock |-> stock, goods |-> goods, owed |-> owed, draft |-> draft]

Least(a, b) == IF a < b THEN a ELSE b

Init ==
  \* Stock from before FIFO waits for review in one draft row.
  /\ stock \in Opening
  /\ draft = stock
  /\ enabled \in BOOLEAN
  /\ enabled => stock = 0
  /\ goods = 0 /\ owed = 0
  /\ tx = [t \in Tx |-> Idle]
  /\ lock = [r \in Rows |-> Free]
  /\ strays = {}

-----------------------------------------------------------------------------
(* Transactions.                                                           *)

Running(t) == tx[t].at \notin {"begin", "done"}
Holds(t)   == {r \in Rows : lock[r] = t}
Unlock(t)  == lock' = [r \in Rows |-> IF lock[r] = t THEN Free ELSE lock[r]]

\* The lock of a row is free and, in a serializable transaction, no commit has
\* written the row since the snapshot.
MayLock(t, r) == lock[r] \in {Free, t} /\ r \notin tx[t].missed

\* A serializable transaction writes or locks a row that is not in its snapshot
\* any more, is a deadlock's victim, times out or is refused.
Abort(t) ==
  /\ Running(t)
  /\ tx' = [tx EXCEPT ![t] = Done]
  /\ Unlock(t)
  /\ UNCHANGED <<db, strays>>

\* What t has changed becomes visible, and to the snapshots of the others stale.
Commit(t) ==
  LET new == tx[t]
  IN  /\ stock' = IF lock["stock"] = t THEN new.stock ELSE stock
      /\ goods' = goods + new.goods
      /\ owed' = owed + new.owed
      /\ enabled' = (enabled \/ new.enables)
      /\ draft' = IF lock["draft"] = t THEN 0 ELSE draft
      /\ tx' = [u \in Tx |-> IF u = t THEN Done
                             ELSE IF Running(u) /\ u \in Sellers \cup Receivers
                             THEN [tx[u] EXCEPT !.missed = @ \cup Holds(t)]
                             ELSE tx[u]]
      /\ Unlock(t)

\* The commit of a transaction that has not seen the product under FIFO, after
\* it was put there or while a reviewer is in the middle of its assertion or
\* has asserted and not yet committed.
Strays(t) ==
  /\ ~tx[t].seen.enabled
  /\ t \in Sellers \cup Counters
  /\ enabled \/ \E r \in Reviewers : tx[r].at \in {"sum", "commit"}

Note(t) == strays' = IF Strays(t) THEN strays \cup {t} ELSE strays

Begin(t) ==
  /\ tx[t].at = "begin"
  /\ tx' = [tx EXCEPT ![t].at = "stock", ![t].seen = Current]
  /\ UNCHANGED <<db, lock, strays>>

-----------------------------------------------------------------------------
(* Checkout: complete.                                                     *)

\* Mutant: the snapshot row is written without regard to later commits.
SellStockOverwriting(t) ==
  /\ tx[t].at = "stock"
  /\ lock["stock"] = Free
  /\ lock' = [lock EXCEPT !["stock"] = t]
  /\ tx' = [tx EXCEPT ![t].stock = tx[t].seen.stock - 1, ![t].at = "rows"]
  /\ UNCHANGED <<db, strays>>

SellStock(t) ==
  /\ tx[t].at = "stock"
  /\ MayLock(t, "stock")
  /\ lock' = [lock EXCEPT !["stock"] = t]
  /\ tx' = [tx EXCEPT ![t].stock = tx[t].seen.stock - 1, ![t].at = "rows"]
  /\ UNCHANGED <<db, strays>>

\* allocateFifoSale locks the posted rows it sees and takes from them; what is
\* missing becomes a shortage.
SellRows(t) ==
  LET seen == tx[t].seen
  IN  /\ tx[t].at = "rows"
      /\ IF seen.enabled /\ seen.goods > 0
         THEN MayLock(t, "goods") /\ lock' = [lock EXCEPT !["goods"] = t]
         ELSE UNCHANGED lock
      /\ tx' = [tx EXCEPT ![t].at = "commit",
           ![t].goods = IF seen.enabled THEN -Least(seen.goods, 1) ELSE 0,
           ![t].owed = IF seen.enabled /\ seen.goods = 0 THEN 1 ELSE 0]
      /\ UNCHANGED <<db, strays>>

\* The assertion of a serializable transaction reads its snapshot and its own
\* writes.
Asserted(t, on) ==
  LET seen == tx[t].seen
  IN  on => tx[t].stock = seen.goods + tx[t].goods - (seen.owed + tx[t].owed)

SellCommit(t) ==
  /\ tx[t].at = "commit"
  /\ Asserted(t, tx[t].seen.enabled)
  /\ Commit(t)
  /\ Note(t)

-----------------------------------------------------------------------------
(* Posting a purchase receipt.                                             *)

\* SELECT ... FOR UPDATE on the snapshot row; the posted row is the receipt's.
PostStock(t) ==
  /\ tx[t].at = "stock"
  /\ MayLock(t, "stock")
  /\ lock' = [lock EXCEPT !["stock"] = t]
  /\ tx' = [tx EXCEPT ![t].stock = tx[t].seen.stock + 1, ![t].goods = 1, ![t].at = "product"]
  /\ UNCHANGED <<db, strays>>

\* The product row is written in any case.
PostProduct(t) ==
  /\ tx[t].at = "product"
  /\ MayLock(t, "product")
  /\ lock' = [lock EXCEPT !["product"] = t]
  /\ tx' = [tx EXCEPT ![t].enables = tx[t].seen.draft = 0, ![t].at = "commit"]
  /\ UNCHANGED <<db, strays>>

PostCommit(t) ==
  /\ tx[t].at = "commit"
  /\ Asserted(t, tx[t].seen.enabled \/ tx[t].enables)
  /\ Commit(t)
  /\ UNCHANGED strays

-----------------------------------------------------------------------------
(* A stock count: adjustStock.                                             *)

\* The product is read outside the transaction.
CountProduct(t) ==
  /\ tx[t].at = "begin"
  /\ tx' = [tx EXCEPT ![t].at = "read", ![t].seen.enabled = enabled]
  /\ UNCHANGED <<db, lock, strays>>

CountRead(t, counted) ==
  /\ tx[t].at = "read"
  /\ tx' = [tx EXCEPT ![t].at = "rows", ![t].seen.stock = stock, ![t].stock = counted]
  /\ UNCHANGED <<db, lock, strays>>

\* adjustFifoInventory inserts a row, or locks the posted rows and takes from
\* them what they hold by then.
CountRows(t) ==
  LET delta == tx[t].stock - tx[t].seen.stock
      taken == Least(goods, -delta)
      fifo  == tx[t].seen.enabled
  IN  /\ tx[t].at = "rows"
      /\ IF fifo /\ delta <= 0 /\ goods > 0
         THEN MayLock(t, "goods") /\ lock' = [lock EXCEPT !["goods"] = t]
         ELSE UNCHANGED lock
      /\ tx' = [tx EXCEPT ![t].at = "upsert",
           ![t].goods = IF ~fifo THEN 0 ELSE IF delta > 0 THEN delta ELSE -taken,
           ![t].owed = IF fifo /\ delta <= 0 THEN -delta - taken ELSE 0]
      /\ UNCHANGED <<db, strays>>

CountUpsert(t) ==
  /\ tx[t].at = "upsert"
  /\ MayLock(t, "stock")
  /\ lock' = [lock EXCEPT !["stock"] = t]
  /\ tx' = [tx EXCEPT ![t].at = "assert"]
  /\ UNCHANGED <<db, strays>>

\* Mutant: the count is not asserted.
CountAssertNothing(t) ==
  /\ tx[t].at = "assert"
  /\ tx' = [tx EXCEPT ![t].at = "commit"]
  /\ UNCHANGED <<db, lock, strays>>

\* Only a count that took the product for a FIFO product asserts. It holds the
\* lock of the snapshot row, so that row is the one it wrote; the rows it sums
\* up are those committed by then.
CountAssert(t) ==
  /\ tx[t].at = "assert"
  /\ tx[t].seen.enabled => tx[t].stock = goods + tx[t].goods - (owed + tx[t].owed)
  /\ tx' = [tx EXCEPT ![t].at = "commit"]
  /\ UNCHANGED <<db, lock, strays>>

CountCommit(t) ==
  /\ tx[t].at = "commit"
  /\ Commit(t)
  /\ Note(t)

-----------------------------------------------------------------------------
(* Approving the legacy stock: enableLegacyFifo.                           *)

ReviewRead(t) ==
  /\ tx[t].at = "begin"
  /\ draft # 0
  /\ tx' = [tx EXCEPT ![t].at = "rows", ![t].seen.draft = draft]
  /\ UNCHANGED <<db, lock, strays>>

\* A second approval of the row meets the unique key of its event.
ReviewRows(t) ==
  /\ tx[t].at = "rows"
  /\ MayLock(t, "draft")
  /\ draft # 0
  /\ lock' = [lock EXCEPT !["draft"] = t]
  /\ tx' = [tx EXCEPT ![t].at = "product", ![t].goods = tx[t].seen.draft]
  /\ UNCHANGED <<db, strays>>

ReviewProduct(t) ==
  /\ tx[t].at = "product"
  /\ MayLock(t, "product")
  /\ lock' = [lock EXCEPT !["product"] = t]
  /\ tx' = [tx EXCEPT ![t].at = "assert", ![t].enables = TRUE]
  /\ UNCHANGED <<db, strays>>

\* The assertion is two statements, issued in this order, and each sees what is
\* committed when it runs: first the snapshot row ...
ReviewReadStock(t) ==
  /\ tx[t].at = "assert"
  /\ tx' = [tx EXCEPT ![t].at = "sum", ![t].seen.stock = stock]
  /\ UNCHANGED <<db, lock, strays>>

\* ... then the sum of the rows, to which it is compared.
ReviewAssert(t) ==
  /\ tx[t].at = "sum"
  /\ tx[t].seen.stock = goods + tx[t].goods - owed
  /\ tx' = [tx EXCEPT ![t].at = "commit"]
  /\ UNCHANGED <<db, lock, strays>>

ReviewCommit(t) ==
  /\ tx[t].at = "commit"
  /\ Commit(t)
  /\ UNCHANGED strays

-----------------------------------------------------------------------------
Sell    == \E t \in Sellers : Begin(t) \/ SellStock(t) \/ SellRows(t) \/ SellCommit(t)
Receive == \E t \in Receivers : Begin(t) \/ PostStock(t) \/ PostProduct(t) \/ PostCommit(t)
Count   == \E t \in Counters :
             \/ CountProduct(t) \/ CountRows(t) \/ CountUpsert(t) \/ CountAssert(t) \/ CountCommit(t)
             \/ \E counted \in Counts : CountRead(t, counted)
Review  == \E t \in Reviewers : \/ ReviewRead(t) \/ ReviewRows(t) \/ ReviewProduct(t)
                                \/ ReviewReadStock(t) \/ ReviewAssert(t) \/ ReviewCommit(t)

Next == Sell \/ Receive \/ Count \/ Review \/ \E t \in Tx : Abort(t)

Spec == Init /\ [][Next]_vars

-----------------------------------------------------------------------------
(* Properties.                                                             *)

\* What assertFifoStockInvariant asserts, of every committed state.
FifoStockInvariant == enabled => stock = goods - owed

\* Rows hold values of their types, a lock belongs to a transaction that runs,
\* and goods and debts are never negative.
TypeOK ==
  /\ enabled \in BOOLEAN
  /\ stock \in Int /\ goods \in Nat /\ owed \in Nat /\ draft \in Nat
  /\ \A r \in Rows : lock[r] # Free => lock[r] \in Tx /\ Running(lock[r])
  /\ strays \subseteq Sellers \cup Counters

\* However checkouts, receipts, counts and approvals interleave, the two tables
\* of a FIFO product disagree only after a checkout or a count that had read
\* the product before it was put under FIFO has committed once it was, or from
\* the moment on when the reviewer that puts it there has begun to assert: the
\* row locks and the assertions keep every other pair apart.
DriftNeedsStray == strays = {} => FifoStockInvariant

\* A count made under FIFO never overwrites a sale or a receipt it has not
\* seen: the stock it found is still the stock when it may commit, unless one
\* of those strays went before.
CountsOverwriteNothing ==
  \A t \in Counters :
    tx[t].at = "commit" /\ tx[t].seen.enabled /\ strays = {} => stock = tx[t].seen.stock
=============================================================================

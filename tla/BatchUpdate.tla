---------------------------- MODULE BatchUpdate ----------------------------
(***************************************************************************)
(* Uploaded files that change products and stock.                          *)
(*                                                                         *)
(* A file is previewed: each row is validated against the tables of the    *)
(* moment and stored with what it would do.  A manager reviews the rows    *)
(* and commits them, all or none, in one serializable transaction.  A file *)
(* is known by its checksum: uploaded again, it is shown as it was         *)
(* previewed, whatever has changed, and so has one preview.                *)
(*                                                                         *)
(* Confirmation, shortage acknowledgement and the approval of high-risk    *)
(* files are taken as given; a commit without them is refused.  Purchase   *)
(* rows are DraftPurchase of FifoInventory, and a stock row moves the      *)
(* batches under FIFO as AdjustStock does.                                 *)
(***************************************************************************)
EXTENDS Catalogue, QuantitySums, Sequences

CONSTANTS
  MaxFiles,    \* number of files that are uploaded
  Contents,    \* Contents[f]: the rows of file f
  MaxCommits,  \* bound on the commits of a file at a time
  MaxSold      \* bound on units sold of a product

Files == 1 .. MaxFiles

FileRow == [action : {"create", "update", "adjust_stock", "deactivate", "reactivate", "delete"},
            sku : Skus, delta : Int]

\* Only stock rows have a delta.
ASSUME FileDomain == /\ Contents \in [Files -> Seq(FileRow)]
                     /\ \A f \in Files : \A i \in DOMAIN Contents[f] :
                          Contents[f][i].action # "adjust_stock" => Contents[f][i].delta = 0
ASSUME FileBounds == {MaxFiles, MaxSold, MaxCommits} \subseteq Nat

VARIABLES
  batch,     \* batch[f]: the BatchUpdate row of file f with its rows
  commits,   \* commits[f]: requests to commit f that have passed the checks
  stock,     \* stock[p]: the snapshot of p
  sold       \* history: units sold of p

batchVars == <<batch, commits, stock, sold>>

BatchInit ==
  /\ batch = [f \in Files |-> [status |-> "NONE", rows |-> <<>>]]
  /\ commits = [f \in Files |-> 0]
  /\ stock = [p \in Products |-> 0]
  /\ sold = [p \in Products |-> 0]

Sell(p) ==
  /\ p \in Live(product) /\ product[p].active
  /\ sold[p] < MaxSold
  /\ sold' = [sold EXCEPT ![p] = @ + 1]
  /\ stock' = [stock EXCEPT ![p] = @ - 1]
  /\ product' = [product EXCEPT ![p].used = TRUE]
  /\ UNCHANGED <<reference, pending, listed, deleting, remapped, freed, batch, commits>>

-----------------------------------------------------------------------------
(* Preview.                                                                *)

Named(f) == {batch[f].rows[i].product : i \in DOMAIN batch[f].rows}

\* What hinders removal for good, to a file: its own rows do not, but a product
\* that was created in the back office always has a record of it.
HindersFile(ps, p, f) ==
  \/ ps[p].used \/ ps[p].audited \/ ps[p].origin = Manager \/ reference[p] # None
  \/ \E g \in Files \ {f} : p \in Named(g)

\* Row i of file f as it is stored: valid if its product exists, or, for a new
\* product, does not, and no other row does the same to it.
Validated(f, i) ==
  LET row     == Contents[f][i]
      matches == WithSku(product, row.sku)
      p       == IF matches = {} THEN 0 ELSE CHOOSE q \in matches : TRUE
  IN  [action |-> row.action, sku |-> row.sku, product |-> p, delta |-> row.delta,
       before |-> IF p = 0 THEN 0 ELSE stock[p],
       hard   |-> row.action = "delete" /\ p # 0 /\ ~HindersFile(product, p, f),
       valid  |-> /\ (row.action = "create") = (p = 0)
                  /\ \A j \in DOMAIN Contents[f] \ {i} :
                       <<Contents[f][j].action, Contents[f][j].sku>> # <<row.action, row.sku>>]

Preview(f) ==
  /\ batch[f].status = "NONE"
  /\ batch' = [batch EXCEPT ![f] =
       [status |-> "PREVIEWED", rows |-> [i \in DOMAIN Contents[f] |-> Validated(f, i)]]]
  /\ listed' = listed \cup (Named(f)' \ {0})
  /\ UNCHANGED <<product, reference, pending, deleting, remapped, freed, commits, stock, sold>>

-----------------------------------------------------------------------------
(* Commit.                                                                 *)

\* Checked before the transaction.
CommitBegin(f) ==
  /\ commits[f] < MaxCommits
  /\ batch[f].status = "PREVIEWED"
  /\ \A i \in DOMAIN batch[f].rows : batch[f].rows[i].valid
  /\ commits' = [commits EXCEPT ![f] = @ + 1]
  /\ UNCHANGED <<catalogueVars, batch, stock, sold>>

\* One row, on the tables that the rows before it left: [ok, products, stock].
CanCommitRow(f, s, row) ==
  LET p == row.product
  IN  /\ s.ok
      /\ row.action = "create" => WithSku(s.products, row.sku) = {}
      /\ row.action # "create" => p \in Live(s.products)
      /\ row.action = "adjust_stock" => s.stock[p] = row.before
      /\ row.action = "delete" => row.hard = ~HindersFile(s.products, p, f)

Committed(row, old) ==
  CASE row.action = "update"       -> WithEdit(old)
    [] row.action = "adjust_stock" -> [old EXCEPT !.used = TRUE, !.audited = TRUE]
    [] row.action = "deactivate"   -> [old EXCEPT !.active = FALSE, !.deleted = FALSE, !.audited = TRUE]
    [] row.action = "reactivate"   -> [old EXCEPT !.active = TRUE, !.deleted = FALSE, !.audited = TRUE]
    [] row.action = "delete"       -> IF row.hard THEN Removed(old) ELSE Archived(old)

CommitRow(f, s, row) ==
  IF ~CanCommitRow(f, s, row) THEN [s EXCEPT !.ok = FALSE]
  ELSE IF row.action = "create"
  THEN [s EXCEPT !.products = [p \in Products |->
                                 IF NextRow(s.products, p) THEN Created(File, row.sku) ELSE @[p]]]
  ELSE [s EXCEPT !.products[row.product] = Committed(row, @),
                 !.stock[row.product] = IF row.action = "adjust_stock" THEN row.before + row.delta ELSE @]

\* The tables after the first rows of a file.
After(f) ==
  LET after[n \in 0 .. Len(batch[f].rows)] ==
        IF n = 0 THEN [ok |-> TRUE, products |-> product, stock |-> stock]
        ELSE CommitRow(f, after[n - 1], batch[f].rows[n])
  IN  after

AllRows(f) == After(f)[Len(batch[f].rows)]

Apply(f) ==
  /\ AllRows(f).ok
  /\ product' = AllRows(f).products
  /\ stock' = AllRows(f).stock
  /\ listed' = Live(product') \cap listed
  /\ GiveUp
  /\ batch' = [batch EXCEPT ![f].status = "COMMITTED"]

\* Mutant: the status is not read again under the lock.
CommitUnlocked(f) ==
  /\ commits[f] > 0
  /\ commits' = [commits EXCEPT ![f] = @ - 1]
  /\ \/ Apply(f)
     \/ ~AllRows(f).ok /\ UNCHANGED <<product, listed, freed, batch, stock>>
  /\ UNCHANGED <<reference, pending, deleting, remapped, sold>>

\* Under the lock of the batch row: nothing is done twice, or in part.
Commit(f) ==
  /\ commits[f] > 0
  /\ commits' = [commits EXCEPT ![f] = @ - 1]
  /\ \/ batch[f].status # "COMMITTED" /\ Apply(f)
     \/ /\ batch[f].status = "COMMITTED" \/ ~AllRows(f).ok
        /\ UNCHANGED <<product, listed, freed, batch, stock>>
  /\ UNCHANGED <<reference, pending, deleting, remapped, sold>>

uploadVars == <<catalogueVars, batchVars>>

UploadInit == CatalogueInit /\ BatchInit

UploadNext ==
  \/ Manage /\ UNCHANGED batchVars
  \/ \E p \in Products : Sell(p)
  \/ \E f \in Files : Preview(f) \/ CommitBegin(f) \/ Commit(f)

UploadSpec == UploadInit /\ [][UploadNext]_uploadVars

-----------------------------------------------------------------------------
(* Properties.                                                             *)

\* What the rows of file f move of product p, and what they have moved.
Moves(f, p) ==
  [i \in DOMAIN batch[f].rows |-> IF batch[f].rows[i].product = p THEN batch[f].rows[i].delta ELSE 0]

Delta(f, p) ==
  IF batch[f].status = "COMMITTED" THEN SumOf(Moves(f, p), Len(batch[f].rows)) ELSE 0

\* The stock of a product is what files put in less what was sold: a file counts
\* once, with all its rows, however many requests commit it and whatever was
\* sold between its preview and its commit (BatchUpdateService.commit).
BatchesApplyOnce ==
  \A p \in Live(product) : stock[p] = SumOf([f \in Files |-> Delta(f, p)], MaxFiles) - sold[p]
=============================================================================

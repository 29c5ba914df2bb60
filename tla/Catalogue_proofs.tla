-------------------------- MODULE Catalogue_proofs --------------------------
(***************************************************************************)
(* What the three parties that write the product table keep of each        *)
(* other's work, for every table of products and any number of rows:       *)
(*                                                                         *)
(*   - the import (BukkuSync) leaves alone what managers queued, knows     *)
(*     which prices are old, and gives an item one product, for every      *)
(*     catalogue and every number of runs and faults;                      *)
(*   - an uploaded file (BatchUpdate) counts once and whole, for any files *)
(*     of any length and any number of requests.                           *)
(***************************************************************************)
EXTENDS BukkuSync, BatchUpdate, QuantitySums_proofs

-----------------------------------------------------------------------------
(* The import.                                                             *)

Versions == 0 .. MaxVersion

Runs == [at : {"IDLE", "ITEMS", "SKU", "SAVE", "MAP", "CONTACTS", "CUSTOMER"},
         version : Versions, list : [Items -> Versions], todo : SUBSET Items,
         item : Items \cup {None}, row : 0 .. MaxProducts,
         sku : Skus \cup Items \cup {None}, stale : BOOLEAN,
         refresh : [Items -> 0 .. MaxProducts], held : SUBSET Products]

Typed ==
  /\ product \in [Products -> Rows]
  /\ pending \in SUBSET Products
  /\ remote \in [Items -> Versions]
  /\ versions \in Versions
  /\ run \in Runs

\* A product that is queued has a row, so no row that is created takes its place.
QueuedExist == \A p \in pending : product[p].life # "NONE"

\* Nothing leaves the queue during a run, and no row that the run chose to save
\* or to fetch prices for was in it.
HeldLeftAlone ==
  /\ run.held \subseteq pending
  /\ run.row \notin run.held
  /\ \A e \in Items : run.refresh[e] \notin run.held

Saving == run.at \in {"SKU", "SAVE", "MAP"} => run.item \in Items

IInv == Typed /\ QueuedExist /\ HeldLeftAlone /\ Saving

\* What one step may do to a row that is queued.
KeepsEdit(p) ==
  product'[p].life = "LIVE" =>
    /\ product[p].text # product'[p].text => product'[p].text = Edited
    /\ product[p].price # product'[p].price => product'[p].price = Edited

-----------------------------------------------------------------------------
LEMMA Zero == 0 \notin Products /\ 0 \in Versions /\ 0 \in Content /\ Edited \in Content
              /\ Versions \subseteq Content /\ 0 \in 0 .. MaxProducts
              /\ Products \subseteq 0 .. MaxProducts
BY CatalogueBounds DEF Products, Versions, Content, Edited

LEMMA Origins == 0 \in 0 .. File /\ Manager \in 0 .. File /\ Items \subseteq 0 .. File
BY CatalogueBounds DEF File, Manager, Items

LEMMA NoProductIsRow == NoProduct \in Rows
BY Zero, Origins DEF NoProduct, Rows, Versions

LEMMA CreatedIsRow ==
  ASSUME NEW origin \in 0 .. File, NEW sku \in Skus \cup Items \cup {None}
  PROVE  Created(origin, sku) \in Rows
BY NoProductIsRow DEF Created, Rows

LEMMA IdleIsRun == Idle \in Runs /\ Idle.held = {} /\ Idle.row = 0 /\ Idle.at = "IDLE"
                   /\ \A e \in Items : Idle.refresh[e] = 0
BY Zero DEF Idle, Runs

LEMMA Start == Init => IInv
<1> SUFFICES ASSUME Init PROVE IInv
  OBVIOUS
<1>1. Typed
  BY NoProductIsRow, IdleIsRun, Zero DEF Init, CatalogueInit, BukkuInit, Typed
<1> QED BY <1>1, IdleIsRun DEF Init, CatalogueInit, BukkuInit, IInv, QueuedExist, HeldLeftAlone, Saving

\* A step that leaves the import alone, and what it owes the invariant: rows stay
\* rows, none becomes unborn, and the queue only grows by rows that exist.
LEMMA ManagersKeep ==
  ASSUME IInv, UNCHANGED bukkuVars, product' \in [Products -> Rows],
         pending \subseteq pending', pending' \subseteq Products,
         \A p \in pending' : product'[p].life # "NONE"
  PROVE  IInv'
BY DEF IInv, Typed, QueuedExist, HeldLeftAlone, Saving, bukkuVars

\* Managers.
LEMMA ManageStep ==
  ASSUME IInv, Manage, UNCHANGED bukkuVars
  PROVE  IInv' /\ \A p \in run.held : KeepsEdit(p)
<1>1. CASE \E q \in Products, sku \in Creatable : CreateProduct(q, sku)
  <2>1. PICK q \in Products, sku \in Creatable : CreateProduct(q, sku)
    BY <1>1
  <2>2. Created(Manager, sku) \in Rows
    BY CreatedIsRow, Origins, SkuDomain
  <2>3. product' = [product EXCEPT ![q] = Created(Manager, sku)] /\ pending' = pending
        /\ product[q].life = "NONE"
    BY <2>1 DEF CreateProduct, NextRow, NoProduct
  <2>4. q \notin pending
    BY <2>3 DEF IInv, QueuedExist
  <2>5. product' \in [Products -> Rows] /\ \A p \in pending : product'[p] = product[p]
    BY <2>2, <2>3, <2>4 DEF IInv, Typed
  <2>6. IInv'
    BY <2>3, <2>5, ManagersKeep DEF IInv, Typed, QueuedExist
  <2> QED BY <2>5, <2>6 DEF KeepsEdit, IInv, HeldLeftAlone
<1>2. CASE \E q \in Managed, active \in BOOLEAN :
             \E sku \in Spare \cup {product[q].sku} : UpdateProduct(q, sku, active)
  <2>0. PICK q \in Managed, active \in BOOLEAN :
          \E sku \in Spare \cup {product[q].sku} : UpdateProduct(q, sku, active)
    BY <1>2
  <2>1. PICK sku \in Spare \cup {product[q].sku} : UpdateProduct(q, sku, active)
    BY <2>0
  <2>2. q \in Products /\ product[q] \in Rows /\ product[q].life = "LIVE"
    BY <2>1, ItemDomain DEF UpdateProduct, Live, IInv, Typed
  <2> DEFINE row == [WithEdit(product[q]) EXCEPT !.sku = sku, !.active = active]
  <2>3. row \in Rows /\ row.life = "LIVE" /\ row.text = Edited /\ row.price = Edited
    BY <2>1, <2>2, Zero, SkuDomain DEF WithEdit, Rows
  <2>4. product' = [product EXCEPT ![q] = row] /\ pending' \in {pending, pending \cup {q}}
    BY <2>1, <2>2 DEF UpdateProduct, IInv, Typed
  <2> HIDE DEF row
  <2>5. product' \in [Products -> Rows] /\ product'[q] = row
        /\ \A p \in Products : p # q => product'[p] = product[p]
    BY <2>2, <2>3, <2>4 DEF IInv, Typed
  <2>6. IInv'
    BY <2>2, <2>3, <2>4, <2>5, ManagersKeep DEF IInv, Typed, QueuedExist
  <2> QED BY <2>3, <2>5, <2>6 DEF KeepsEdit, IInv, Typed, HeldLeftAlone
<1>3. CASE \E q \in Managed, active \in BOOLEAN : SetProductActive(q, active)
  <2>1. PICK q \in Managed, active \in BOOLEAN : SetProductActive(q, active)
    BY <1>3
  <2>2. q \in Products /\ product[q] \in Rows
    BY <2>1, ItemDomain DEF IInv, Typed
  <2> DEFINE row == [product[q] EXCEPT !.active = active, !.audited = TRUE, !.deleted = @ /\ ~active]
  <2>3. row \in Rows /\ row.life = product[q].life /\ row.text = product[q].text
        /\ row.price = product[q].price
    BY <2>2 DEF Rows
  <2>4. product' = [product EXCEPT ![q] = row] /\ pending' = pending
    BY <2>1, <2>2 DEF SetProductActive, Rows, IInv, Typed
  <2> HIDE DEF row
  <2>5. product' \in [Products -> Rows] /\ product'[q] = row
        /\ \A p \in Products : p # q => product'[p] = product[p]
    BY <2>2, <2>3, <2>4 DEF IInv, Typed
  <2>6. IInv'
    BY <2>3, <2>4, <2>5, ManagersKeep DEF IInv, Typed, QueuedExist
  <2> QED BY <2>3, <2>5, <2>6 DEF KeepsEdit, IInv, Typed, HeldLeftAlone
<1>4. CASE \E q \in Managed : DeleteBegin(q) \/ \E e \in Mappable : ApproveMapping(q, e)
  <2>1. product' = product /\ pending' = pending
    BY <1>4 DEF DeleteBegin, ApproveMapping
  <2> QED BY <2>1, ManagersKeep DEF KeepsEdit, IInv, Typed, QueuedExist
<1>5. CASE \E q \in Managed : DeleteCommit(q)
  <2>1. PICK q \in Managed : DeleteCommit(q)
    BY <1>5
  <2>2. q \in Products /\ product[q] \in Rows
    BY <2>1, ItemDomain DEF IInv, Typed
  <2>3. Archived(product[q]) \in Rows /\ Archived(product[q]).life = product[q].life
        /\ Archived(product[q]).text = product[q].text /\ Archived(product[q]).price = product[q].price
    BY <2>2 DEF Archived, Rows
  <2>4. Removed(product[q]) \in Rows /\ Removed(product[q]).life = "GONE"
    BY <2>2, NoProductIsRow DEF Removed, Rows
  <2>5. PICK row \in {product[q], Archived(product[q]), Removed(product[q])} :
          product' = [product EXCEPT ![q] = row] /\ pending' = pending
    BY <2>1, <2>2 DEF DeleteCommit, IInv, Typed
  <2>6. product' \in [Products -> Rows] /\ product'[q] = row
        /\ \A p \in Products : p # q => product'[p] = product[p]
    BY <2>2, <2>3, <2>4, <2>5 DEF IInv, Typed
  <2>7. IInv'
    BY <2>3, <2>4, <2>5, <2>6, ManagersKeep DEF IInv, Typed, QueuedExist
  <2>8. KeepsEdit(q)
    BY <2>3, <2>4, <2>5, <2>6 DEF KeepsEdit
  <2> QED BY <2>6, <2>7, <2>8 DEF KeepsEdit, IInv, Typed, HeldLeftAlone
<1> QED BY <1>1, <1>2, <1>3, <1>4, <1>5 DEF Manage

-----------------------------------------------------------------------------
\* The import.  A step that leaves products and queue alone changes no name and
\* no price.
LEMMA RunEndsKeeps ==
  ASSUME IInv, RunEnds, UNCHANGED <<product, pending, remote, versions>>
  PROVE  IInv'
BY IdleIsRun, Zero DEF RunEnds, IInv, Typed, QueuedExist, HeldLeftAlone, Saving

LEMMA BeginKeeps ==
  ASSUME IInv, BeginRun
  PROVE  IInv'
<1>1. run' = Fetched /\ UNCHANGED <<product, pending, remote, versions>>
  BY DEF BeginRun, catalogueVars
<1>2. Fetched \in Runs /\ Fetched.held = pending /\ Fetched.row = 0
      /\ Fetched.at \in {"CONTACTS", "ITEMS"} /\ \A e \in Items : Fetched.refresh[e] = 0
  <2>1. CASE NotChanged
    BY <2>1, IdleIsRun DEF Fetched, Runs, IInv, Typed
  <2>2. CASE ~NotChanged
    BY <2>2, IdleIsRun DEF Fetched, Runs, IInv, Typed
  <2> QED BY <2>1, <2>2
<1> QED BY <1>1, <1>2, Zero DEF IInv, Typed, QueuedExist, HeldLeftAlone, Saving

LEMMA SkipIsRun ==
  ASSUME IInv, NEW e
  PROVE  /\ Skip(e) \in Runs /\ Skip(e).held = run.held /\ Skip(e).row = run.row
         /\ Skip(e).refresh = run.refresh /\ Skip(e).at = run.at /\ Skip(e).item = run.item
BY DEF Skip, Runs, IInv, Typed

LEMMA BundleKeeps ==
  ASSUME IInv, NEW e \in Items, SkipBundle(e)
  PROVE  IInv' /\ \A p \in run.held : KeepsEdit(p)
<1>1. \A p \in Products :
        LET row == [product[p] EXCEPT !.active = FALSE]
        IN  row \in Rows /\ row.life = product[p].life /\ row.text = product[p].text
            /\ row.price = product[p].price
  BY DEF IInv, Typed, Rows
<1>2. \A p \in Products : /\ product'[p] \in Rows /\ product'[p].life = product[p].life
                          /\ product'[p].text = product[p].text /\ product'[p].price = product[p].price
  BY <1>1 DEF SkipBundle, IInv, Typed
<1>3. product' \in [Products -> Rows] /\ run' = Skip(e) /\ UNCHANGED <<pending, remote, versions>>
  BY <1>2 DEF SkipBundle
<1>4. IInv'
  BY <1>2, <1>3, SkipIsRun DEF IInv, Typed, QueuedExist, HeldLeftAlone, Saving
<1> QED BY <1>2, <1>4 DEF KeepsEdit, IInv, Typed, HeldLeftAlone

\* A run skips the product it finds, or goes on with it.
LEMMA ChosenRun ==
  ASSUME IInv, NEW e \in Items, ChooseProduct(e)
  PROVE  \E p \in 0 .. MaxProducts :
           /\ p # 0 => p \in ProductFor(e) /\ p \in Live(product) /\ p \in Products
           /\ p = 0 => ProductFor(e) = {}
           /\ \/ IsHeld(p) /\ run' = Skip(e)
              \/ /\ ~IsHeld(p) /\ run' \in Runs
                 /\ run'.at = (IF p = 0 THEN "SKU" ELSE "SAVE")
                 /\ run'.item = e /\ run'.row = p /\ run'.stale = IsStale(p, e)
                 /\ run'.list = run.list /\ run'.refresh = run.refresh
                 /\ run'.todo = run.todo /\ run'.held = run.held
<1>1. PICK p \in IF ProductFor(e) = {} THEN {0} ELSE ProductFor(e) :
        run' = IF IsHeld(p) THEN Skip(e)
               ELSE [run EXCEPT !.at = IF p = 0 THEN "SKU" ELSE "SAVE", !.item = e, !.row = p,
                                !.sku = IF p = 0 THEN None ELSE product[p].sku,
                                !.stale = IsStale(p, e)]
  BY DEF ChooseProduct
<1>2. ProductFor(e) \subseteq Products /\ ProductFor(e) \subseteq Live(product)
  BY DEF ChooseProduct, Live
<1>3. p \in 0 .. MaxProducts /\ (p = 0 => ProductFor(e) = {})
      /\ (p # 0 => p \in ProductFor(e) /\ p \in Live(product) /\ p \in Products)
  BY <1>1, <1>2, Zero
<1>4. CASE IsHeld(p)
  BY <1>1, <1>3, <1>4
<1>5. CASE ~IsHeld(p)
  <2> DEFINE at  == IF p = 0 THEN "SKU" ELSE "SAVE"
             sku == IF p = 0 THEN None ELSE product[p].sku
  <2>1. at \in {"SKU", "SAVE"} /\ at = (IF p = 0 THEN "SKU" ELSE "SAVE")
    OBVIOUS
  <2>2. sku \in Skus \cup Items \cup {None}
    BY <1>3 DEF IInv, Typed, Rows
  <2>3. IsStale(p, e) \in BOOLEAN
    BY DEF IsStale
  <2>4. run' = [run EXCEPT !.at = at, !.item = e, !.row = p, !.sku = sku, !.stale = IsStale(p, e)]
    BY <1>1, <1>5
  <2> HIDE DEF at, sku
  <2>5. run \in Runs
    BY DEF IInv, Typed
  <2>6. /\ run' \in Runs /\ run'.at = at /\ run'.item = e /\ run'.row = p
        /\ run'.stale = IsStale(p, e) /\ run'.list = run.list /\ run'.refresh = run.refresh
        /\ run'.todo = run.todo /\ run'.held = run.held
    BY <1>3, <2>1, <2>2, <2>3, <2>4, <2>5 DEF Runs
  <2> QED BY <1>3, <1>5, <2>1, <2>6
<1> QED BY <1>4, <1>5

LEMMA ChooseKeeps ==
  ASSUME IInv, NEW e \in Items, ChooseProduct(e)
  PROVE  IInv'
<1>1. UNCHANGED <<product, pending, remote, versions>>
  BY DEF ChooseProduct, catalogueVars
<1>2. CASE run' = Skip(e)
  BY <1>1, <1>2, SkipIsRun DEF IInv, Typed, QueuedExist, HeldLeftAlone, Saving
<1>3. ASSUME NEW p \in 0 .. MaxProducts, ~IsHeld(p), run' \in Runs, run'.item = e, run'.row = p,
             run'.refresh = run.refresh, run'.held = run.held
      PROVE  IInv'
  <2>1. p \notin run.held
    BY <1>3 DEF IsHeld, IInv, HeldLeftAlone
  <2> QED BY <1>1, <1>3, <2>1 DEF IInv, Typed, QueuedExist, HeldLeftAlone, Saving
<1> QED BY <1>2, <1>3, ChosenRun

\* The SKU of a new product is read.
LEMMA ChosenSku ==
  ASSUME IInv, ChooseSku
  PROVE  /\ run.at = "SKU" /\ run.item \in Items /\ run' \in Runs
         /\ run'.at = "SAVE" /\ run'.sku = FreeSku(run.item)
         /\ run'.item = run.item /\ run'.row = run.row /\ run'.stale = run.stale
         /\ run'.list = run.list /\ run'.refresh = run.refresh
         /\ run'.todo = run.todo /\ run'.held = run.held
<1>1. run.at = "SKU" /\ run.item \in Items /\ run \in Runs
      /\ run' = [run EXCEPT !.at = "SAVE", !.sku = FreeSku(run.item)]
  BY DEF ChooseSku, IInv, Saving, Typed
<1>2. FreeSku(run.item) \in Skus \cup Items \cup {None}
  BY <1>1, SkuDomain DEF FreeSku
<1> QED BY <1>1, <1>2 DEF Runs

LEMMA ChooseSkuKeeps ==
  ASSUME IInv, ChooseSku
  PROVE  IInv'
BY ChosenSku DEF ChooseSku, catalogueVars, IInv, Typed, QueuedExist, HeldLeftAlone, Saving

LEMMA ImportedIsRow ==
  ASSUME IInv, NEW row \in Rows, NEW e \in Items
  PROVE  Imported(row, e) \in Rows /\ Imported(row, e).life = row.life
<1>1. run.list[e] \in Versions /\ run.list[e] \in Content
  BY Zero DEF IInv, Typed, Runs
<1>2. OnSale(e) \in BOOLEAN /\ run.sku \in Skus \cup Items \cup {None}
  BY DEF OnSale, IInv, Typed, Runs
<1> QED BY <1>1, <1>2 DEF Imported, Rows, Versions

LEMMA AtMap ==
  ASSUME IInv, NEW p \in 0 .. MaxProducts
  PROVE  LET next == [run EXCEPT !.at = "MAP", !.row = p]
         IN  /\ next \in Runs /\ next.held = run.held /\ next.row = p
             /\ next.refresh = run.refresh /\ next.item = run.item
BY DEF IInv, Typed, Runs

LEMMA UpdateKeeps ==
  ASSUME IInv, SaveUpdate
  PROVE  IInv' /\ \A p \in run.held : KeepsEdit(p)
<1>1. run.row \in Products /\ product[run.row] \in Rows /\ run.item \in Items
  BY DEF SaveUpdate, Live, IInv, Typed, Saving
<1> DEFINE row == Imported(product[run.row], run.item)
<1>2. row \in Rows /\ row.life = product[run.row].life
  BY <1>1, ImportedIsRow
<1>3. product' = [product EXCEPT ![run.row] = row] /\ UNCHANGED <<pending, remote, versions>>
      /\ run' = [run EXCEPT !.at = "MAP"]
  BY DEF SaveUpdate
<1> HIDE DEF row
<1>4. product' \in [Products -> Rows] /\ product'[run.row] = row
      /\ \A p \in Products : p # run.row => product'[p] = product[p]
  BY <1>1, <1>2, <1>3 DEF IInv, Typed
<1>5. run' \in Runs /\ run'.held = run.held /\ run'.row = run.row /\ run'.refresh = run.refresh
      /\ run'.item = run.item
  BY <1>3 DEF Runs, IInv, Typed
<1>6. IInv'
  BY <1>1, <1>2, <1>3, <1>4, <1>5 DEF IInv, Typed, QueuedExist, HeldLeftAlone, Saving
<1> QED BY <1>4, <1>6 DEF KeepsEdit, IInv, Typed, HeldLeftAlone

LEMMA CreateKeeps ==
  ASSUME IInv, NEW q \in Products, SaveCreate(q)
  PROVE  IInv' /\ \A p \in run.held : KeepsEdit(p)
<1>1. run.item \in Items
  BY DEF SaveCreate, IInv, Saving
<1>2. run.sku \in Skus \cup Items \cup {None}
  BY DEF IInv, Typed, Runs
<1>3. Created(run.item, run.sku) \in Rows /\ Created(run.item, run.sku).life = "LIVE"
  BY <1>1, <1>2, CreatedIsRow, Origins DEF Created, NoProduct
<1> DEFINE row == Imported(Created(run.item, run.sku), run.item)
<1>4. row \in Rows /\ row.life = "LIVE"
  BY <1>1, <1>3, ImportedIsRow
<1>5. product' = [product EXCEPT ![q] = row] /\ UNCHANGED <<pending, remote, versions>>
      /\ run' = [run EXCEPT !.at = "MAP", !.row = q] /\ product[q].life = "NONE"
  BY DEF SaveCreate, NextRow, NoProduct
<1> HIDE DEF row
<1>6. q \notin pending /\ q \notin run.held
  BY <1>5 DEF IInv, QueuedExist, HeldLeftAlone
<1>7. product' \in [Products -> Rows] /\ product'[q] = row
      /\ \A p \in Products : p # q => product'[p] = product[p]
  BY <1>4, <1>5 DEF IInv, Typed
<1>8. run' \in Runs /\ run'.held = run.held /\ run'.row = q /\ run'.refresh = run.refresh
      /\ run'.item = run.item
  BY <1>5, AtMap, Zero
<1>9. IInv'
  BY <1>1, <1>5, <1>6, <1>7, <1>8 DEF IInv, Typed, QueuedExist, HeldLeftAlone, Saving
<1> QED BY <1>6, <1>7, <1>9 DEF KeepsEdit, IInv, Typed, HeldLeftAlone

LEMMA MapKeeps ==
  ASSUME IInv, MapItem
  PROVE  IInv'
<1>1. UNCHANGED <<product, pending, remote, versions>> /\ run.item \in Items
  BY DEF MapItem, IInv, Saving
<1>2. CASE run.row \in Live(product)
  <2> DEFINE row == IF run.stale /\ OnSale(run.item) THEN run.row ELSE 0
  <2>1. row \in {run.row, 0}
    OBVIOUS
  <2>2. run' = [Skip(run.item) EXCEPT !.at = "ITEMS", !.item = None, !.row = 0, !.sku = None,
                                      !.stale = FALSE, !.refresh[run.item] = row]
    BY <1>2 DEF MapItem
  <2> HIDE DEF row
  <2>3. row \in 0 .. MaxProducts /\ row \notin run.held
    BY <2>1, Zero DEF IInv, Typed, Runs, HeldLeftAlone
  <2>4. run' \in Runs /\ run'.held = run.held /\ run'.row = 0 /\ run'.at = "ITEMS"
        /\ run'.refresh = [run.refresh EXCEPT ![run.item] = row]
    BY <2>2, <2>3, SkipIsRun, Zero DEF Runs
  <2>5. 0 \notin run.held /\ \A e \in Items : run'.refresh[e] \notin run.held
    BY <1>1, <2>3, <2>4, Zero DEF IInv, Typed, Runs, HeldLeftAlone
  <2> QED BY <1>1, <2>4, <2>5 DEF IInv, Typed, QueuedExist, HeldLeftAlone, Saving
<1>3. CASE run.row \notin Live(product)
  BY <1>1, <1>3, RunEndsKeeps DEF MapItem
<1> QED BY <1>2, <1>3

LEMMA PaidOff ==
  ASSUME IInv, NEW e \in Items, run' = [run EXCEPT !.refresh[e] = 0],
         UNCHANGED <<pending, remote, versions>>,
         product' \in [Products -> Rows], \A p \in Products : product'[p].life = product[p].life
  PROVE  IInv'
<1>1. run' \in Runs /\ run'.held = run.held /\ run'.row = run.row /\ run'.at = run.at
      /\ run'.item = run.item /\ run'.refresh = [run.refresh EXCEPT ![e] = 0]
  BY Zero DEF IInv, Typed, Runs
<1>2. \A d \in Items : run'.refresh[d] \notin run.held
  BY <1>1, Zero DEF IInv, Typed, Runs, HeldLeftAlone
<1> QED BY <1>1, <1>2 DEF IInv, Typed, QueuedExist, HeldLeftAlone, Saving

LEMMA StoreKeeps ==
  ASSUME IInv, NEW e \in Items, StorePrice(e)
  PROVE  IInv' /\ \A p \in run.held : KeepsEdit(p)
<1> DEFINE q == run.refresh[e]
<1>1. q \in Products /\ q \notin run.held /\ product[q] \in Rows /\ PricesOf(e) \in Content
  BY Zero DEF StorePrice, Live, IInv, Typed, HeldLeftAlone, PricesOf
<1> DEFINE row == [product[q] EXCEPT !.price = PricesOf(e)]
<1>2. row \in Rows /\ row.life = product[q].life
  BY <1>1 DEF Rows
<1>3. product' = [product EXCEPT ![q] = row] /\ run' = [run EXCEPT !.refresh[e] = 0]
      /\ UNCHANGED <<pending, remote, versions>>
  BY <1>1 DEF StorePrice, IInv, Typed
<1> HIDE DEF row, q
<1>4. product' \in [Products -> Rows] /\ product'[q] = row
      /\ \A p \in Products : p # q => product'[p] = product[p]
  BY <1>1, <1>2, <1>3 DEF IInv, Typed
<1>5. IInv'
  BY <1>2, <1>3, <1>4, PaidOff
<1> QED BY <1>1, <1>4, <1>5 DEF KeepsEdit, IInv, Typed, HeldLeftAlone

\* The steps of an import that leave the items alone.
LEMMA OtherStepsKeep ==
  ASSUME IInv, RecordVersion \/ ImportContact \/ MapContact
  PROVE  IInv'
<1>1. UNCHANGED <<product, pending, remote, versions>>
  BY DEF RecordVersion, ImportContact, MapContact, catalogueVars
<1>2. CASE run' = Idle
  BY <1>1, <1>2, IdleIsRun, Zero DEF IInv, Typed, QueuedExist, HeldLeftAlone, Saving
<1>3. CASE \E to \in {"CONTACTS", "CUSTOMER"} : run' = [run EXCEPT !.at = to]
  <2>1. run' \in Runs /\ run'.held = run.held /\ run'.row = run.row /\ run'.refresh = run.refresh
        /\ run'.at \in {"CONTACTS", "CUSTOMER"}
    BY <1>3 DEF IInv, Typed, Runs
  <2> QED BY <1>1, <2>1 DEF IInv, Typed, QueuedExist, HeldLeftAlone, Saving
<1> QED BY <1>2, <1>3 DEF RecordVersion, ImportContact, MapContact

LEMMA PublishKeeps ==
  ASSUME IInv, NEW e \in Items, Publish(e)
  PROVE  IInv'
<1>1. versions + 1 \in Versions
  BY CatalogueBounds DEF Publish, IInv, Typed, Versions
<1>2. UNCHANGED <<product, pending, run>> /\ versions' \in Versions /\ remote' \in [Items -> Versions]
  BY <1>1 DEF Publish, catalogueVars, IInv, Typed
<1> QED BY <1>2 DEF IInv, Typed, QueuedExist, HeldLeftAlone, Saving

-----------------------------------------------------------------------------
\* Every step keeps the invariant and the edits that were queued.
LEMMA Step ==
  ASSUME IInv, [Next]_vars
  PROVE  IInv' /\ \A p \in run.held : KeepsEdit(p)
<1>1. CASE UNCHANGED vars
  BY <1>1 DEF vars, catalogueVars, bukkuVars, IInv, Typed, QueuedExist, HeldLeftAlone, Saving, KeepsEdit
<1>2. CASE Manage /\ UNCHANGED bukkuVars
  BY <1>2, ManageStep
<1>3. CASE \E e \in Items : Publish(e)
  BY <1>3, PublishKeeps DEF Publish, catalogueVars, KeepsEdit
<1>4. CASE Sync
  <2>1. CASE BeginRun
    BY <2>1, BeginKeeps DEF BeginRun, catalogueVars, KeepsEdit
  <2>2. CASE RecordVersion \/ ImportContact \/ MapContact
    <3>1. product' = product
      BY <2>2 DEF RecordVersion, ImportContact, MapContact, catalogueVars
    <3> QED BY <2>2, <3>1, OtherStepsKeep DEF KeepsEdit
  <2>3. CASE \E e \in ToRefresh : StorePrice(e)
    BY <2>3, StoreKeeps DEF ToRefresh
  <2>4. CASE \E e \in ToRefresh : PriceThrows(e)
    BY <2>4, RunEndsKeeps DEF PriceThrows, Throw, catalogueVars, KeepsEdit
  <2>5. CASE ItemStep
    <3>1. CASE \E e \in run.todo : SkipBundle(e)
      BY <3>1, BundleKeeps DEF IInv, Typed, Runs
    <3>2. CASE \E e \in run.todo : ChooseProduct(e)
      BY <3>2, ChooseKeeps DEF ChooseProduct, catalogueVars, KeepsEdit, IInv, Typed, Runs
    <3>3. CASE SaveThrows \/ MapThrows \/ \E e \in run.todo : ChooseThrows(e)
      BY <3>3, RunEndsKeeps DEF SaveThrows, MapThrows, ChooseThrows, Throw, catalogueVars, KeepsEdit
    <3>4. CASE SaveUpdate
      BY <3>4, UpdateKeeps
    <3>5. CASE \E q \in Products : SaveCreate(q)
      BY <3>5, CreateKeeps
    <3>6. CASE MapItem
      BY <3>6, MapKeeps DEF MapItem, KeepsEdit
    <3>7. CASE ChooseSku
      BY <3>7, ChooseSkuKeeps DEF ChooseSku, catalogueVars, KeepsEdit
    <3> QED BY <2>5, <3>1, <3>2, <3>3, <3>4, <3>5, <3>6, <3>7 DEF ItemStep
  <2> QED BY <1>4, <2>1, <2>2, <2>3, <2>4, <2>5 DEF Sync
<1>5. CASE BukkuFaults
  <2>1. CASE Crash \/ FetchFails
    BY <2>1, RunEndsKeeps DEF Crash, FetchFails, catalogueVars, KeepsEdit
  <2>2. CASE \E e \in ToRefresh : PriceFails(e)
    <3>1. PICK e \in Items : PriceFails(e)
      BY <2>2 DEF ToRefresh
    <3>2. product' = product /\ UNCHANGED <<pending, remote, versions>>
          /\ run' = [run EXCEPT !.refresh[e] = 0]
      BY <3>1 DEF PriceFails, catalogueVars
    <3> QED BY <3>2, PaidOff DEF KeepsEdit, IInv, Typed
  <2> QED BY <1>5, <2>1, <2>2 DEF BukkuFaults
<1> QED BY <1>1, <1>2, <1>3, <1>4, <1>5 DEF Next

\* A run has the row it is saving and the prices it owes only of products that
\* were not queued when it began (upsertCatalogueProduct, importPrices).
THEOREM HeldRowsLeftAlone == Spec => []HeldLeftAlone
<1>1. Init => IInv
  BY Start
<1>2. IInv /\ [Next]_vars => IInv'
  BY Step
<1>3. IInv => HeldLeftAlone
  BY DEF IInv
<1> QED BY <1>1, <1>2, <1>3, PTL DEF Spec

\* Whatever managers, the import and faults do, no step of a run replaces the name
\* or the price of a product whose edit was queued before the run began, except
\* by another edit (importProducts, hasPendingOutbound).
THEOREM EditsKept == Spec => EditsSurviveRuns
<1> DEFINE Kept == \A p \in run.held : product'[p].life = "LIVE" =>
             /\ product[p].text # product'[p].text => product'[p].text = Edited
             /\ product[p].price # product'[p].price => product'[p].price = Edited
<1>1. Init => IInv
  BY Start
<1>2. IInv /\ [Next]_vars => IInv'
  BY Step
<1>3. IInv /\ [Next]_vars => [Kept]_product
  BY Step DEF KeepsEdit
<1>4. Spec => [][Kept]_product
  <2> HIDE DEF Kept
  <2> QED BY <1>1, <1>2, <1>3, PTL DEF Spec
<1> QED BY <1>4 DEF EditsSurviveRuns

-----------------------------------------------------------------------------
(* Prices.                                                                 *)

\* A product whose prices are as new as its name, or will be, or are excused.
Excused(p) ==
  \/ product[p].price >= product[p].hash
  \/ \E e \in Items : <<e, product[p].hash>> \in Archives
  \/ p \in missed \cup remapped
  \/ \E e \in Items : run.refresh[e] = p

\* Only of the row that it is saving may the run still have to note the prices.
PricesNoted ==
  \A p \in Live(product) : Excused(p) \/ (run.at = "MAP" /\ run.row = p /\ run.stale)

\* What the run owes: no prices of an item it has not saved, and none when it has
\* come to the contacts.
OwedInTurn ==
  /\ run.at \notin {"ITEMS", "SKU", "SAVE", "MAP"} => \A e \in Items : run.refresh[e] = 0
  /\ \A e \in run.todo : run.refresh[e] = 0
  /\ run.at \in {"SKU", "SAVE", "MAP"} => run.item \in run.todo

\* The row that a run saves exists, and the name it has or gets is that of the
\* version fetched.
SavesFetched ==
  /\ run.row \in Products => product[run.row].life # "NONE"
  /\ run.at \in {"SKU", "SAVE"} /\ run.row = 0 => run.stale
  /\ run.row \in Live(product) =>
       /\ run.at \in {"SKU", "SAVE"} /\ ~run.stale => product[run.row].hash = run.list[run.item]
       /\ run.at = "MAP" => product[run.row].hash = run.list[run.item]

\* Row p, whose prices are owed for item e, has a name that Bukku has for e, unless
\* a manager mapped it elsewhere; that of another item is not written to it.
OwedFor(e, p) ==
  /\ product[p].life # "NONE"
  /\ product[p].life = "LIVE" =>
       p \in remapped \/ (reference[p] = e /\ product[p].hash <= remote[e])
  /\ run.at \in {"SKU", "SAVE", "MAP"} /\ run.row = p => p \in remapped

OwedAsMapped == \A e \in Items, p \in Products : run.refresh[e] = p => OwedFor(e, p)

VersionsRise == \A e \in Items : run.list[e] <= remote[e] /\ remote[e] <= versions

\* References name items.
ReferenceTyped == reference \in [Products -> Items \cup {None}]

PInv == PricesNoted /\ OwedInTurn /\ SavesFetched /\ OwedAsMapped /\ VersionsRise

\* What managers, and an import that saves no row, leave of rows and references.
RowsStay ==
  /\ \A p \in Products : product[p].life = "GONE" => product'[p].life = "GONE"
  /\ \A p \in Live(product) :
       /\ product'[p].life \in {"LIVE", "GONE"}
       /\ product'[p].life = "LIVE" => product'[p].origin = product[p].origin
       /\ \/ product'[p].life = "LIVE" /\ product'[p].sku = product[p].sku
          \/ product[p].sku \in freed' \cup {None}
  /\ \A p \in Live(product') : p \in Live(product) \/ product'[p].origin \notin Items
  /\ remapped \subseteq remapped' /\ freed \subseteq freed'
  /\ \A p \in Live(product) :
       reference'[p] = reference[p] \/ reference[p] = None \/ p \in remapped'

PricesStay ==
  /\ \A p \in Products : product[p].life # "NONE" => product'[p].life # "NONE"
  /\ \A p \in Live(product') :
       \/ /\ product[p].life = "LIVE" /\ product'[p].hash = product[p].hash
          /\ product'[p].price \in {product[p].price, Edited}
       \/ product[p].life = "NONE" /\ product'[p].price = 0 /\ product'[p].hash = 0

\* The run stays where it is, but for items it need not save.
RunStays ==
  /\ run'.at = run.at /\ run'.row = run.row /\ run'.item = run.item /\ run'.stale = run.stale
  /\ run'.list = run.list /\ run'.refresh = run.refresh
  /\ run'.todo \subseteq run.todo
  /\ run.at \in {"SKU", "SAVE", "MAP"} => run'.todo = run.todo

LEMMA Unchanged ==
  ASSUME UNCHANGED <<product, reference, remapped, freed>>
  PROVE  RowsStay
BY DEF RowsStay, Live

LEMMA SameRun == run' = run => RunStays
BY DEF RunStays

\* A SKU that a product leaves is noted.
Noted == GiveUp \/ (freed' = freed /\ \A p \in Live(product) : product'[p].sku = product[p].sku)

LEMMA LeftIsNoted ==
  ASSUME Noted
  PROVE  /\ freed \subseteq freed'
         /\ \A p \in Live(product) : product'[p].sku = product[p].sku \/ product[p].sku \in freed'
BY DEF Noted, GiveUp

\* One row changes, but neither its origin nor, unnoted, its SKU.
LEMMA RowChange ==
  ASSUME IInv, NEW q \in Products, NEW row \in Rows, UNCHANGED <<reference, remapped>>,
         product' = [product EXCEPT ![q] = row], product[q].life = "LIVE", row.life = "LIVE",
         (freed' = freed /\ row.sku = product[q].sku) \/ GiveUp, row.origin = product[q].origin
  PROVE  RowsStay
<1>1. product'[q] = row /\ \A p \in Products \ {q} : product'[p] = product[p]
  BY DEF IInv, Typed
<1>2. Noted
  BY <1>1 DEF Noted, Live
<1> QED BY <1>1, <1>2, LeftIsNoted DEF RowsStay, Live

LEMMA EditKeeps ==
  ASSUME IInv, NEW q \in Products, NEW row \in Rows, UNCHANGED <<reference, remapped>>,
         product' = [product EXCEPT ![q] = row], product[q].life = "LIVE", row.life = "LIVE",
         (freed' = freed /\ row.sku = product[q].sku) \/ GiveUp, row.origin = product[q].origin,
         row.hash = product[q].hash,
         row.price \in {product[q].price, Edited}
  PROVE  RowsStay /\ PricesStay
<1>1. product'[q] = row /\ \A p \in Products \ {q} : product'[p] = product[p]
  BY DEF IInv, Typed
<1>2. PricesStay
  BY <1>1 DEF PricesStay, Live
<1> QED BY <1>2, RowChange

LEMMA ManageStays ==
  ASSUME IInv, ReferenceTyped, Manage
  PROVE  RowsStay /\ PricesStay
<1>1. ASSUME NEW q \in Products, NEW sku \in Creatable, CreateProduct(q, sku)
      PROVE  RowsStay /\ PricesStay
  <2> DEFINE row == Created(Manager, sku)
  <2>1. row.price = 0 /\ row.hash = 0 /\ row.life = "LIVE" /\ row.origin = Manager
    BY DEF Created, NoProduct
  <2>2. Manager \notin Items
    BY CatalogueBounds DEF Manager, Items
  <2>3. product' = [product EXCEPT ![q] = row] /\ product[q].life = "NONE"
        /\ UNCHANGED <<reference, remapped, freed>>
    BY <1>1 DEF CreateProduct, NextRow, NoProduct
  <2> HIDE DEF row
  <2>4. product'[q] = row /\ \A p \in Products \ {q} : product'[p] = product[p]
    BY <2>3 DEF IInv, Typed
  <2> QED BY <2>1, <2>2, <2>3, <2>4 DEF RowsStay, PricesStay, Live
<1>2. ASSUME NEW q \in Managed, NEW active \in BOOLEAN, NEW sku \in Spare \cup {product[q].sku},
             UpdateProduct(q, sku, active)
      PROVE  RowsStay /\ PricesStay
  <2> DEFINE row == [WithEdit(product[q]) EXCEPT !.sku = sku, !.active = active]
  <2>1. q \in Products /\ product[q] \in Rows /\ product[q].life = "LIVE"
    BY <1>2, ItemDomain DEF UpdateProduct, Live, IInv, Typed
  <2>2. /\ row \in Rows /\ row.life = "LIVE" /\ row.price = Edited
        /\ row.origin = product[q].origin /\ row.hash = product[q].hash
    BY <1>2, <2>1, Zero, SkuDomain DEF WithEdit, Rows
  <2>3. product' = [product EXCEPT ![q] = row] /\ GiveUp /\ UNCHANGED <<reference, remapped>>
    BY <1>2, <2>1 DEF UpdateProduct, IInv, Typed
  <2> HIDE DEF row
  <2> QED BY <2>1, <2>2, <2>3, EditKeeps
<1>3. ASSUME NEW q \in Managed, NEW active \in BOOLEAN, SetProductActive(q, active)
      PROVE  RowsStay /\ PricesStay
  <2> DEFINE row == [product[q] EXCEPT !.active = active, !.audited = TRUE, !.deleted = @ /\ ~active]
  <2>1. q \in Products /\ product[q] \in Rows /\ product[q].life = "LIVE"
    BY <1>3, ItemDomain DEF SetProductActive, Live, IInv, Typed
  <2>2. /\ row \in Rows /\ row.life = "LIVE" /\ row.price = product[q].price
        /\ row.sku = product[q].sku /\ row.origin = product[q].origin
        /\ row.hash = product[q].hash
    BY <2>1 DEF Rows
  <2>3. product' = [product EXCEPT ![q] = row] /\ UNCHANGED <<reference, remapped, freed>>
    BY <1>3, <2>1 DEF SetProductActive, Rows, IInv, Typed
  <2> HIDE DEF row
  <2> QED BY <2>1, <2>2, <2>3, EditKeeps
<1>4. ASSUME NEW q \in Managed, DeleteBegin(q) PROVE RowsStay /\ PricesStay
  BY <1>4 DEF DeleteBegin, RowsStay, PricesStay, Live
<1>5. ASSUME NEW q \in Managed, DeleteCommit(q) PROVE RowsStay /\ PricesStay
  <2>1. q \in Products /\ product[q] \in Rows /\ GiveUp /\ UNCHANGED <<reference, remapped>>
    BY <1>5, ItemDomain DEF DeleteCommit, IInv, Typed
  <2>2. \/ UNCHANGED product
        \/ product' = [product EXCEPT ![q] = Removed(product[q])]
        \/ product[q].life = "LIVE" /\ product' = [product EXCEPT ![q] = Archived(product[q])]
    BY <1>5, <2>1 DEF DeleteCommit, IInv, Typed
  <2>6. freed \subseteq freed'
        /\ \A p \in Live(product) : product'[p].sku = product[p].sku \/ product[p].sku \in freed'
    BY <2>1, LeftIsNoted DEF Noted
  <2>3. CASE UNCHANGED product
    BY <2>1, <2>3, <2>6 DEF RowsStay, PricesStay, Live
  <2>4. CASE product' = [product EXCEPT ![q] = Removed(product[q])]
    <3>1. Removed(product[q]).life = "GONE" /\ Removed(product[q]).sku = None
      BY DEF Removed, NoProduct
    <3>2. product'[q].life = "GONE" /\ product'[q].sku = None
          /\ \A p \in Products \ {q} : product'[p] = product[p]
      BY <2>1, <2>4, <3>1 DEF IInv, Typed
    <3> QED BY <2>1, <2>6, <3>2 DEF RowsStay, PricesStay, Live
  <2>5. CASE product[q].life = "LIVE" /\ product' = [product EXCEPT ![q] = Archived(product[q])]
    <3> DEFINE row == Archived(product[q])
    <3>1. /\ row \in Rows /\ row.life = "LIVE" /\ row.price = product[q].price
          /\ row.sku = product[q].sku /\ row.origin = product[q].origin
          /\ row.hash = product[q].hash
      BY <2>1, <2>5 DEF Archived, Rows
    <3>2. product' = [product EXCEPT ![q] = row]
      BY <2>5
    <3> HIDE DEF row
    <3> QED BY <2>1, <2>5, <3>1, <3>2, EditKeeps
  <2> QED BY <2>2, <2>3, <2>4, <2>5
<1>6. ASSUME NEW q \in Managed, NEW e \in Mappable, ApproveMapping(q, e)
      PROVE  RowsStay /\ PricesStay
  <2>1. /\ UNCHANGED <<product, freed>> /\ reference' = [reference EXCEPT ![q] = e]
        /\ remapped \subseteq remapped'
        /\ reference[q] \in {None, e} \/ q \in remapped'
    BY <1>6 DEF ApproveMapping
  <2>2. q \in Products /\ reference \in [Products -> Items \cup {None}]
    BY ItemDomain DEF ReferenceTyped
  <2>3. \A p \in Products : reference'[p] = IF p = q THEN e ELSE reference[p]
    BY <2>1, <2>2
  <2> QED BY <2>1, <2>2, <2>3 DEF RowsStay, PricesStay, Live
<1> QED BY <1>1, <1>2, <1>3, <1>4, <1>5, <1>6 DEF Manage

LEMMA ReferenceStep ==
  ASSUME IInv, ReferenceTyped, [Next]_vars
  PROVE  ReferenceTyped'
<1>1. CASE UNCHANGED reference
  BY <1>1 DEF ReferenceTyped
<1>2. ASSUME NEW q \in Products, NEW e \in Items, reference' = [reference EXCEPT ![q] = e]
      PROVE  ReferenceTyped'
  BY <1>2 DEF ReferenceTyped
<1>3. CASE Manage
  <2>1. ASSUME NEW q \in Managed, NEW e \in Mappable, ApproveMapping(q, e)
        PROVE  ReferenceTyped'
    BY <1>2, <2>1, ItemDomain DEF ApproveMapping
  <2> QED BY <1>1, <1>3, <2>1 DEF Manage, CreateProduct, UpdateProduct, SetProductActive,
             DeleteBegin, DeleteCommit
<1>4. CASE MapItem
  <2>1. run.item \in Items /\ reference' = [reference EXCEPT ![run.row] = run.item]
    BY <1>4 DEF MapItem, IInv, Saving
  <2>2. CASE run.row \in Products
    BY <1>2, <2>1, <2>2
  <2>3. CASE run.row \notin Products
    <3>1. reference' = reference
      BY <2>1, <2>3 DEF ReferenceTyped
    <3> QED BY <1>1, <3>1
  <2> QED BY <2>2, <2>3
<1>5. CASE ItemStep /\ ~MapItem
  BY <1>1, <1>5 DEF ItemStep, SkipBundle, ChooseProduct, ChooseSku, ChooseThrows, SaveUpdate, SaveThrows,
     SaveCreate, MapThrows, Throw, catalogueVars
<1>6. CASE UNCHANGED vars \/ (\E e \in Items : Publish(e)) \/ BeginRun \/ RecordVersion
           \/ ImportContact \/ MapContact
  BY <1>1, <1>6 DEF Publish, BeginRun, RecordVersion, ImportContact, MapContact, vars, catalogueVars
<1>7. CASE BukkuFaults \/ \E e \in ToRefresh : StorePrice(e) \/ PriceThrows(e)
  BY <1>1, <1>7 DEF BukkuFaults, Crash, FetchFails, PriceFails, StorePrice, PriceThrows, Throw,
     catalogueVars
<1> QED BY <1>3, <1>4, <1>5, <1>6, <1>7 DEF Next, Sync

\* Where prices of a row are owed, the tables may move on.
LEMMA OwedStays ==
  ASSUME IInv, PInv, RowsStay, PricesStay, NEW e \in Items, NEW p \in Products,
         run.refresh[e] = p, \A d \in Items : remote'[d] \in Versions /\ remote[d] <= remote'[d],
         run'.at \in {"SKU", "SAVE", "MAP"} /\ run'.row = p => run.at \in {"SKU", "SAVE", "MAP"} /\ run.row = p
  PROVE  OwedFor(e, p)'
<1>1. OwedFor(e, p) /\ product[p] \in Rows /\ remote[e] \in Versions
  BY DEF PInv, OwedAsMapped, IInv, Typed
<1>2. product'[p].life # "NONE"
  BY <1>1 DEF OwedFor, PricesStay
<1>3. ASSUME product'[p].life = "LIVE"
      PROVE  p \in remapped' \/ (reference'[p] = e /\ product'[p].hash <= remote'[e])
  <2>1. product[p].life = "LIVE" /\ product'[p].hash = product[p].hash
    BY <1>1, <1>3 DEF OwedFor, PricesStay, Live
  <2>2. p \in remapped \/ (reference[p] = e /\ product[p].hash <= remote[e])
    BY <1>1, <2>1 DEF OwedFor
  <2>3. CASE p \in remapped
    BY <2>3 DEF RowsStay
  <2>4. CASE reference[p] = e /\ product[p].hash <= remote[e]
    <3>1. reference'[p] = e \/ p \in remapped'
      BY <2>1, <2>4, ItemDomain DEF RowsStay, Live
    <3>2. product[p].hash \in Nat /\ remote[e] \in Nat /\ remote'[e] \in Nat
      BY <1>1, CatalogueBounds DEF Rows, Versions
    <3> QED BY <2>1, <2>4, <3>1, <3>2
  <2> QED BY <2>2, <2>3, <2>4
<1>4. run'.at \in {"SKU", "SAVE", "MAP"} /\ run'.row = p => p \in remapped'
  BY <1>1 DEF OwedFor, RowsStay
<1> QED BY <1>2, <1>3, <1>4 DEF OwedFor

\* What excuses a row goes on to, while the run owes it.
LEMMA ExcusedStays ==
  ASSUME IInv, RowsStay, PricesStay, NEW p \in Live(product'),
         Excused(p) \/ product[p].life = "NONE", missed \subseteq missed' \cup {0},
         \A e \in Items : run.refresh[e] = p => run'.refresh[e] = p \/ p \in missed'
  PROVE  Excused(p)'
<1>1. p \in Products /\ product'[p].life = "LIVE" /\ product[p] \in Rows /\ p # 0
  BY Zero DEF Live, IInv, Typed
<1>2. CASE product[p].life = "NONE"
  BY <1>1, <1>2 DEF PricesStay, Excused
<1>3. CASE product[p].life # "NONE"
  <2>1. product'[p].hash = product[p].hash /\ product'[p].price \in {product[p].price, Edited}
    BY <1>1, <1>3 DEF PricesStay
  <2>2. CASE product[p].price >= product[p].hash
    <3>1. product[p].hash \in 0 .. MaxVersion
      BY <1>1 DEF Rows
    <3>2. Edited >= product[p].hash
      BY <3>1, CatalogueBounds DEF Edited
    <3> QED BY <2>1, <2>2, <3>2 DEF Excused
  <2>3. CASE \E e \in Items : <<e, product[p].hash>> \in Archives
    BY <2>1, <2>3 DEF Excused
  <2>4. CASE p \in missed \cup remapped
    BY <1>1, <2>4 DEF Excused, RowsStay
  <2>5. CASE \E e \in Items : run.refresh[e] = p
    BY <2>5 DEF Excused
  <2> QED BY <1>3, <2>2, <2>3, <2>4, <2>5 DEF Excused
<1> QED BY <1>2, <1>3

\* A step of the tables, or of Bukku, while the run stays.
LEMMA TablesKeepPrices ==
  ASSUME IInv, PInv, RowsStay, PricesStay, RunStays, missed' = missed,
         \A e \in Items : /\ remote'[e] \in Versions /\ remote[e] <= remote'[e]
                          /\ remote'[e] <= versions'
  PROVE  PInv'
<1>1. PricesNoted'
  <2> SUFFICES ASSUME NEW p \in Live(product')
               PROVE  Excused(p)' \/ (run'.at = "MAP" /\ run'.row = p /\ run'.stale)
    BY DEF PricesNoted
  <2>1. p \in Live(product) \/ product[p].life = "NONE"
    BY DEF PricesStay, Live
  <2>2. Excused(p) \/ product[p].life = "NONE" \/ (run.at = "MAP" /\ run.row = p /\ run.stale)
    BY <2>1 DEF PInv, PricesNoted
  <2> QED BY <2>2, ExcusedStays DEF RunStays
<1>2. OwedInTurn'
  BY DEF OwedInTurn, PInv, RunStays
<1>3. SavesFetched'
  <2>1. run.row \in Products => product'[run.row].life # "NONE"
    BY DEF PInv, SavesFetched, PricesStay
  <2>2. ASSUME run.row \in Live(product')
        PROVE  run.row \in Live(product) /\ product'[run.row].hash = product[run.row].hash
    BY <2>2 DEF PInv, SavesFetched, PricesStay, Live
  <2> QED BY <2>1, <2>2 DEF PInv, SavesFetched, RunStays
<1>4. OwedAsMapped'
  BY OwedStays DEF OwedAsMapped, RunStays
<1>5. VersionsRise'
  <2> SUFFICES ASSUME NEW e \in Items PROVE run.list[e] <= remote'[e] /\ remote'[e] <= versions'
    BY DEF VersionsRise, RunStays
  <2>1. run.list[e] \in Nat /\ remote[e] \in Nat /\ remote'[e] \in Nat
    BY CatalogueBounds DEF IInv, Typed, Runs, Versions
  <2> QED BY <2>1 DEF PInv, VersionsRise
<1> QED BY <1>1, <1>2, <1>3, <1>4, <1>5 DEF PInv

\* A run that owes nothing, after one that left what it owed to be missed.
LEMMA NothingOwed ==
  ASSUME IInv, PInv, UNCHANGED <<product, remapped, remote, versions>>, missed \subseteq missed',
         \A e \in Items : run.refresh[e] # 0 => run.refresh[e] \in missed',
         run.at = "MAP" /\ run.stale => run.row \in missed',
         \A e \in Items : run'.refresh[e] = 0 /\ run'.list[e] <= remote[e],
         run'.at \notin {"SKU", "SAVE", "MAP"}, run'.row = 0, run'.todo \subseteq Items
  PROVE  PInv'
<1>1. PricesNoted'
  <2> SUFFICES ASSUME NEW p \in Live(product) PROVE Excused(p)'
    BY DEF PricesNoted
  <2>1. p # 0
    BY Zero DEF Live
  <2>2. Excused(p) \/ p \in missed'
    BY DEF PInv, PricesNoted
  <2> QED BY <2>1, <2>2 DEF Excused
<1>2. OwedInTurn' /\ SavesFetched' /\ OwedAsMapped' /\ VersionsRise'
  <2>1. \A e \in run'.todo : run'.refresh[e] = 0
    OBVIOUS
  <2> QED BY Zero, <2>1 DEF OwedInTurn, SavesFetched, OwedAsMapped, VersionsRise, PInv, Live
<1> QED BY <1>1, <1>2 DEF PInv

LEMMA PricesBegin ==
  ASSUME IInv, PInv, BeginRun
  PROVE  PInv'
<1>1. run.at = "IDLE" /\ run' = Fetched
      /\ UNCHANGED <<product, remapped, remote, versions, missed>>
  BY DEF BeginRun, catalogueVars
<1>2. /\ \A e \in Items : Fetched.refresh[e] = 0 /\ Fetched.list[e] <= remote[e]
      /\ Fetched.at \notin {"SKU", "SAVE", "MAP"} /\ Fetched.row = 0 /\ Fetched.todo \subseteq Items
  <2>1. \A e \in Items : remote[e] \in Nat
    BY CatalogueBounds DEF IInv, Typed, Versions
  <2>2. CASE NotChanged
    BY <2>1, <2>2 DEF Fetched, Idle
  <2>3. CASE ~NotChanged
    BY <2>1, <2>3 DEF Fetched, Idle
  <2> QED BY <2>2, <2>3
<1>3. \A e \in Items : run.refresh[e] = 0
  BY <1>1 DEF PInv, OwedInTurn
<1> QED BY <1>1, <1>2, <1>3, NothingOwed

LEMMA PricesEnd ==
  ASSUME IInv, PInv, RunEnds, UNCHANGED <<product, remapped, remote, versions>>
  PROVE  PInv'
<1>1. /\ run' = Idle /\ missed' = missed \cup Owing
      /\ \A e \in Items : Idle.refresh[e] = 0 /\ Idle.list[e] = 0
      /\ Idle.at = "IDLE" /\ Idle.row = 0 /\ Idle.todo = {}
  BY DEF RunEnds, Idle
<1>2. \A e \in Items : run.refresh[e] # 0 => run.refresh[e] \in Owing
  BY DEF Owing, ToRefresh
<1>3. run.at = "MAP" /\ run.stale => run.row \in Owing
  BY DEF Owing
<1>4. \A e \in Items : 0 <= remote[e]
  BY CatalogueBounds DEF IInv, Typed, Versions
<1> QED BY <1>1, <1>2, <1>3, <1>4, NothingOwed

LEMMA TablesSame ==
  ASSUME IInv, PInv, UNCHANGED <<product, reference, remapped, freed, remote, versions>>
  PROVE  /\ RowsStay /\ PricesStay
         /\ \A e \in Items : /\ remote'[e] \in Versions /\ remote[e] <= remote'[e]
                             /\ remote'[e] <= versions'
<1>1. PricesStay
  BY DEF PricesStay, Live, IInv, Typed, Rows
<1>2. \A e \in Items : remote[e] \in Versions /\ remote[e] \in Nat
  BY CatalogueBounds DEF IInv, Typed, Versions
<1> QED BY <1>1, <1>2, Unchanged DEF PInv, VersionsRise

LEMMA SkipStays ==
  ASSUME IInv, NEW e, run.at = "ITEMS", run' = Skip(e)
  PROVE  RunStays
BY DEF Skip, RunStays, IInv, Typed, Runs

LEMMA PricesSkip ==
  ASSUME IInv, PInv, NEW e \in Items, run.at = "ITEMS", SkipBundle(e)
  PROVE  PInv' /\ RowsStay
<1>1. \A p \in Products :
        LET row == [product[p] EXCEPT !.active = FALSE]
        IN  /\ row.life = product[p].life /\ row.hash = product[p].hash
            /\ row.price = product[p].price /\ row.sku = product[p].sku
            /\ row.origin = product[p].origin
  BY DEF IInv, Typed, Rows
<1>2. \A p \in Products : /\ product'[p].life = product[p].life /\ product'[p].hash = product[p].hash
                          /\ product'[p].price = product[p].price /\ product'[p].sku = product[p].sku
                          /\ product'[p].origin = product[p].origin
  BY <1>1 DEF SkipBundle
<1>3. UNCHANGED <<reference, remapped, freed, remote, versions, missed>> /\ run' = Skip(e)
  BY DEF SkipBundle
<1>4. RowsStay /\ PricesStay
  BY <1>2, <1>3 DEF RowsStay, PricesStay, Live
<1>5. \A d \in Items : /\ remote'[d] \in Versions /\ remote[d] <= remote'[d]
                       /\ remote'[d] <= versions'
  BY <1>3, CatalogueBounds DEF IInv, Typed, Versions, PInv, VersionsRise
<1> QED BY <1>3, <1>4, <1>5, SkipStays, TablesKeepPrices

\* The row that is chosen is mapped to the item or to none, so that no other item
\* is owed its prices.
LEMMA PricesChoose ==
  ASSUME IInv, PInv, NEW e \in run.todo, run.at = "ITEMS", ChooseProduct(e)
  PROVE  PInv'
<1>1. e \in Items /\ run.refresh[e] = 0
  BY DEF IInv, Typed, Runs, PInv, OwedInTurn
<1>2. UNCHANGED <<product, reference, remapped, freed, remote, versions, missed>>
  BY DEF ChooseProduct, catalogueVars
<1>3. CASE run' = Skip(e)
  BY <1>2, <1>3, TablesSame, SkipStays, TablesKeepPrices
<1>4. ASSUME NEW p \in 0 .. MaxProducts,
             p # 0 => p \in ProductFor(e) /\ p \in Live(product) /\ p \in Products,
             run'.at = (IF p = 0 THEN "SKU" ELSE "SAVE"), run'.item = e, run'.row = p,
             run'.stale = IsStale(p, e), run'.list = run.list, run'.refresh = run.refresh,
             run'.todo = run.todo
      PROVE  PInv'
  <2>1. /\ run'.at \in {"SKU", "SAVE"} /\ run'.item = e /\ run'.row = p /\ run'.stale = IsStale(p, e)
        /\ run'.list = run.list /\ run'.refresh = run.refresh /\ run'.todo = run.todo
    BY <1>4
  <2>2. p = 0 \/ (p \in Live(product) /\ p \in Products /\ reference[p] \in {None, e})
    <3>1. \A q \in ProductFor(e) : reference[q] \in {None, e}
      BY DEF ProductFor, Mapped
    <3> QED BY <1>4, <3>1
  <2>3. PricesNoted'
    BY <1>2, <2>1 DEF PInv, PricesNoted, Excused
  <2>4. OwedInTurn'
    BY <2>1 DEF PInv, OwedInTurn
  <2>5. SavesFetched'
    BY <1>2, <2>1, <2>2, Zero DEF SavesFetched, IsStale, Live
  <2>6. OwedAsMapped'
    <3> SUFFICES ASSUME NEW d \in Items, NEW q \in Products, run.refresh[d] = q
                 PROVE  OwedFor(d, q)'
      BY <2>1 DEF OwedAsMapped
    <3>1. OwedFor(d, q)
      BY DEF PInv, OwedAsMapped
    <3>2. ASSUME q = p PROVE q \in remapped
      <4>1. d # e /\ d # None
        BY <1>1, Zero, ItemDomain
      <4>2. q \in Live(product) /\ reference[q] \in {None, e}
        BY <2>2, <3>2, Zero
      <4> QED BY <3>1, <4>1, <4>2 DEF OwedFor, Live
    <3> QED BY <1>2, <2>1, <3>1, <3>2 DEF OwedFor
  <2>7. VersionsRise'
    BY <1>2, <2>1 DEF PInv, VersionsRise
  <2> QED BY <2>3, <2>4, <2>5, <2>6, <2>7 DEF PInv
<1> QED BY <1>1, <1>3, <1>4, ChosenRun

LEMMA PricesChooseSku ==
  ASSUME IInv, PInv, ChooseSku
  PROVE  PInv'
<1>1. UNCHANGED <<product, reference, remapped, remote, versions, missed>>
  BY DEF ChooseSku, catalogueVars
<1>2. /\ run.at = "SKU" /\ run'.at = "SAVE" /\ run'.item = run.item /\ run'.row = run.row
      /\ run'.stale = run.stale /\ run'.list = run.list /\ run'.refresh = run.refresh
      /\ run'.todo = run.todo
  BY ChosenSku
<1>3. PricesNoted'
  BY <1>1, <1>2 DEF PInv, PricesNoted, Excused
<1>4. OwedInTurn' /\ SavesFetched'
  BY <1>1, <1>2 DEF PInv, OwedInTurn, SavesFetched, Live
<1>5. OwedAsMapped' /\ VersionsRise'
  BY <1>1, <1>2 DEF PInv, OwedAsMapped, OwedFor, VersionsRise
<1> QED BY <1>3, <1>4, <1>5 DEF PInv

\* Row q gets the name of the version fetched.
LEMMA PricesSave ==
  ASSUME IInv, PInv, run.at = "SAVE", NEW q \in Products, NEW row \in Rows, row.life = "LIVE",
         product' = [product EXCEPT ![q] = row], row.hash = run.list[run.item],
         \/ run.row = q /\ product[q].life = "LIVE" /\ row.price = product[q].price
         \/ run.row = 0 /\ product[q].life = "NONE",
         run' = [run EXCEPT !.at = "MAP", !.row = q],
         UNCHANGED <<reference, remapped, remote, versions, missed>>
  PROVE  PInv'
<1>1. /\ product'[q] = row /\ \A p \in Products \ {q} : product'[p] = product[p]
      /\ run'.at = "MAP" /\ run'.row = q /\ run'.item = run.item /\ run'.stale = run.stale
      /\ run'.list = run.list /\ run'.refresh = run.refresh /\ run'.todo = run.todo
  BY DEF IInv, Typed, Runs
<1>2. PricesNoted'
  <2> SUFFICES ASSUME NEW p \in Live(product') PROVE Excused(p)' \/ (p = q /\ run.stale)
    BY <1>1 DEF PricesNoted
  <2>1. CASE p # q
    BY <1>1, <2>1 DEF PInv, PricesNoted, Excused, Live
  <2>2. CASE p = q /\ ~run.stale
    <3>1. q \in Live(product) /\ row.hash = product[q].hash /\ row.price = product[q].price
      BY <2>2 DEF PInv, SavesFetched, Live
    <3>2. Excused(q)
      BY <3>1 DEF PInv, PricesNoted
    <3> QED BY <1>1, <2>2, <3>1, <3>2 DEF Excused
  <2> QED BY <2>1, <2>2
<1>3. OwedInTurn'
  BY <1>1 DEF PInv, OwedInTurn
<1>4. SavesFetched'
  BY <1>1, Zero DEF SavesFetched, Live
<1>5. OwedAsMapped'
  <2> SUFFICES ASSUME NEW e \in Items, NEW p \in Products, run.refresh[e] = p
               PROVE  OwedFor(e, p)'
    BY <1>1 DEF OwedAsMapped
  <2>1. OwedFor(e, p)
    BY DEF PInv, OwedAsMapped
  <2>2. p = q => p \in remapped
    BY <2>1 DEF OwedFor
  <2> QED BY <1>1, <2>1, <2>2 DEF OwedFor
<1>6. VersionsRise'
  BY <1>1 DEF PInv, VersionsRise
<1> QED BY <1>2, <1>3, <1>4, <1>5, <1>6 DEF PInv

LEMMA UpdateIsSave ==
  ASSUME IInv, SaveUpdate
  PROVE  LET row == Imported(product[run.row], run.item)
         IN  /\ run.row \in Products /\ product[run.row].life = "LIVE" /\ row \in Rows
             /\ row.life = "LIVE" /\ row.price = product[run.row].price
             /\ row.hash = run.list[run.item] /\ row.origin = product[run.row].origin
             /\ product' = [product EXCEPT ![run.row] = row]
             /\ run' = [run EXCEPT !.at = "MAP", !.row = run.row]
<1>1. run.row \in Products /\ product[run.row] \in Rows /\ run.item \in Items
      /\ product[run.row].life = "LIVE"
  BY DEF SaveUpdate, Live, IInv, Typed, Saving
<1>2. Imported(product[run.row], run.item) \in Rows
  BY <1>1, ImportedIsRow
<1>3. run' = [run EXCEPT !.at = "MAP", !.row = run.row]
  BY DEF SaveUpdate, IInv, Typed, Runs
<1> QED BY <1>1, <1>2, <1>3 DEF SaveUpdate, Imported, Rows

LEMMA CreateIsSave ==
  ASSUME IInv, NEW q \in Products, SaveCreate(q)
  PROVE  LET row == Imported(Created(run.item, run.sku), run.item)
         IN  /\ product[q].life = "NONE" /\ row \in Rows /\ row.life = "LIVE" /\ row.price = 0
             /\ row.hash = run.list[run.item] /\ row.sku = run.sku
             /\ row.origin = run.item
             /\ product' = [product EXCEPT ![q] = row]
<1>1. run.item \in Items
  BY DEF SaveCreate, IInv, Saving
<1>2. run.sku \in Skus \cup Items \cup {None}
  BY DEF IInv, Typed, Runs
<1>3. Created(run.item, run.sku) \in Rows
  BY <1>1, <1>2, CreatedIsRow, Origins
<1>4. Imported(Created(run.item, run.sku), run.item) \in Rows
  BY <1>1, <1>3, ImportedIsRow
<1> QED BY <1>4 DEF SaveCreate, NextRow, NoProduct, Created, Imported

\* The saved row is mapped, and its prices are owed if its name is new and it is
\* for sale.
LEMMA PricesMap ==
  ASSUME IInv, ReferenceTyped, PInv, MapItem, run.row \in Live(product)
  PROVE  PInv'
<1>1. /\ run.at = "MAP" /\ run.item \in Items /\ run.item \in run.todo
      /\ run.refresh[run.item] = 0 /\ product[run.row].hash = run.list[run.item]
      /\ run.row \in Products /\ run.refresh \in [Items -> 0 .. MaxProducts]
  BY DEF MapItem, IInv, Typed, Runs, Saving, PInv, OwedInTurn, SavesFetched, Live
<1> SUFFICES ASSUME NEW q \in Products, q = run.row, NEW e \in Items, e = run.item PROVE PInv'
  BY <1>1
<1> DEFINE owed == IF run.stale /\ OnSale(e) THEN q ELSE 0
<1>2. owed \in {q, 0} /\ (run.stale /\ OnSale(e) => owed = q)
  OBVIOUS
<1>3. /\ run' = [Skip(e) EXCEPT !.at = "ITEMS", !.item = None, !.row = 0, !.sku = None,
                                !.stale = FALSE, !.refresh[e] = owed]
      /\ UNCHANGED <<product, remapped, remote, versions, missed>>
      /\ reference' = [reference EXCEPT ![q] = e]
  BY DEF MapItem
<1> HIDE DEF owed
<1>4. /\ run'.at = "ITEMS" /\ run'.row = 0 /\ run'.list = run.list
      /\ run'.todo = run.todo \ {e} /\ run'.refresh = [run.refresh EXCEPT ![e] = owed]
  BY <1>3 DEF Skip, IInv, Typed, Runs
<1>5. run'.refresh[e] = owed /\ \A d \in Items \ {e} : run'.refresh[d] = run.refresh[d]
  BY <1>1, <1>4
<1>6. PricesNoted'
  <2> SUFFICES ASSUME NEW p \in Live(product) PROVE Excused(p)'
    BY <1>3 DEF PricesNoted
  <2>1. p # 0
    BY Zero DEF Live
  <2>2. CASE Excused(p)
    BY <1>1, <1>3, <1>5, <2>1, <2>2 DEF Excused
  <2>3. CASE p = q /\ run.stale /\ OnSale(e)
    BY <1>2, <1>5, <2>3 DEF Excused
  <2>4. CASE p = q /\ ~OnSale(e)
    BY <1>1, <1>3, <2>4 DEF Excused, OnSale
  <2> QED BY <2>2, <2>3, <2>4 DEF PInv, PricesNoted
<1>7. OwedInTurn'
  BY <1>4, <1>5 DEF PInv, OwedInTurn, IInv, Typed, Runs
<1>8. SavesFetched'
  BY <1>3, <1>4, Zero DEF SavesFetched, Live
<1>9. OwedAsMapped'
  <2> SUFFICES ASSUME NEW d \in Items, NEW p \in Products, run'.refresh[d] = p
               PROVE  OwedFor(d, p)'
    BY DEF OwedAsMapped
  <2>1. \A r \in Products : reference'[r] = IF r = q THEN e ELSE reference[r]
    BY <1>3 DEF ReferenceTyped
  <2>2. CASE d = e
    <3>1. p = q
      BY <1>2, <1>5, <2>2, Zero
    <3>2. product[q].hash <= remote[e] /\ product[q].life = "LIVE"
      BY <1>1 DEF PInv, VersionsRise, Live
    <3> QED BY <1>3, <1>4, <2>1, <2>2, <3>1, <3>2 DEF OwedFor
  <2>3. CASE d # e
    <3>1. OwedFor(d, p)
      BY <1>5, <2>3 DEF PInv, OwedAsMapped
    <3>2. p = q => p \in remapped
      BY <1>1, <3>1 DEF OwedFor
    <3> QED BY <1>3, <1>4, <2>1, <3>1, <3>2 DEF OwedFor
  <2> QED BY <2>2, <2>3
<1>10. VersionsRise'
  BY <1>3, <1>4 DEF PInv, VersionsRise
<1> QED BY <1>6, <1>7, <1>8, <1>9, <1>10 DEF PInv

\* The prices of e are stored or given up.
LEMMA PricesPaid ==
  ASSUME IInv, PInv, run.at = "ITEMS", NEW e \in Items, NEW q \in 0 .. MaxProducts,
         q = run.refresh[e],
         run' = [run EXCEPT !.refresh[e] = 0],
         UNCHANGED <<reference, remapped, freed, remote, versions>>,
         \/ product' = product /\ missed' = missed \cup {q}
         \/ /\ q \in Live(product) /\ missed' = missed \ {q}
            /\ product' = [product EXCEPT ![q].price = remote[e]]
  PROVE  PInv' /\ RowsStay
<1>1. /\ run'.at = "ITEMS" /\ run'.row = run.row /\ run'.list = run.list /\ run'.todo = run.todo
      /\ run'.refresh = [run.refresh EXCEPT ![e] = 0] /\ run.refresh \in [Items -> 0 .. MaxProducts]
  BY DEF IInv, Typed, Runs
<1>2. run'.refresh[e] = 0 /\ \A d \in Items \ {e} : run'.refresh[d] = run.refresh[d]
  BY <1>1
<1>3. \A p \in Products :
        /\ product'[p].life = product[p].life /\ product'[p].hash = product[p].hash
        /\ product'[p].sku = product[p].sku /\ product'[p].origin = product[p].origin
        /\ p # q => product'[p].price = product[p].price
  <2>1. CASE product' = product
    BY <2>1
  <2>2. CASE q \in Live(product) /\ product' = [product EXCEPT ![q].price = remote[e]]
    <3> DEFINE row == [product[q] EXCEPT !.price = remote[e]]
    <3>1. /\ row.life = product[q].life /\ row.hash = product[q].hash
          /\ row.sku = product[q].sku /\ row.origin = product[q].origin
      BY <2>2 DEF IInv, Typed, Rows, Live
    <3>2. product' = [product EXCEPT ![q] = row]
      BY <2>2
    <3> HIDE DEF row
    <3> QED BY <3>1, <3>2 DEF IInv, Typed
  <2> QED BY <2>1, <2>2
<1>4. PricesNoted'
  <2> SUFFICES ASSUME NEW p \in Live(product') PROVE Excused(p)'
    BY DEF PricesNoted
  <2>1. p \in Products /\ p # 0 /\ p \in Live(product) /\ Excused(p)
    BY <1>3, Zero DEF Live, PInv, PricesNoted
  <2>2. CASE p # q
    BY <1>2, <1>3, <2>1, <2>2 DEF Excused
  <2>3. CASE p = q /\ missed' = missed \cup {q}
    BY <2>3 DEF Excused
  <2>4. CASE p = q /\ q \in Live(product) /\ product' = [product EXCEPT ![q].price = remote[e]]
    <3>1. p \in remapped \/ product[p].hash <= remote[e]
      BY <2>1, <2>4 DEF PInv, OwedAsMapped, OwedFor, Live
    <3>2. product[p].hash \in Nat /\ remote[e] \in Nat
      BY <2>1, CatalogueBounds DEF IInv, Typed, Rows, Versions
    <3>3. product'[p].price = remote[e]
      BY <2>1, <2>4 DEF IInv, Typed, Rows
    <3> QED BY <1>3, <2>1, <3>1, <3>2, <3>3 DEF Excused
  <2> QED BY <2>2, <2>3, <2>4
<1>5. OwedInTurn'
  BY <1>1, <1>2 DEF PInv, OwedInTurn, IInv, Typed, Runs
<1>6. SavesFetched'
  BY <1>1, <1>3, Zero DEF PInv, SavesFetched, Live
<1>7. OwedAsMapped'
  <2> SUFFICES ASSUME NEW d \in Items, NEW p \in Products, run'.refresh[d] = p
               PROVE  OwedFor(d, p)'
    BY DEF OwedAsMapped
  <2>1. run.refresh[d] = p
    BY <1>2, Zero
  <2> QED BY <1>1, <1>3, <2>1 DEF PInv, OwedAsMapped, OwedFor
<1>8. VersionsRise'
  BY <1>1 DEF PInv, VersionsRise
<1>9. RowsStay
  BY <1>3 DEF RowsStay, Live
<1> QED BY <1>4, <1>5, <1>6, <1>7, <1>8, <1>9 DEF PInv

LEMMA StoreIsPaid ==
  ASSUME IInv, PInv, NEW e \in Items, StorePrice(e)
  PROVE  PInv' /\ RowsStay
<1>1. /\ run.at = "ITEMS" /\ run.refresh[e] \in Live(product)
      /\ product' = [product EXCEPT ![run.refresh[e]].price = remote[e]]
      /\ run' = [run EXCEPT !.refresh[e] = 0] /\ missed' = missed \ {run.refresh[e]}
      /\ UNCHANGED <<reference, remapped, freed, remote, versions>>
  BY DEF StorePrice, AtPrices, PricesOf
<1>2. run.refresh[e] \in 0 .. MaxProducts
  BY DEF IInv, Typed, Runs
<1> QED BY <1>1, <1>2, PricesPaid

LEMMA FailIsPaid ==
  ASSUME IInv, PInv, NEW e \in Items, PriceFails(e)
  PROVE  PInv'
<1>1. /\ run.at = "ITEMS" /\ product' = product
      /\ run' = [run EXCEPT !.refresh[e] = 0] /\ missed' = missed \cup {run.refresh[e]}
      /\ UNCHANGED <<reference, remapped, freed, remote, versions>>
  BY DEF PriceFails, AtPrices, catalogueVars
<1>2. run.refresh[e] \in 0 .. MaxProducts
  BY DEF IInv, Typed, Runs
<1> QED BY <1>1, <1>2, PricesPaid

\* Nothing is owed from here on.
LEMMA PricesRest ==
  ASSUME IInv, PInv, RecordVersion \/ ImportContact \/ MapContact
  PROVE  PInv'
<1>1. UNCHANGED <<product, reference, remapped, remote, versions, missed>>
  BY DEF RecordVersion, ImportContact, MapContact, catalogueVars
<1>2. run.at \notin {"SKU", "SAVE", "MAP"} /\ \A e \in Items : run.refresh[e] = 0
  BY DEF RecordVersion, ImportContact, MapContact, ToRefresh, PInv, OwedInTurn
<1>3. CASE run' = Idle
  <2>1. run.at # "MAP" /\ missed \subseteq missed'
    BY <1>1, <1>2
  <2>2. \A e \in Items : 0 <= remote[e] /\ Idle.list[e] = 0 /\ Idle.refresh[e] = 0
    BY CatalogueBounds DEF IInv, Typed, Versions, Idle
  <2>3. Idle.at = "IDLE" /\ Idle.row = 0 /\ Idle.todo = {}
    BY DEF Idle
  <2> QED BY <1>1, <1>2, <1>3, <2>1, <2>2, <2>3, NothingOwed
<1>4. ASSUME NEW to \in {"CONTACTS", "CUSTOMER"}, run' = [run EXCEPT !.at = to]
      PROVE  PInv'
  <2>1. /\ run'.at = to /\ run'.row = run.row /\ run'.refresh = run.refresh
        /\ run'.list = run.list /\ run'.todo = run.todo
    BY <1>4 DEF IInv, Typed, Runs
  <2>2. PricesNoted'
    BY <1>1, <1>2, <2>1 DEF PInv, PricesNoted, Excused
  <2>3. OwedInTurn' /\ VersionsRise'
    BY <1>1, <1>2, <2>1 DEF PInv, OwedInTurn, VersionsRise, IInv, Typed, Runs
  <2>4. SavesFetched' /\ OwedAsMapped'
    BY <1>1, <1>2, <2>1, Zero DEF PInv, SavesFetched, OwedAsMapped
  <2> QED BY <2>2, <2>3, <2>4 DEF PInv
<1> QED BY <1>3, <1>4 DEF RecordVersion, ImportContact, MapContact

LEMMA PricesStart == Init => PInv /\ ReferenceTyped
<1> SUFFICES ASSUME Init PROVE PInv /\ ReferenceTyped
  OBVIOUS
<1>1. /\ \A p \in Products : product[p].life = "NONE"
      /\ run = Idle /\ remote = [e \in Items |-> 0] /\ versions = 0
      /\ reference = [p \in Products |-> None]
  BY DEF Init, CatalogueInit, BukkuInit, NoProduct
<1>2. /\ Idle.at = "IDLE" /\ Idle.row = 0 /\ Idle.todo = {}
      /\ \A e \in Items : Idle.refresh[e] = 0 /\ Idle.list[e] = 0
  BY DEF Idle
<1>3. PricesNoted /\ SavesFetched
  BY <1>1, <1>2, Zero DEF PricesNoted, SavesFetched, Live
<1>4. OwedInTurn /\ OwedAsMapped /\ VersionsRise
  BY <1>1, <1>2, Zero DEF OwedInTurn, OwedAsMapped, VersionsRise
<1> QED BY <1>1, <1>3, <1>4 DEF PInv, ReferenceTyped

LEMMA PricesStep ==
  ASSUME IInv, ReferenceTyped, PInv, [Next]_vars
  PROVE  PInv'
<1>1. CASE UNCHANGED vars
  BY <1>1, TablesSame, SameRun, TablesKeepPrices DEF vars, catalogueVars, bukkuVars
<1>2. CASE Manage /\ UNCHANGED bukkuVars
  <2>1. \A e \in Items : /\ remote'[e] \in Versions /\ remote[e] <= remote'[e]
                         /\ remote'[e] <= versions'
    BY <1>2, CatalogueBounds DEF bukkuVars, IInv, Typed, Versions, PInv, VersionsRise
  <2> QED BY <1>2, <2>1, ManageStays, SameRun, TablesKeepPrices DEF bukkuVars
<1>3. ASSUME NEW e \in Items, Publish(e) PROVE PInv'
  <2>1. /\ remote' = [remote EXCEPT ![e] = versions + 1] /\ versions' = versions + 1
        /\ versions + 1 <= MaxVersion /\ versions \in Nat
        /\ UNCHANGED <<product, reference, remapped, freed, run, missed>>
    BY <1>3, CatalogueBounds DEF Publish, catalogueVars, IInv, Typed, Versions
  <2>2. \A d \in Items : /\ remote'[d] \in Versions /\ remote[d] <= remote'[d]
                         /\ remote'[d] <= versions'
    <3>1. \A d \in Items : remote[d] \in 0 .. MaxVersion /\ remote[d] <= versions
      BY DEF IInv, Typed, Versions, PInv, VersionsRise
    <3>2. remote \in [Items -> 0 .. MaxVersion]
      BY DEF IInv, Typed, Versions
    <3>3. \A d \in Items : remote'[d] = IF d = e THEN versions + 1 ELSE remote[d]
      BY <2>1, <3>2
    <3> QED BY <2>1, <3>1, <3>3, CatalogueBounds DEF Versions
  <2>3. PricesStay
    BY <2>1 DEF PricesStay, Live, IInv, Typed, Rows
  <2> QED BY <2>1, <2>2, <2>3, Unchanged, SameRun, TablesKeepPrices
<1>4. CASE BeginRun
  BY <1>4, PricesBegin
<1>5. CASE RecordVersion \/ ImportContact \/ MapContact
  BY <1>5, PricesRest
<1>6. ASSUME NEW e \in ToRefresh, StorePrice(e) \/ PriceThrows(e) \/ PriceFails(e) PROVE PInv'
  <2>1. e \in Items
    BY DEF ToRefresh
  <2>2. CASE PriceThrows(e)
    BY <2>2, PricesEnd DEF PriceThrows, Throw, catalogueVars
  <2> QED BY <1>6, <2>1, <2>2, StoreIsPaid, FailIsPaid
<1>7. CASE Crash \/ FetchFails \/ SaveThrows \/ MapThrows \/ \E e \in run.todo : ChooseThrows(e)
  BY <1>7, PricesEnd DEF Crash, FetchFails, SaveThrows, MapThrows, ChooseThrows, Throw, catalogueVars
<1>8. ASSUME NEW e \in run.todo, run.at = "ITEMS", SkipBundle(e) \/ ChooseProduct(e) PROVE PInv'
  <2>1. e \in Items
    BY DEF IInv, Typed, Runs
  <2> QED BY <1>8, <2>1, PricesSkip, PricesChoose
<1>9. CASE SaveUpdate
  BY <1>9, UpdateIsSave, PricesSave DEF SaveUpdate
<1>10. ASSUME NEW q \in Products, SaveCreate(q) PROVE PInv'
  BY <1>10, CreateIsSave, PricesSave DEF SaveCreate
<1>11. CASE MapItem
  <2>1. CASE run.row \in Live(product)
    BY <1>11, <2>1, PricesMap
  <2>2. CASE run.row \notin Live(product)
    BY <1>11, <2>2, PricesEnd DEF MapItem
  <2> QED BY <2>1, <2>2
<1>12. CASE ChooseSku
  BY <1>12, PricesChooseSku
<1> QED BY <1>1, <1>2, <1>3, <1>4, <1>5, <1>6, <1>7, <1>8, <1>9, <1>10, <1>11, <1>12
        DEF Next, Sync, ItemStep, BukkuFaults

\* A product whose prices are older than its name is one that a run still owes,
\* or noted as missed, or that a manager took from its item: whatever managers,
\* versions, faults and runs come in between (upsertCatalogueProduct,
\* importPrices).
THEOREM PricesAccountedFor == Spec => []StalePricesWereMissed
<1>1. Init => IInv /\ ReferenceTyped /\ PInv
  BY Start, PricesStart
<1>2. IInv /\ ReferenceTyped /\ PInv /\ [Next]_vars => IInv' /\ ReferenceTyped' /\ PInv'
  BY Step, ReferenceStep, PricesStep
<1>3. PInv => StalePricesWereMissed
  <2> SUFFICES ASSUME PInv, NEW p \in Live(product)
               PROVE  \/ product[p].price >= product[p].hash
                      \/ \E e \in Items : <<e, product[p].hash>> \in Archives
                      \/ p \in missed \cup {run.refresh[e] : e \in ToRefresh}
                                \cup {run.row} \cup remapped
    BY DEF StalePricesWereMissed
  <2>1. ASSUME NEW e \in Items, run.refresh[e] = p PROVE p \in {run.refresh[d] : d \in ToRefresh}
    BY <2>1, Zero DEF ToRefresh, Live
  <2> QED BY <2>1 DEF PInv, PricesNoted, Excused
<1> QED BY <1>1, <1>2, <1>3, PTL DEF Spec

-----------------------------------------------------------------------------
(* Rows.                                                                   *)

\* A product gave up a SKU that Bukku gives item e, or the one that replaces it.
Freed(e) == {SkuOf[e], e} \cap freed # {}

\* Why an item may have a second row: its first one was left without a reference,
\* and does not have its SKU or did not get it.
Doubled(e) == e \in cut /\ Freed(e)

OwnRows(e) == RowsOf(e) \ remapped

Owned(e) == WithSku(product, SkuOf[e]) # {}

\* A row without a reference is the one being saved or was left by a run.  It
\* has the SKU of its item, unless another product had it.
LeftBehind ==
  \A e \in Items : \A p \in OwnRows(e) : reference[p] = None =>
    /\ e \in cut \/ (run.at = "MAP" /\ run.item = e /\ run.row = p)
    /\ Freed(e) \/ product[p].sku = SkuOf[e] \/ (product[p].sku = e /\ Owned(e))

\* The row that a run is to create gets one of the item's SKUs.
SkuPicked ==
  run.at = "SAVE" /\ run.row = 0 =>
    Freed(run.item) \/ run.sku = SkuOf[run.item] \/ (run.sku = run.item /\ Owned(run.item))

\* A run that is about to create a row for an item has seen none but one of
\* another SKU, and would give the new row that one.
NoneChosen ==
  run.at \in {"SKU", "SAVE"} /\ run.row = 0 =>
    \A p \in OwnRows(run.item) :
      /\ run.item \in cut
      /\ \/ Freed(run.item)
         \/ /\ product[p].sku = run.item /\ Owned(run.item)
            /\ run.at = "SAVE" => run.sku = run.item

\* A run that saves a row of the item knows of no other.
OneChosen ==
  /\ run.at \in {"SKU", "SAVE", "MAP"} /\ run.row \in Live(product)
  /\ run.row \notin remapped /\ product[run.row].origin = run.item
  => \A q \in OwnRows(run.item) : q = run.row \/ Doubled(run.item)

OneOwnRow == \A e \in Items : \A p, q \in OwnRows(e) : p = q \/ Doubled(e)

RInv == LeftBehind /\ SkuPicked /\ NoneChosen /\ OneChosen /\ OneOwnRow

\* The contact has no customer, or one with a reference, or is about to get it.
CInv ==
  /\ customers \in Nat
  /\ None \notin cut =>
       /\ run.at = "CUSTOMER" => customers = 1
       /\ run.at # "CUSTOMER" => customers = (IF contact = 0 THEN 0 ELSE 1)

\* What is known of an item's rows and SKUs stays so, or one of its SKUs is given up.
LEMMA RowsShrink ==
  ASSUME RowsStay, NEW e \in Items
  PROVE  /\ \A p \in OwnRows(e)' :
              /\ p \in OwnRows(e)
              /\ product[p].sku \in {SkuOf[e], e} => product'[p].sku = product[p].sku \/ Freed(e)'
              /\ reference'[p] = None => reference[p] = None
         /\ Freed(e) => Freed(e)'
         /\ Owned(e) => Owned(e)' \/ Freed(e)'
<1>0. None \notin {SkuOf[e], e}
  BY SkuDomain, ItemDomain
<1>1. ASSUME NEW p \in OwnRows(e)'
      PROVE  /\ p \in OwnRows(e)
             /\ product[p].sku \in {SkuOf[e], e} => product'[p].sku = product[p].sku \/ Freed(e)'
             /\ reference'[p] = None => reference[p] = None
  <2>1. /\ p \in Live(product') /\ p \in Products /\ product'[p].life = "LIVE"
        /\ product'[p].origin = e /\ reference'[p] \in {None, e} /\ p \notin remapped'
    BY <1>1 DEF OwnRows, RowsOf, Live
  <2>2. p \in Live(product)
    BY <2>1 DEF RowsStay
  <2>3. /\ product'[p].sku = product[p].sku \/ product[p].sku \in freed' \cup {None}
        /\ product[p].origin = e
    BY <2>1, <2>2 DEF RowsStay
  <2>4. reference'[p] = reference[p] \/ reference[p] = None
    BY <2>1, <2>2 DEF RowsStay
  <2>5. p \notin remapped
    BY <2>1 DEF RowsStay
  <2>6. p \in OwnRows(e) /\ (reference'[p] = None => reference[p] = None)
    BY <2>1, <2>2, <2>3, <2>4, <2>5 DEF OwnRows, RowsOf
  <2> QED BY <1>0, <2>3, <2>6 DEF Freed
<1>2. Freed(e) => Freed(e)'
  BY DEF Freed, RowsStay
<1>3. ASSUME Owned(e) PROVE Owned(e)' \/ Freed(e)'
  <2>1. PICK p \in Live(product) : product[p].sku = SkuOf[e]
    BY <1>3 DEF Owned, WithSku
  <2>2. /\ p \in Products
        /\ (product'[p].life = "LIVE" /\ product'[p].sku = SkuOf[e]) \/ SkuOf[e] \in freed'
    BY <1>0, <2>1 DEF RowsStay, Live
  <2> QED BY <2>2 DEF Owned, Freed, WithSku, Live
<1> QED BY <1>1, <1>2, <1>3

\* A step that neither chooses, creates nor maps a row.
LEMMA RowsKeep ==
  ASSUME IInv, RInv, RowsStay, cut \subseteq cut',
         run'.at \in {"SKU", "SAVE"} => /\ run.at = run'.at /\ run'.row = run.row
                                       /\ run'.item = run.item /\ run'.sku = run.sku,
         run'.at = "MAP" =>
           run.at \in {"SKU", "SAVE", "MAP"} /\ run'.row = run.row /\ run'.item = run.item,
         run.at = "MAP" => run'.at = "MAP" \/ run.item \in cut'
  PROVE  RInv'
<1>1. \A e \in Items : Doubled(e) => Doubled(e)'
  BY RowsShrink DEF Doubled
<1>2. LeftBehind'
  <2> SUFFICES ASSUME NEW e \in Items, NEW p \in OwnRows(e)', reference'[p] = None
               PROVE  /\ e \in cut' \/ (run'.at = "MAP" /\ run'.item = e /\ run'.row = p)
                      /\ \/ Freed(e)' \/ product'[p].sku = SkuOf[e]
                         \/ product'[p].sku = e /\ Owned(e)'
    BY DEF LeftBehind
  <2>1. /\ p \in OwnRows(e) /\ reference[p] = None
        /\ product[p].sku \in {SkuOf[e], e} => product'[p].sku = product[p].sku \/ Freed(e)'
        /\ Freed(e) => Freed(e)'
        /\ Owned(e) => Owned(e)' \/ Freed(e)'
    BY RowsShrink
  <2>2. e \in cut' \/ (run'.at = "MAP" /\ run'.item = e /\ run'.row = p)
    BY <2>1 DEF RInv, LeftBehind
  <2>3. Freed(e) \/ product[p].sku = SkuOf[e] \/ (product[p].sku = e /\ Owned(e))
    BY <2>1 DEF RInv, LeftBehind
  <2> QED BY <2>1, <2>2, <2>3
<1>3. SkuPicked'
  <2> SUFFICES ASSUME run'.at = "SAVE", run'.row = 0, NEW e, e = run'.item
               PROVE  \/ Freed(e)' \/ run'.sku = SkuOf[e]
                      \/ run'.sku = e /\ Owned(e)'
    BY DEF SkuPicked
  <2>1. run.at = "SAVE" /\ run.row = 0 /\ run.item = e /\ run.sku = run'.sku /\ e \in Items
    BY DEF IInv, Saving
  <2>2. Freed(e) \/ run.sku = SkuOf[e] \/ (run.sku = e /\ Owned(e))
    BY <2>1 DEF RInv, SkuPicked
  <2>3. (Freed(e) => Freed(e)') /\ (Owned(e) => Owned(e)' \/ Freed(e)')
    BY <2>1, RowsShrink
  <2> QED BY <2>1, <2>2, <2>3
<1>4. NoneChosen'
  <2> SUFFICES ASSUME run'.at \in {"SKU", "SAVE"}, run'.row = 0, NEW e, e = run'.item,
                      NEW p \in OwnRows(e)'
               PROVE  /\ e \in cut'
                      /\ \/ Freed(e)'
                         \/ /\ product'[p].sku = e /\ Owned(e)'
                            /\ run'.at = "SAVE" => run'.sku = e
    BY DEF NoneChosen
  <2>1. /\ run.at = run'.at /\ run.row = 0 /\ run.item = e /\ run.sku = run'.sku
        /\ run.at \in {"SKU", "SAVE"} /\ e \in Items
    BY DEF IInv, Saving
  <2>2. /\ p \in OwnRows(e)
        /\ product[p].sku \in {SkuOf[e], e} => product'[p].sku = product[p].sku \/ Freed(e)'
        /\ (Freed(e) => Freed(e)') /\ (Owned(e) => Owned(e)' \/ Freed(e)')
    BY <2>1, RowsShrink
  <2>3. /\ e \in cut
        /\ \/ Freed(e)
           \/ product[p].sku = e /\ Owned(e) /\ (run.at = "SAVE" => run.sku = e)
    BY <2>1, <2>2 DEF RInv, NoneChosen
  <2> QED BY <2>1, <2>2, <2>3
<1>5. OneChosen'
  <2> SUFFICES ASSUME run'.at \in {"SKU", "SAVE", "MAP"}, NEW p \in Live(product'), p = run'.row,
                      p \notin remapped', NEW e, e = run'.item, product'[p].origin = e,
                      NEW q \in OwnRows(e)'
               PROVE  q = p \/ Doubled(e)'
    BY DEF OneChosen
  <2>1. run.at \in {"SKU", "SAVE", "MAP"} /\ p = run.row /\ e = run.item /\ e \in Items
    BY DEF IInv, Saving
  <2>2. p \in Live(product) /\ product[p].origin = e /\ p \notin remapped
    <3>1. product'[p].life = "LIVE"
      BY DEF Live
    <3> QED BY <2>1, <3>1 DEF RowsStay
  <2>3. q \in OwnRows(e)
    BY <2>1, RowsShrink
  <2>4. q = p \/ Doubled(e)
    BY <2>1, <2>2, <2>3 DEF RInv, OneChosen
  <2> QED BY <1>1, <2>1, <2>4
<1>6. OneOwnRow'
  BY <1>1, RowsShrink DEF RInv, OneOwnRow
<1> QED BY <1>2, <1>3, <1>4, <1>5, <1>6 DEF RInv

\* The row that is chosen is the only one known of the item, and a new one is
\* chosen only where no row is to be found by reference or SKU.
LEMMA RowsChoose ==
  ASSUME IInv, RInv, NEW e \in Items, run.at = "ITEMS", ChooseProduct(e)
  PROVE  RInv'
<1>1. UNCHANGED <<product, reference, remapped, freed, cut>>
  BY DEF ChooseProduct, catalogueVars
<1>2. CASE run' = Skip(e)
  BY <1>1, <1>2, Unchanged, SkipStays, RowsKeep DEF RunStays
<1>3. ASSUME NEW p \in 0 .. MaxProducts,
             p # 0 => p \in ProductFor(e) /\ p \in Live(product) /\ p \in Products,
             p = 0 => ProductFor(e) = {},
             run'.at = (IF p = 0 THEN "SKU" ELSE "SAVE"), run'.item = e, run'.row = p
      PROVE  RInv'
  <2>0. \A d : /\ OwnRows(d)' = OwnRows(d) /\ Freed(d)' = Freed(d) /\ Owned(d)' = Owned(d)
               /\ Doubled(d)' = Doubled(d)
    BY <1>1 DEF OwnRows, RowsOf, Live, Freed, Owned, WithSku, Doubled
  <2>1. LeftBehind' /\ OneOwnRow'
    BY <1>1, <1>3, <2>0 DEF RInv, LeftBehind, OneOwnRow
  <2>2. SkuPicked'
    BY <1>3 DEF SkuPicked
  <2>3. NoneChosen'
    <3> SUFFICES ASSUME p = 0, NEW q \in OwnRows(e)
                 PROVE  e \in cut /\ (Freed(e) \/ (product[q].sku = e /\ Owned(e)))
      BY <1>1, <1>3, <2>0 DEF NoneChosen
    <3>1. ProductFor(e) = {}
      BY <1>3
    <3>2. q \in Live(product) /\ q \in Products /\ reference[q] = None
      BY <3>1 DEF OwnRows, RowsOf, ProductFor, Mapped, Live
    <3>3. product[q].sku # SkuOf[e]
      BY <3>1, <3>2 DEF ProductFor, WithSku
    <3> QED BY <3>2, <3>3 DEF RInv, LeftBehind
  <2>4. OneChosen'
    <3> SUFFICES ASSUME p \in Live(product), p \notin remapped, product[p].origin = e,
                        NEW q \in OwnRows(e)
                 PROVE  q = p \/ Doubled(e)
      BY <1>1, <1>3, <2>0 DEF OneChosen, Live
    <3>1. reference[p] \in {None, e}
      BY <1>3, Zero DEF ProductFor, Mapped, Live
    <3> QED BY <3>1 DEF RInv, OneOwnRow, OwnRows, RowsOf
  <2> QED BY <2>1, <2>2, <2>3, <2>4 DEF RInv
<1> QED BY <1>2, <1>3, ChosenRun

LEMMA RowsChooseSku ==
  ASSUME IInv, RInv, ChooseSku
  PROVE  RInv'
<1>1. UNCHANGED <<product, reference, remapped, freed, cut>>
  BY DEF ChooseSku, catalogueVars
<1> SUFFICES ASSUME NEW e \in Items, e = run.item PROVE RInv'
  BY ChosenSku
<1>2. /\ run.at = "SKU" /\ run'.at = "SAVE" /\ run'.item = e /\ run'.row = run.row
      /\ run'.sku = FreeSku(e)
  BY ChosenSku
<1>3. \A d : /\ OwnRows(d)' = OwnRows(d) /\ Freed(d)' = Freed(d) /\ Owned(d)' = Owned(d)
             /\ Doubled(d)' = Doubled(d)
  BY <1>1 DEF OwnRows, RowsOf, Live, Freed, Owned, WithSku, Doubled
<1>4. FreeSku(e) = IF Owned(e) THEN e ELSE SkuOf[e]
  BY DEF FreeSku, Owned
<1>5. LeftBehind' /\ OneOwnRow'
  BY <1>1, <1>2, <1>3 DEF RInv, LeftBehind, OneOwnRow
<1>6. SkuPicked'
  BY <1>2, <1>3, <1>4 DEF SkuPicked
<1>7. NoneChosen'
  BY <1>1, <1>2, <1>3, <1>4 DEF RInv, NoneChosen
<1>8. OneChosen'
  BY <1>1, <1>2, <1>3 DEF RInv, OneChosen, Live
<1> QED BY <1>5, <1>6, <1>7, <1>8 DEF RInv

\* A row is created beside another of the item only when one of the item's SKUs
\* was given up.
LEMMA RowsCreate ==
  ASSUME IInv, RInv, NEW q \in Products, SaveCreate(q)
  PROVE  RInv'
<1>1. run.at = "SAVE" /\ run.row = 0 /\ run.item \in Items
      /\ WithSku(product, run.sku) = {}
      /\ UNCHANGED <<reference, remapped, freed, cut>> /\ run' = [run EXCEPT !.at = "MAP", !.row = q]
  BY Zero DEF SaveCreate, SkuFits, WithSku, Live, IInv, Saving
<1> SUFFICES ASSUME NEW e \in Items, e = run.item PROVE RInv'
  BY <1>1
<1> DEFINE row == Imported(Created(e, run.sku), e)
<1>2. /\ product[q].life = "NONE" /\ row.life = "LIVE" /\ row.sku = run.sku /\ row.origin = e
      /\ product' = [product EXCEPT ![q] = row]
  BY CreateIsSave
<1> HIDE DEF row
<1>3. product'[q] = row /\ \A p \in Products \ {q} : product'[p] = product[p]
  BY <1>2 DEF IInv, Typed
<1>4. run'.at = "MAP" /\ run'.row = q /\ run'.item = e
  BY <1>1 DEF IInv, Typed, Runs
<1>5. \A d \in Items, p \in Products : p \in OwnRows(d)' =>
        p \in OwnRows(d) \/ (p = q /\ d = e)
  BY <1>1, <1>2, <1>3 DEF OwnRows, RowsOf, Live
<1>6. \A d \in Items : \A p \in OwnRows(d) : p # q /\ p \in Products
  BY <1>2 DEF OwnRows, RowsOf, Live
<1>7. \A d \in Items : Freed(d)' = Freed(d) /\ Doubled(d)' = Doubled(d)
  BY <1>1 DEF Freed, Doubled
<1>8. \A d \in Items : Owned(d) => Owned(d)'
  BY <1>2, <1>3 DEF Owned, WithSku, Live
<1>9. \A p \in OwnRows(e) : Doubled(e)
  <2> SUFFICES ASSUME NEW p \in OwnRows(e) PROVE Doubled(e)
    OBVIOUS
  <2>1. e \in cut /\ (Freed(e) \/ (product[p].sku = e /\ run.sku = e))
    BY <1>1 DEF RInv, NoneChosen
  <2>2. product[p].sku # run.sku
    BY <1>1 DEF OwnRows, RowsOf, WithSku
  <2> QED BY <2>1, <2>2 DEF Doubled
<1>10. LeftBehind'
  <2> SUFFICES ASSUME NEW d \in Items, NEW p \in OwnRows(d)', reference'[p] = None
               PROVE  /\ d \in cut' \/ (d = e /\ p = q)
                      /\ \/ Freed(d)' \/ product'[p].sku = SkuOf[d]
                         \/ product'[p].sku = d /\ Owned(d)'
    BY <1>4 DEF LeftBehind
  <2>1. p \in Products
    BY DEF OwnRows, RowsOf, Live
  <2>2. CASE p \in OwnRows(d)
    <3>1. product'[p] = product[p] /\ reference[p] = None
      BY <1>1, <1>3, <1>6, <2>2
    <3> QED BY <1>1, <1>7, <1>8, <2>2, <3>1 DEF RInv, LeftBehind
  <2>3. CASE p = q /\ d = e
    <3>1. Freed(e) \/ run.sku = SkuOf[e] \/ (run.sku = e /\ Owned(e))
      BY <1>1 DEF RInv, SkuPicked
    <3> QED BY <1>2, <1>3, <1>7, <1>8, <2>3, <3>1
  <2> QED BY <1>5, <2>1, <2>2, <2>3
<1>11. NoneChosen' /\ SkuPicked'
  BY <1>4 DEF NoneChosen, SkuPicked
<1>12. OneChosen'
  <2> SUFFICES ASSUME NEW p \in OwnRows(e)' PROVE p = q \/ Doubled(e)'
    BY <1>4 DEF OneChosen
  <2> QED BY <1>5, <1>7, <1>9 DEF OwnRows, RowsOf, Live
<1>13. OneOwnRow'
  <2> SUFFICES ASSUME NEW d \in Items, NEW p \in OwnRows(d)', NEW r \in OwnRows(d)'
               PROVE  p = r \/ Doubled(d)
    BY <1>7 DEF OneOwnRow
  <2>1. p \in Products /\ r \in Products
    BY DEF OwnRows, RowsOf, Live
  <2>2. CASE p \in OwnRows(d) /\ r \in OwnRows(d)
    BY <2>2 DEF RInv, OneOwnRow
  <2>3. CASE d = e /\ (p \in OwnRows(e) \/ r \in OwnRows(e))
    BY <1>9, <2>3
  <2> QED BY <1>5, <2>1, <2>2, <2>3
<1> QED BY <1>10, <1>11, <1>12, <1>13 DEF RInv

\* The row that is mapped is the one chosen.
LEMMA RowsMap ==
  ASSUME IInv, ReferenceTyped, RInv, MapItem, run.row \in Live(product)
  PROVE  RInv'
<1>1. /\ run.at = "MAP" /\ run.item \in Items /\ run.row \in Products
      /\ UNCHANGED <<product, remapped, freed, cut>>
      /\ reference' = [reference EXCEPT ![run.row] = run.item]
  BY DEF MapItem, IInv, Saving, Live
<1>2. run'.at = "ITEMS"
  BY DEF MapItem, Skip, IInv, Typed, Runs
<1> SUFFICES ASSUME NEW r \in Products, r = run.row, NEW e \in Items, e = run.item PROVE RInv'
  BY <1>1
<1>3. \A p \in Products : reference'[p] = IF p = r THEN e ELSE reference[p]
  BY <1>1 DEF ReferenceTyped
<1>4. \A d \in Items : \A p \in OwnRows(d)' : p \in OwnRows(d) \/ (p = r /\ d = e)
  BY <1>1, <1>3, ItemDomain DEF OwnRows, RowsOf, Live
<1>5. \A d \in Items : /\ Doubled(d)' = Doubled(d) /\ Freed(d)' = Freed(d)
                       /\ Owned(d)' = Owned(d)
  BY <1>1 DEF Doubled, Freed, Owned, WithSku, Live
<1>6. LeftBehind'
  <2> SUFFICES ASSUME NEW d \in Items, NEW p \in OwnRows(d)', reference'[p] = None
               PROVE  /\ d \in cut
                      /\ \/ Freed(d) \/ product[p].sku = SkuOf[d]
                         \/ product[p].sku = d /\ Owned(d)
    BY <1>1, <1>5 DEF LeftBehind
  <2>1. p \in Products /\ p # r /\ reference[p] = None
    BY <1>3, ItemDomain DEF OwnRows, RowsOf, Live
  <2> QED BY <1>4, <2>1 DEF RInv, LeftBehind
<1>7. SkuPicked' /\ NoneChosen' /\ OneChosen'
  BY <1>2 DEF SkuPicked, NoneChosen, OneChosen
<1>8. OneOwnRow'
  <2> SUFFICES ASSUME NEW d \in Items, NEW p \in OwnRows(d)', NEW q \in OwnRows(d)'
               PROVE  p = q \/ Doubled(d)
    BY <1>5 DEF OneOwnRow
  <2>1. CASE p \in OwnRows(d) /\ q \in OwnRows(d)
    BY <2>1 DEF RInv, OneOwnRow
  <2>2. CASE d = e /\ r \in {p, q}
    <3>1. r \notin remapped /\ product[r].origin = e
      BY <1>1, <2>2 DEF OwnRows, RowsOf
    <3>2. \A s \in OwnRows(e) : s = r \/ Doubled(e)
      BY <1>1, <3>1 DEF RInv, OneChosen
    <3> QED BY <1>4, <2>2, <3>2
  <2> QED BY <1>4, <2>1, <2>2
<1> QED BY <1>6, <1>7, <1>8 DEF RInv

\* A run that ends says at which item.
LEMMA RowsEnd ==
  ASSUME IInv, RInv, RowsStay, RunEnds
  PROVE  RInv'
<1>1. run'.at = "IDLE" /\ cut \subseteq cut' /\ (run.at = "MAP" => run.item \in cut')
  BY DEF RunEnds, Idle, CutAt
<1> QED BY <1>1, RowsKeep

LEMMA RowsStart == Init => RInv /\ CInv
<1> SUFFICES ASSUME Init PROVE RInv /\ CInv
  OBVIOUS
<1>1. /\ \A p \in Products : product[p].life = "NONE"
      /\ run.at = "IDLE" /\ customers = 0 /\ contact = 0
  BY DEF Init, CatalogueInit, BukkuInit, NoProduct, Idle
<1>2. \A e : OwnRows(e) = {}
  BY <1>1 DEF OwnRows, RowsOf, Live
<1>3. RInv
  BY <1>1, <1>2 DEF RInv, LeftBehind, SkuPicked, NoneChosen, OneChosen, OneOwnRow
<1> QED BY <1>1, <1>3 DEF CInv

LEMMA RowsStep ==
  ASSUME IInv, ReferenceTyped, PInv, RInv, [Next]_vars
  PROVE  RInv'
<1>1. CASE UNCHANGED vars
  BY <1>1, Unchanged, RowsKeep DEF vars, catalogueVars, bukkuVars
<1>2. CASE Manage /\ UNCHANGED bukkuVars
  BY <1>2, ManageStays, RowsKeep DEF bukkuVars
<1>3. CASE \E e \in Items : Publish(e)
  BY <1>3, Unchanged, RowsKeep DEF Publish, catalogueVars
<1>4. CASE BeginRun
  <2>1. run.at = "IDLE" /\ run'.at \in {"CONTACTS", "ITEMS"}
        /\ UNCHANGED <<product, reference, remapped, freed, cut>>
    BY <1>4 DEF BeginRun, Fetched, Idle, catalogueVars
  <2> QED BY <2>1, Unchanged, RowsKeep
<1>5. CASE RecordVersion \/ ImportContact \/ MapContact
  <2>1. run.at \in {"ITEMS", "CONTACTS", "CUSTOMER"} /\ run'.at \in {"IDLE", "CONTACTS", "CUSTOMER"}
        /\ UNCHANGED <<product, reference, remapped, freed, cut>>
    BY <1>5 DEF RecordVersion, ImportContact, MapContact, Idle, catalogueVars, IInv, Typed, Runs
  <2> QED BY <2>1, Unchanged, RowsKeep
<1>6. ASSUME NEW e \in ToRefresh, StorePrice(e) \/ PriceFails(e) PROVE RInv'
  <2>1. e \in Items
    BY DEF ToRefresh
  <2>2. run.at = "ITEMS" /\ run'.at = "ITEMS" /\ cut' = cut
    BY <1>6 DEF StorePrice, PriceFails, AtPrices, IInv, Typed, Runs
  <2>3. RowsStay
    BY <1>6, <2>1, StoreIsPaid, Unchanged DEF PriceFails, catalogueVars
  <2> QED BY <2>2, <2>3, RowsKeep
<1>7. CASE \/ Crash \/ FetchFails \/ SaveThrows \/ MapThrows
           \/ \E e \in run.todo : ChooseThrows(e)
           \/ \E e \in ToRefresh : PriceThrows(e)
  <2>1. RunEnds /\ UNCHANGED <<product, reference, remapped, freed>>
    BY <1>7 DEF Crash, FetchFails, SaveThrows, MapThrows, ChooseThrows, PriceThrows, Throw,
       catalogueVars
  <2> QED BY <2>1, Unchanged, RowsEnd
<1>8. ASSUME NEW e \in run.todo, run.at = "ITEMS", SkipBundle(e) PROVE RInv'
  <2>1. e \in Items /\ RowsStay
    BY <1>8, PricesSkip DEF IInv, Typed, Runs
  <2>2. run'.at = "ITEMS" /\ cut' = cut
    BY <1>8, SkipIsRun DEF SkipBundle
  <2> QED BY <1>8, <2>1, <2>2, RowsKeep
<1>9. ASSUME NEW e \in run.todo, run.at = "ITEMS", ChooseProduct(e) PROVE RInv'
  BY <1>9, RowsChoose DEF IInv, Typed, Runs
<1>10. CASE SaveUpdate
  <2>1. UNCHANGED <<reference, remapped, cut>> /\ run.at = "SAVE"
        /\ run'.at = "MAP" /\ run'.row = run.row /\ run'.item = run.item
    BY <1>10 DEF SaveUpdate, IInv, Typed, Runs
  <2>2. GiveUp
    BY <1>10 DEF SaveUpdate
  <2>3. RowsStay
    BY <1>10, <2>1, <2>2, UpdateIsSave, RowChange
  <2> QED BY <2>1, <2>3, RowsKeep
<1>11. ASSUME NEW q \in Products, SaveCreate(q) PROVE RInv'
  BY <1>11, RowsCreate
<1>12. CASE MapItem
  <2>1. CASE run.row \in Live(product)
    BY <1>12, <2>1, RowsMap
  <2>2. CASE run.row \notin Live(product)
    <3>1. UNCHANGED <<product, remapped, freed>> /\ reference' = [reference EXCEPT ![run.row] = run.item]
          /\ RunEnds
      BY <1>12, <2>2 DEF MapItem
    <3>2. \A p \in Live(product) : reference'[p] = reference[p]
      BY <2>2, <3>1 DEF ReferenceTyped, Live
    <3>3. RowsStay
      BY <3>1, <3>2 DEF RowsStay, Live
    <3> QED BY <3>1, <3>3, RowsEnd
  <2> QED BY <2>1, <2>2
<1>13. CASE ChooseSku
  BY <1>13, RowsChooseSku
<1> QED BY <1>1, <1>2, <1>3, <1>4, <1>5, <1>6, <1>7, <1>8, <1>9, <1>10, <1>11, <1>12, <1>13
        DEF Next, Sync, ItemStep, BukkuFaults

LEMMA ContactStep ==
  ASSUME IInv, CInv, [Next]_vars
  PROVE  CInv'
<1>1. CASE UNCHANGED <<customers, contact, cut>>
           /\ (run.at = "CUSTOMER" <=> run'.at = "CUSTOMER")
  BY <1>1 DEF CInv
<1>2. CASE RunEnds /\ UNCHANGED <<customers, contact>>
  <2>1. run'.at = "IDLE" /\ cut' = cut \cup CutAt
    BY <1>2 DEF RunEnds, Idle
  <2>2. run.at = "CUSTOMER" => None \in cut'
    BY <2>1 DEF CutAt
  <2> QED BY <1>2, <2>1, <2>2 DEF CInv
<1>3. CASE ImportContact
  <2>1. UNCHANGED <<contact, cut>> /\ run.at = "CONTACTS"
        /\ \/ contact # 0 /\ run'.at = "IDLE" /\ customers' = customers
           \/ contact = 0 /\ run'.at = "CUSTOMER" /\ customers' = customers + 1
    BY <1>3 DEF ImportContact, Idle, IInv, Typed, Runs
  <2> QED BY <2>1 DEF CInv
<1>4. CASE MapContact
  <2>1. contact' = customers /\ customers' = customers /\ cut' = cut /\ run.at = "CUSTOMER"
        /\ run'.at = "IDLE"
    BY <1>4 DEF MapContact, Idle
  <2> QED BY <2>1 DEF CInv
<1>5. CASE UNCHANGED vars \/ (Manage /\ UNCHANGED bukkuVars) \/ \E e \in Items : Publish(e)
  BY <1>1, <1>5 DEF vars, bukkuVars, Publish
<1>6. CASE BeginRun \/ RecordVersion
  <2>1. run.at \in {"IDLE", "ITEMS"} /\ run'.at \in {"CONTACTS", "ITEMS"}
    BY <1>6 DEF BeginRun, RecordVersion, Fetched, Idle, IInv, Typed, Runs
  <2> QED BY <1>1, <1>6, <2>1 DEF BeginRun, RecordVersion
<1>7. CASE \/ Crash \/ FetchFails \/ SaveThrows \/ MapThrows
           \/ \E e \in run.todo : ChooseThrows(e)
           \/ \E e \in ToRefresh : PriceThrows(e)
           \/ MapItem /\ run.row \notin Live(product)
  BY <1>2, <1>7 DEF Crash, FetchFails, SaveThrows, MapThrows, ChooseThrows, PriceThrows, Throw, MapItem
<1>8. ASSUME NEW e \in Items, run.at = "ITEMS", SkipBundle(e) \/ ChooseProduct(e) PROVE CInv'
  <2>1. UNCHANGED <<customers, contact, cut>>
    BY <1>8 DEF SkipBundle, ChooseProduct
  <2>2. Skip(e).at = "ITEMS"
    BY <1>8, SkipIsRun
  <2>3. run'.at \in {"ITEMS", "SKU", "SAVE"}
    BY <1>8, <2>2, ChosenRun DEF SkipBundle
  <2> QED BY <1>1, <1>8, <2>1, <2>3
<1>9. CASE \/ SaveUpdate
           \/ \E q \in Products : SaveCreate(q)
           \/ MapItem /\ run.row \in Live(product)
           \/ ChooseSku
  <2>1. run.at \in {"SKU", "SAVE", "MAP"} /\ UNCHANGED <<customers, contact, cut>>
    BY <1>9 DEF SaveUpdate, SaveCreate, MapItem, ChooseSku
  <2>2. CASE SaveUpdate \/ \E q \in Products : SaveCreate(q)
    BY <1>1, <2>1, <2>2 DEF SaveUpdate, SaveCreate, IInv, Typed, Runs
  <2>3. CASE MapItem /\ run.row \in Live(product)
    BY <1>1, <2>1, <2>3 DEF MapItem, Skip, IInv, Typed, Runs
  <2>4. CASE ChooseSku
    BY <1>1, <2>1, <2>4, ChosenSku
  <2> QED BY <1>9, <2>2, <2>3, <2>4
<1>10. ASSUME NEW e, StorePrice(e) \/ PriceFails(e) PROVE CInv'
  <2>1. run.at = "ITEMS" /\ run'.at = "ITEMS" /\ UNCHANGED <<customers, contact, cut>>
    BY <1>10 DEF StorePrice, PriceFails, AtPrices, IInv, Typed, Runs
  <2> QED BY <1>1, <2>1
<1>11. CASE ItemStep
  <2>1. ASSUME NEW e \in run.todo, run.at = "ITEMS",
               SkipBundle(e) \/ ChooseProduct(e) \/ ChooseThrows(e)
        PROVE  CInv'
    BY <1>7, <1>8, <2>1 DEF IInv, Typed, Runs
  <2>2. CASE ChooseSku \/ SaveUpdate \/ \E q \in Products : SaveCreate(q)
    BY <1>9, <2>2
  <2>3. CASE MapItem \/ SaveThrows \/ MapThrows
    BY <1>7, <1>9, <2>3
  <2> QED BY <1>11, <2>1, <2>2, <2>3 DEF ItemStep
<1>12. CASE Sync \/ BukkuFaults
  BY <1>3, <1>4, <1>6, <1>7, <1>10, <1>11, <1>12 DEF Sync, BukkuFaults
<1> QED BY <1>5, <1>12 DEF Next

\* An item has one product and the contact one customer, unless a run ended
\* between the row and its reference; an item's second row needs besides that a
\* product gave up one of the item's two SKUs, when a manager changed it or the
\* product was removed (upsertCatalogueProduct, importContacts).
THEOREM RowsAreOne == Spec => []OneRowEach
<1> DEFINE J == IInv /\ ReferenceTyped /\ PInv /\ RInv /\ CInv
<1>1. Init => J
  BY Start, PricesStart, RowsStart
<1>2. J /\ [Next]_vars => J'
  BY Step, ReferenceStep, PricesStep, RowsStep, ContactStep
<1>3. J => OneRowEach
  <2> SUFFICES ASSUME J PROVE OneRowEach
    OBVIOUS
  <2>1. None \notin cut => customers <= 1
    BY DEF CInv
  <2>2. ASSUME NEW e \in Items, ~Doubled(e) PROVE Cardinality(OwnRows(e)) <= 1
    <3>1. CASE OwnRows(e) = {}
      BY <3>1, FS_EmptySet
    <3>2. ASSUME NEW p \in OwnRows(e) PROVE Cardinality(OwnRows(e)) <= 1
      <4>1. OwnRows(e) = {p}
        BY <2>2, <3>2 DEF RInv, OneOwnRow
      <4>2. Cardinality({p}) = 1
        BY FS_Singleton
      <4> QED BY <4>1, <4>2
    <3> QED BY <3>1, <3>2
  <2> QED BY <2>1, <2>2 DEF OneRowEach, OwnRows, Doubled, Freed
<1> HIDE DEF J
<1> QED BY <1>1, <1>2, <1>3, PTL DEF Spec

-----------------------------------------------------------------------------
(* Uploaded files.                                                         *)

\* A row of a file as it is stored.
StoredRow == {r \in [action : {"create", "update", "adjust_stock", "deactivate", "reactivate", "delete"},
                     sku : Skus, product : Int, delta : Int, before : Int,
                     hard : BOOLEAN, valid : BOOLEAN] :
                /\ r.action # "adjust_stock" => r.delta = 0
                /\ r.valid => (r.action = "create") = (r.product = 0)}

Uploads ==
  /\ batch \in [Files -> [status : {"NONE", "PREVIEWED", "COMMITTED"}, rows : Seq(StoredRow)]]
  /\ commits \in [Files -> Nat]
  /\ stock \in [Products -> Int]
  /\ sold \in [Products -> Int]

\* Requests to commit a file are only taken when all its rows are valid.
Checked ==
  \A f \in Files : commits[f] > 0 =>
    batch[f].status # "NONE" /\ \A i \in DOMAIN batch[f].rows : batch[f].rows[i].valid

\* The tables agree for every product, those that are gone too.
AllApplied ==
  \A p \in Products : stock[p] = SumOf([f \in Files |-> Delta(f, p)], MaxFiles) - sold[p]

UInv == Uploads /\ Checked /\ AllApplied

-----------------------------------------------------------------------------
(* A file, row by row.                                                     *)

\* g is what the rows of f leave of start, after each.
RowByRow(f, g, n, rows, start) ==
  g = [k \in 0 .. n |-> IF k = 0 THEN start ELSE CommitRow(f, g[k - 1], rows[k])]

\* Some function on 0 .. n satisfies the recursion of After.
LEMMA AfterExists ==
  ASSUME NEW f
  PROVE  \A n, rows, start : n \in Nat => \E g : RowByRow(f, g, n, rows, start)
<1> TAKE n, rows, start
<1> HAVE n \in Nat
<1> DEFINE Upto(m) == \E g : g = [k \in 0 .. m |-> IF k = 0 THEN start ELSE CommitRow(f, g[k - 1], rows[k])]
<1> DEFINE S == {m \in Nat : Upto(m)}
<1>1. 0 \in S
  <2> DEFINE g == [k \in 0 .. 0 |-> start]
  <2>1. g = [k \in 0 .. 0 |-> IF k = 0 THEN start ELSE CommitRow(f, g[k - 1], rows[k])]
    <3>1. \A k \in 0 .. 0 : k = 0
      OBVIOUS
    <3> QED BY <3>1
  <2>2. Upto(0)
    BY <2>1
  <2> QED BY <2>2
<1>2. \A m \in Nat : m \in S => m + 1 \in S
  <2> SUFFICES ASSUME NEW m \in Nat, Upto(m) PROVE Upto(m + 1)
    OBVIOUS
  <2>1. PICK g : g = [k \in 0 .. m |-> IF k = 0 THEN start ELSE CommitRow(f, g[k - 1], rows[k])]
    OBVIOUS
  <2> DEFINE h == [k \in 0 .. (m + 1) |-> IF k = m + 1 THEN CommitRow(f, g[m], rows[m + 1]) ELSE g[k]]
  <2>2. \A k \in 0 .. m : h[k] = g[k]
    OBVIOUS
  <2>3. ASSUME NEW k \in 0 .. (m + 1)
        PROVE  h[k] = IF k = 0 THEN start ELSE CommitRow(f, h[k - 1], rows[k])
    <3>1. CASE k = m + 1
      <4>1. k # 0 /\ k - 1 = m /\ m \in 0 .. m
        BY <3>1
      <4>2. h[k - 1] = g[m]
        BY <2>2, <4>1
      <4>3. h[k] = CommitRow(f, g[m], rows[k])
        BY <3>1
      <4> QED BY <4>1, <4>2, <4>3
    <3>2. CASE k = 0
      <4>1. 0 \in 0 .. m /\ h[k] = g[0]
        BY <2>2, <3>2
      <4>2. g[0] = start
        BY <2>1, <4>1
      <4> QED BY <3>2, <4>1, <4>2
    <3>3. CASE k # m + 1 /\ k # 0
      <4>1. k \in 0 .. m /\ k - 1 \in 0 .. m
        BY <3>3
      <4>2. h[k] = g[k] /\ h[k - 1] = g[k - 1]
        BY <2>2, <4>1
      <4>3. g[k] = CommitRow(f, g[k - 1], rows[k])
        BY <2>1, <3>3, <4>1
      <4> QED BY <3>3, <4>2, <4>3
    <3> QED BY <3>1, <3>2, <3>3
  <2> HIDE DEF h
  <2>4. DOMAIN h = 0 .. (m + 1) /\ h = [k \in 0 .. (m + 1) |-> h[k]]
    BY DEF h
  <2>5. h = [k \in 0 .. (m + 1) |-> IF k = 0 THEN start ELSE CommitRow(f, h[k - 1], rows[k])]
    BY <2>3, <2>4
  <2> QED BY <2>5
<1> HIDE DEF S
<1>3. n \in S
  BY <1>1, <1>2, NatSetInduction
<1> QED BY <1>3 DEF S, RowByRow

LEMMA AfterEquation ==
  ASSUME NEW f, Len(batch[f].rows) \in Nat
  PROVE  /\ After(f)[0] = [ok |-> TRUE, products |-> product, stock |-> stock]
         /\ \A k \in 1 .. Len(batch[f].rows) :
              After(f)[k] = CommitRow(f, After(f)[k - 1], batch[f].rows[k])
<1> DEFINE n == Len(batch[f].rows)
<1> DEFINE rows == batch[f].rows
<1> DEFINE start == [ok |-> TRUE, products |-> product, stock |-> stock]
<1> DEFINE A == After(f)
<1>1. \E g : g = [k \in 0 .. n |-> IF k = 0 THEN start ELSE CommitRow(f, g[k - 1], rows[k])]
  <2>1. n \in Nat
    OBVIOUS
  <2> HIDE DEF start, rows, n
  <2>2. \E g : RowByRow(f, g, n, rows, start)
    BY <2>1, AfterExists
  <2> QED BY <2>2 DEF RowByRow
<1>2. A = [k \in 0 .. n |-> IF k = 0 THEN start ELSE CommitRow(f, A[k - 1], rows[k])]
  BY <1>1 DEF After
<1> HIDE DEF A, start, n, rows
<1>3. A[0] = start
  <2>1. n \in Nat
    BY DEF n
  <2>2. 0 \in 0 .. n
    BY <2>1
  <2> QED BY <1>2, <2>2
<1>4. ASSUME NEW k \in 1 .. n PROVE A[k] = CommitRow(f, A[k - 1], rows[k])
  <2>1. k \in 0 .. n /\ k # 0
    BY DEF n
  <2> QED BY <1>2, <2>1
<1> QED BY <1>3, <1>4 DEF A, start, n, rows

\* A row that can be committed moves what it says, and a row that cannot ends it.
Tables(s) == s = [ok |-> s.ok, products |-> s.products, stock |-> s.stock]

\* What one row may do to the tables.
Moved(s, row, t) ==
  /\ Tables(t)
  /\ t.ok => /\ s.ok /\ t.stock \in [Products -> Int]
             /\ \A p \in Products : t.stock[p] = s.stock[p] + IF row.product = p THEN row.delta ELSE 0

LEMMA RowMoves ==
  ASSUME NEW f
  PROVE  \A s, row : Tables(s) /\ (s.ok => s.stock \in [Products -> Int])
                      /\ row \in StoredRow /\ row.valid => Moved(s, row, CommitRow(f, s, row))
<1> SUFFICES ASSUME NEW s, Tables(s), s.ok => s.stock \in [Products -> Int],
                    NEW row \in StoredRow, row.valid
             PROVE  Moved(s, row, CommitRow(f, s, row))
  OBVIOUS
<1> DEFINE t == CommitRow(f, s, row)
<1>1. CASE ~CanCommitRow(f, s, row)
  <2>1. t = [s EXCEPT !.ok = FALSE]
    BY <1>1 DEF CommitRow
  <2>2. t = [ok |-> FALSE, products |-> s.products, stock |-> s.stock]
    BY <2>1 DEF Tables
  <2> QED BY <2>2 DEF Tables, Moved
<1>2. CASE CanCommitRow(f, s, row) /\ row.action = "create"
  <2>1. PICK ps : t = [s EXCEPT !.products = ps]
    BY <1>2 DEF CommitRow
  <2>2. t = [ok |-> s.ok, products |-> ps, stock |-> s.stock]
    BY <2>1 DEF Tables
  <2>3. row.product = 0 /\ s.ok
    BY <1>2 DEF StoredRow, CanCommitRow
  <2>4. \A p \in Products : p # 0 /\ s.stock[p] \in Int
    <3>1. \A p \in Products : p # 0
      BY DEF Products
    <3>2. s.stock \in [Products -> Int]
      BY <2>3
    <3> QED BY <3>1, <3>2
  <2> QED BY <2>2, <2>3, <2>4 DEF Tables, Moved
<1>3. CASE CanCommitRow(f, s, row) /\ row.action # "create"
  <2>1. /\ s.ok /\ row.product \in Products
        /\ row.action = "adjust_stock" => s.stock[row.product] = row.before
    BY <1>3 DEF CanCommitRow, Live
  <2> DEFINE st == [s.stock EXCEPT ![row.product] =
                      IF row.action = "adjust_stock" THEN row.before + row.delta ELSE @]
  <2>2. PICK ps : t = [s EXCEPT !.products = ps, !.stock = st]
    BY <1>3 DEF CommitRow
  <2>3. t = [ok |-> s.ok, products |-> ps, stock |-> st]
    BY <2>2 DEF Tables
  <2>4. row.before \in Int /\ row.delta \in Int /\ (row.action # "adjust_stock" => row.delta = 0)
    BY DEF StoredRow
  <2>5. st \in [Products -> Int]
        /\ \A p \in Products : st[p] = s.stock[p] + IF row.product = p THEN row.delta ELSE 0
    BY <2>1, <2>4
  <2> HIDE DEF st
  <2> QED BY <2>1, <2>3, <2>5 DEF Tables, Moved
<1> QED BY <1>1, <1>2, <1>3

\* A file that is committed with all its rows moves what they say together.
LEMMA FileMoves ==
  ASSUME Uploads, NEW f \in Files, \A i \in DOMAIN batch[f].rows : batch[f].rows[i].valid,
         AllRows(f).ok
  PROVE  /\ AllRows(f).stock \in [Products -> Int]
         /\ \A p \in Products :
              AllRows(f).stock[p] = stock[p] + SumOf(Moves(f, p), Len(batch[f].rows))
<1> DEFINE rows == batch[f].rows
<1> DEFINE n == Len(batch[f].rows)
<1> DEFINE A == After(f)
<1>1. rows \in Seq(StoredRow) /\ n \in Nat /\ DOMAIN rows = 1 .. n /\ stock \in [Products -> Int]
  BY DEF Uploads
<1>2. /\ A[0] = [ok |-> TRUE, products |-> product, stock |-> stock]
      /\ \A k \in 1 .. n : A[k] = CommitRow(f, A[k - 1], rows[k])
  BY <1>1, AfterEquation
<1>3. ASSUME NEW p \in Products
      PROVE  /\ Moves(f, p) \in [1 .. n -> Int]
             /\ \A k \in 1 .. n : Moves(f, p)[k] = IF rows[k].product = p THEN rows[k].delta ELSE 0
  <2>1. \A k \in 1 .. n : rows[k].delta \in Int
    BY <1>1 DEF StoredRow
  <2> QED BY <1>1, <2>1 DEF Moves
<1>4. \A k \in 1 .. n : rows[k] \in StoredRow /\ rows[k].valid
  BY <1>1
<1> DEFINE Good(k) ==
      /\ Tables(A[k])
      /\ A[k].ok => /\ A[k].stock \in [Products -> Int]
                    /\ \A p \in Products : A[k].stock[p] = stock[p] + PartialSums(Moves(f, p), n)[k]
<1> DEFINE S == {k \in Nat : k <= n => Good(k)}
<1>5. 0 \in S
  <2>1. \A p \in Products : PartialSums(Moves(f, p), n)[0] = 0
    BY <1>1, <1>3, PartialSumsEquation
  <2> HIDE DEF A, n
  <2>2. Tables(A[0]) /\ A[0].stock = stock
    BY <1>2 DEF Tables
  <2> QED BY <1>1, <2>1, <2>2
<1>6. \A k \in Nat : k \in S => k + 1 \in S
  <2> SUFFICES ASSUME NEW k \in Nat, k \in S, k + 1 <= n PROVE Good(k + 1)
    OBVIOUS
  <2>1. k + 1 \in 1 .. n /\ (k + 1) - 1 = k /\ k <= n
    BY <1>1
  <2>2. Good(k)
    BY <2>1
  <2> DEFINE row == rows[k + 1]
  <2>3. row \in StoredRow /\ row.valid /\ A[k + 1] = CommitRow(f, A[k], row)
    BY <1>2, <1>4, <2>1
  <2>4. \A p \in Products :
          /\ PartialSums(Moves(f, p), n)[k + 1]
               = PartialSums(Moves(f, p), n)[k] + IF row.product = p THEN row.delta ELSE 0
          /\ PartialSums(Moves(f, p), n)[k] \in Int
    <3> SUFFICES ASSUME NEW p \in Products
                 PROVE  /\ PartialSums(Moves(f, p), n)[k + 1]
                             = PartialSums(Moves(f, p), n)[k] + IF row.product = p THEN row.delta ELSE 0
                        /\ PartialSums(Moves(f, p), n)[k] \in Int
      OBVIOUS
    <3>1. /\ Moves(f, p) \in [1 .. n -> Int]
          /\ Moves(f, p)[k + 1] = IF row.product = p THEN row.delta ELSE 0
      BY <1>3, <2>1
    <3>2. PartialSums(Moves(f, p), n)[k + 1] = PartialSums(Moves(f, p), n)[(k + 1) - 1] + Moves(f, p)[k + 1]
      BY <1>1, <2>1, <3>1, PartialSumsEquation
    <3>3. PartialSums(Moves(f, p), n)[k] \in Int
      <4>1. k \in 0 .. n
        BY <2>1
      <4> QED BY <1>1, <3>1, <4>1, PartialSumsType
    <3> QED BY <2>1, <3>1, <3>2, <3>3
  <2>5. row.delta \in Int
    BY <2>3 DEF StoredRow
  <2> HIDE DEF A, n, row
  <2>6. /\ Tables(A[k + 1])
        /\ A[k + 1].ok => /\ A[k].ok /\ A[k + 1].stock \in [Products -> Int]
                          /\ \A p \in Products :
                               A[k + 1].stock[p] = A[k].stock[p] + IF row.product = p THEN row.delta ELSE 0
    <3>1. Tables(A[k]) /\ (A[k].ok => A[k].stock \in [Products -> Int])
      BY <2>2
    <3>2. row \in StoredRow /\ row.valid
      BY <2>3
    <3>3. Moved(A[k], row, CommitRow(f, A[k], row))
      BY <3>1, <3>2, RowMoves
    <3>4. Moved(A[k], row, A[k + 1])
      BY <2>3, <3>3
    <3> QED BY <3>4 DEF Moved
  <2> DEFINE P(p) == PartialSums(Moves(f, p), n)
  <2>7. ASSUME A[k + 1].ok, NEW p \in Products
        PROVE  A[k + 1].stock[p] = stock[p] + P(p)[k + 1]
    <3>1. A[k + 1].stock[p] = A[k].stock[p] + IF row.product = p THEN row.delta ELSE 0
      BY <2>6, <2>7
    <3>2. A[k].stock[p] = stock[p] + P(p)[k]
      BY <2>2, <2>6, <2>7
    <3>3. P(p)[k + 1] = P(p)[k] + (IF row.product = p THEN row.delta ELSE 0) /\ P(p)[k] \in Int
      BY <2>4
    <3>4. stock[p] \in Int
      BY <1>1
    <3> HIDE DEF P
    <3> QED BY <2>5, <3>1, <3>2, <3>3, <3>4
  <2> QED BY <2>6, <2>7
<1> HIDE DEF S
<1>7. Good(n)
  <2>1. n \in S
    BY <1>1, <1>5, <1>6, NatSetInduction
  <2>2. n <= n
    BY <1>1
  <2> QED BY <2>1, <2>2 DEF S
<1> QED BY <1>7 DEF AllRows, SumOf

\* What a file moves of a product is a number.
LEMMA MovesTyped ==
  ASSUME Uploads, NEW f \in Files, NEW p \in Products
  PROVE  SumOf(Moves(f, p), Len(batch[f].rows)) \in Int
<1> DEFINE n == Len(batch[f].rows)
<1>1. batch[f].rows \in Seq(StoredRow) /\ n \in Nat /\ DOMAIN batch[f].rows = 1 .. n
  BY DEF Uploads
<1>2. \A i \in 1 .. n : batch[f].rows[i].delta \in Int
  BY <1>1 DEF StoredRow
<1>3. Moves(f, p) \in [1 .. n -> Int]
  BY <1>1, <1>2 DEF Moves
<1> HIDE DEF n
<1>4. SumOf(Moves(f, p), n) \in Int
  BY <1>1, <1>3, SumType
<1> QED BY <1>4 DEF n

\* What the files put in together, step by step.
LEMMA DeltaTyped ==
  ASSUME Uploads, NEW p \in Products
  PROVE  /\ [f \in Files |-> Delta(f, p)] \in [1 .. MaxFiles -> Int]
         /\ MaxFiles \in Nat
<1>1. MaxFiles \in Nat
  BY FileBounds
<1>2. ASSUME NEW f \in Files PROVE Delta(f, p) \in Int
  <2>1. SumOf(Moves(f, p), Len(batch[f].rows)) \in Int
    BY MovesTyped
  <2> QED BY <2>1 DEF Delta
<1> QED BY <1>1, <1>2 DEF Files

LEMMA UploadsStart == UploadInit => UInv
<1> SUFFICES ASSUME UploadInit PROVE UInv
  OBVIOUS
<1>1. Uploads
  BY DEF UploadInit, BatchInit, Uploads
<1>2. Checked
  BY DEF UploadInit, BatchInit, Checked
<1>3. ASSUME NEW p \in Products PROVE SumOf([f \in Files |-> Delta(f, p)], MaxFiles) = 0
  <2> DEFINE g == [f \in Files |-> Delta(f, p)]
  <2>1. g \in [1 .. MaxFiles -> Int] /\ MaxFiles \in Nat
    BY <1>1, DeltaTyped
  <2>2. \A f \in 1 .. MaxFiles : g[f] = 0
    BY DEF UploadInit, BatchInit, Delta, Files
  <2> HIDE DEF g
  <2>3. SumOf(g, MaxFiles) = 0
    BY <2>1, <2>2, SumZero
  <2> QED BY <2>3 DEF g
<1>4. AllApplied
  <2>1. \A p \in Products : stock[p] = 0 /\ sold[p] = 0
    BY DEF UploadInit, BatchInit
  <2> QED BY <1>3, <2>1 DEF AllApplied
<1> QED BY <1>1, <1>2, <1>4 DEF UInv

\* A step that changes no file's Delta keeps the balance if stock and sales agree.
LEMMA BalanceKept ==
  ASSUME AllApplied, \A f \in Files, p \in Products : Delta(f, p)' = Delta(f, p),
         Uploads, \A p \in Products : stock'[p] \in Int /\ sold'[p] \in Int
                                      /\ stock'[p] + sold'[p] = stock[p] + sold[p]
  PROVE  AllApplied'
<1> SUFFICES ASSUME NEW p \in Products
             PROVE  stock'[p] = SumOf([f \in Files |-> Delta(f, p)'], MaxFiles) - sold'[p]
  BY DEF AllApplied
<1>1. [f \in Files |-> Delta(f, p)'] = [f \in Files |-> Delta(f, p)]
  OBVIOUS
<1>2. stock[p] = SumOf([f \in Files |-> Delta(f, p)], MaxFiles) - sold[p]
  BY DEF AllApplied
<1> DEFINE sum == SumOf([f \in Files |-> Delta(f, p)], MaxFiles)
<1>3. sum \in Int
  <2> DEFINE g == [f \in Files |-> Delta(f, p)]
  <2>1. g \in [1 .. MaxFiles -> Int] /\ MaxFiles \in Nat
    BY DeltaTyped
  <2> HIDE DEF g
  <2> QED BY <2>1, SumType DEF g
<1>4. stock[p] \in Int /\ sold[p] \in Int
  BY DEF Uploads
<1>5. stock'[p] = sum - sold'[p]
  <2> HIDE DEF sum
  <2>1. stock[p] = sum - sold[p]
    BY <1>2 DEF sum
  <2> QED BY <1>3, <1>4, <2>1
<1> QED BY <1>1, <1>5

LEMMA UploadStep == UInv /\ [UploadNext]_uploadVars => UInv'
<1> SUFFICES ASSUME UInv, [UploadNext]_uploadVars PROVE UInv'
  OBVIOUS
<1>u. Uploads /\ Checked /\ AllApplied
  BY DEF UInv
<1>1. CASE UNCHANGED batchVars
  <2>1. Uploads' /\ Checked'
    BY <1>u, <1>1 DEF batchVars, Uploads, Checked
  <2>2. \A f \in Files, p \in Products : Delta(f, p)' = Delta(f, p)
    BY <1>1 DEF batchVars, Delta, Moves
  <2>3. \A p \in Products : stock'[p] \in Int /\ sold'[p] \in Int
                            /\ stock'[p] + sold'[p] = stock[p] + sold[p]
    BY <1>u, <1>1 DEF batchVars, Uploads
  <2>4. AllApplied'
    BY <1>u, <2>2, <2>3, BalanceKept
  <2> QED BY <2>1, <2>4 DEF UInv
<1>2. ASSUME NEW q \in Products, Sell(q) PROVE UInv'
  <2>1. /\ batch' = batch /\ commits' = commits
        /\ stock' = [stock EXCEPT ![q] = @ - 1] /\ sold' = [sold EXCEPT ![q] = @ + 1]
    BY <1>2 DEF Sell
  <2>2. Uploads' /\ Checked'
    BY <1>u, <2>1 DEF Uploads, Checked
  <2>3. \A f \in Files, p \in Products : Delta(f, p)' = Delta(f, p)
    BY <2>1 DEF Delta, Moves
  <2>4. ASSUME NEW p \in Products
        PROVE  stock'[p] \in Int /\ sold'[p] \in Int /\ stock'[p] + sold'[p] = stock[p] + sold[p]
    <3>1. stock[p] \in Int /\ sold[p] \in Int
      BY <1>u DEF Uploads
    <3>2. CASE p = q
      <4>1. stock'[p] = stock[p] - 1 /\ sold'[p] = sold[p] + 1
        BY <1>u, <2>1, <3>2 DEF Uploads
      <4> QED BY <3>1, <4>1
    <3>3. CASE p # q
      <4>1. stock'[p] = stock[p] /\ sold'[p] = sold[p]
        BY <1>u, <2>1, <3>3 DEF Uploads
      <4> QED BY <3>1, <4>1
    <3> QED BY <3>2, <3>3
  <2>5. AllApplied'
    BY <1>u, <2>3, <2>4, BalanceKept
  <2> QED BY <2>2, <2>5 DEF UInv
<1>3. ASSUME NEW g \in Files, Preview(g) PROVE UInv'
  <2> DEFINE rs == [i \in DOMAIN Contents[g] |-> Validated(g, i)]
  <2>1. /\ batch[g].status = "NONE" /\ commits' = commits /\ stock' = stock /\ sold' = sold
        /\ batch' = [batch EXCEPT ![g] = [status |-> "PREVIEWED", rows |-> rs]]
    BY <1>3 DEF Preview
  <2>2. rs \in Seq(StoredRow)
    <3> DEFINE n == Len(Contents[g])
    <3>1. Contents[g] \in Seq(FileRow) /\ n \in Nat /\ DOMAIN Contents[g] = 1 .. n
      BY FileDomain
    <3>2. ASSUME NEW i \in 1 .. n PROVE Validated(g, i) \in StoredRow
      <4>1. Contents[g][i] \in FileRow
            /\ (Contents[g][i].action # "adjust_stock" => Contents[g][i].delta = 0)
        BY <3>1, FileDomain
      <4> DEFINE row == Contents[g][i]
      <4> DEFINE matches == WithSku(product, row.sku)
      <4> DEFINE p == IF matches = {} THEN 0 ELSE CHOOSE q \in matches : TRUE
      <4> DEFINE v == Validated(g, i)
      <4> DEFINE before == IF p = 0 THEN 0 ELSE stock[p]
      <4>2. p = 0 \/ p \in Products
        <5>1. matches \subseteq Products
          BY DEF WithSku, Live
        <5> QED BY <5>1
      <4>3. p \in Int /\ before \in Int
        <5>1. \A q \in Products : q \in Int /\ stock[q] \in Int
          BY <1>u DEF Uploads, Products
        <5> HIDE DEF p
        <5> QED BY <4>2, <5>1
      <4> DEFINE hard == row.action = "delete" /\ p # 0 /\ ~HindersFile(product, p, g)
      <4> DEFINE valid == /\ (row.action = "create") = (p = 0)
                  /\ \A j \in DOMAIN Contents[g] \ {i} :
                       <<Contents[g][j].action, Contents[g][j].sku>> # <<row.action, row.sku>>
      <4>4. v = [action |-> row.action, sku |-> row.sku, product |-> p, delta |-> row.delta,
                 before |-> before, hard |-> hard, valid |-> valid]
        BY DEF Validated
      <4>5. hard \in BOOLEAN /\ valid \in BOOLEAN /\ (valid => (row.action = "create") = (p = 0))
        OBVIOUS
      <4> HIDE DEF v, p, before, hard, valid, row
      <4>6. row \in FileRow /\ (row.action # "adjust_stock" => row.delta = 0)
        BY <4>1 DEF row
      <4> QED BY <4>3, <4>4, <4>5, <4>6 DEF StoredRow, FileRow, v
    <3> HIDE DEF n
    <3> QED BY <3>1, <3>2
  <2> HIDE DEF rs
  <2>3. Uploads'
    BY <1>u, <2>1, <2>2 DEF Uploads
  <2>4. Checked'
    <3> SUFFICES ASSUME NEW f \in Files, commits'[f] > 0
                 PROVE  batch'[f].status # "NONE"
                        /\ \A i \in DOMAIN batch'[f].rows : batch'[f].rows[i].valid
      BY DEF Checked
    <3>1. f # g /\ batch[f].status # "NONE"
          /\ \A i \in DOMAIN batch[f].rows : batch[f].rows[i].valid
      BY <1>u, <2>1 DEF Checked
    <3>2. batch'[f] = batch[f]
      BY <1>u, <2>1, <3>1 DEF Uploads
    <3> QED BY <3>1, <3>2
  <2>5. \A f \in Files, p \in Products : Delta(f, p)' = Delta(f, p)
    <3> SUFFICES ASSUME NEW f \in Files, NEW p \in Products PROVE Delta(f, p)' = Delta(f, p)
      OBVIOUS
    <3>1. CASE f = g
      <4>1. batch'[f].status = "PREVIEWED"
        BY <1>u, <2>1, <3>1 DEF Uploads
      <4> QED BY <2>1, <3>1, <4>1 DEF Delta
    <3>2. CASE f # g
      <4>1. batch'[f] = batch[f]
        BY <1>u, <2>1, <3>2 DEF Uploads
      <4> QED BY <4>1 DEF Delta, Moves
    <3> QED BY <3>1, <3>2
  <2>6. \A p \in Products : stock'[p] \in Int /\ sold'[p] \in Int
                            /\ stock'[p] + sold'[p] = stock[p] + sold[p]
    BY <1>u, <2>1 DEF Uploads
  <2>7. AllApplied'
    BY <1>u, <2>5, <2>6, BalanceKept
  <2> QED BY <2>3, <2>4, <2>7 DEF UInv
<1>4. ASSUME NEW g \in Files, CommitBegin(g) PROVE UInv'
  <2>1. /\ batch' = batch /\ stock' = stock /\ sold' = sold
        /\ commits' = [commits EXCEPT ![g] = @ + 1]
        /\ batch[g].status = "PREVIEWED" /\ \A i \in DOMAIN batch[g].rows : batch[g].rows[i].valid
    BY <1>4 DEF CommitBegin
  <2>2. Uploads'
    BY <1>u, <2>1 DEF Uploads
  <2>3. Checked'
    BY <1>u, <2>1 DEF Checked, Uploads
  <2>4. \A f \in Files, p \in Products : Delta(f, p)' = Delta(f, p)
    BY <2>1 DEF Delta, Moves
  <2>5. \A p \in Products : stock'[p] \in Int /\ sold'[p] \in Int
                            /\ stock'[p] + sold'[p] = stock[p] + sold[p]
    BY <1>u, <2>1 DEF Uploads
  <2>6. AllApplied'
    BY <1>u, <2>4, <2>5, BalanceKept
  <2> QED BY <2>2, <2>3, <2>6 DEF UInv
<1>5. ASSUME NEW g \in Files, Commit(g) PROVE UInv'
  <2>1. commits[g] > 0 /\ commits' = [commits EXCEPT ![g] = @ - 1] /\ sold' = sold
    BY <1>5 DEF Commit
  <2>2. commits' \in [Files -> Nat] /\ \A f \in Files : commits'[f] > 0 => commits[f] > 0
    BY <1>u, <2>1 DEF Uploads
  <2>3. CASE batch' = batch /\ stock' = stock
    <3>1. Uploads' /\ Checked'
      BY <1>u, <2>1, <2>2, <2>3 DEF Uploads, Checked
    <3>2. \A f \in Files, p \in Products : Delta(f, p)' = Delta(f, p)
      BY <2>3 DEF Delta, Moves
    <3>3. \A p \in Products : stock'[p] \in Int /\ sold'[p] \in Int
                              /\ stock'[p] + sold'[p] = stock[p] + sold[p]
      BY <1>u, <2>1, <2>3 DEF Uploads
    <3>4. AllApplied'
      BY <1>u, <3>2, <3>3, BalanceKept
    <3> QED BY <3>1, <3>4 DEF UInv
  <2>4. CASE batch[g].status # "COMMITTED" /\ Apply(g)
    <3>1. /\ AllRows(g).ok /\ stock' = AllRows(g).stock
          /\ batch' = [batch EXCEPT ![g].status = "COMMITTED"]
      BY <2>4 DEF Apply
    <3>2. batch[g].status # "NONE" /\ \A i \in DOMAIN batch[g].rows : batch[g].rows[i].valid
      BY <1>u, <2>1 DEF Checked
    <3>3. /\ stock' \in [Products -> Int]
          /\ \A p \in Products : stock'[p] = stock[p] + SumOf(Moves(g, p), Len(batch[g].rows))
      BY <1>u, <3>1, <3>2, FileMoves
    <3>4. /\ \A f \in Files : f # g => batch'[f] = batch[f]
          /\ batch'[g].status = "COMMITTED" /\ batch'[g].rows = batch[g].rows
      BY <1>u, <3>1 DEF Uploads
    <3>5. Uploads'
      <4>1. batch' \in [Files -> [status : {"NONE", "PREVIEWED", "COMMITTED"}, rows : Seq(StoredRow)]]
        BY <1>u, <3>1 DEF Uploads
      <4> QED BY <1>u, <2>1, <2>2, <3>3, <4>1 DEF Uploads
    <3>6. Checked'
      <4> SUFFICES ASSUME NEW f \in Files, commits'[f] > 0
                   PROVE  batch'[f].status # "NONE"
                          /\ \A i \in DOMAIN batch'[f].rows : batch'[f].rows[i].valid
        BY DEF Checked
      <4>1. CASE f = g
        BY <3>2, <3>4, <4>1
      <4>2. CASE f # g
        BY <1>u, <2>2, <3>4, <4>2 DEF Checked
      <4> QED BY <4>1, <4>2
    <3>7. ASSUME NEW p \in Products
          PROVE  stock'[p] = SumOf([f \in Files |-> Delta(f, p)'], MaxFiles) - sold'[p]
      <4> DEFINE before == [f \in Files |-> Delta(f, p)]
      <4> DEFINE after == [f \in Files |-> Delta(f, p)']
      <4> DEFINE moved == SumOf(Moves(g, p), Len(batch[g].rows))
      <4>1. before \in [1 .. MaxFiles -> Int] /\ MaxFiles \in Nat /\ g \in 1 .. MaxFiles
        BY <1>u, DeltaTyped DEF Files
      <4>3. \A f \in 1 .. MaxFiles : f # g => after[f] = before[f]
        BY <3>4 DEF Delta, Moves, Files
      <4>4. before[g] = 0 /\ after[g] = moved
        BY <2>4, <3>4 DEF Delta, Moves
      <4>2. after \in [1 .. MaxFiles -> Int]
        <5>1. moved \in Int
          BY <1>u, MovesTyped
        <5>2. before \in [1 .. MaxFiles -> Int] /\ DOMAIN after = 1 .. MaxFiles /\ after = [f \in 1 .. MaxFiles |-> after[f]]
          BY <4>1 DEF Files
        <5> HIDE DEF before, after, moved
        <5> QED BY <4>1, <4>3, <4>4, <5>1, <5>2
      <4>5. stock[p] = SumOf(before, MaxFiles) - sold[p]
        BY <1>u DEF AllApplied
      <4>6. stock'[p] = stock[p] + moved /\ sold'[p] = sold[p]
        BY <2>1, <3>3
      <4>7. sold[p] \in Int /\ stock[p] \in Int /\ stock'[p] \in Int
        BY <1>u, <3>3 DEF Uploads
      <4> HIDE DEF before, after, moved
      <4>8. SumOf(after, MaxFiles) = SumOf(before, MaxFiles) + (after[g] - before[g])
        BY <4>1, <4>2, <4>3, SumChange
      <4>9. SumOf(before, MaxFiles) \in Int /\ after[g] \in Int
        BY <4>1, <4>2, SumType
      <4>10. stock'[p] = SumOf(after, MaxFiles) - sold'[p]
        BY <4>4, <4>5, <4>6, <4>7, <4>8, <4>9
      <4> QED BY <4>10 DEF after
    <3>8. AllApplied'
      BY <3>7 DEF AllApplied
    <3> QED BY <3>5, <3>6, <3>8 DEF UInv
  <2> QED BY <1>5, <2>3, <2>4 DEF Commit
<1> QED BY <1>1, <1>2, <1>3, <1>4, <1>5 DEF UploadNext, uploadVars

\* A file moves stock once and whole, however many requests commit it at a time
\* and whatever was sold or changed since its preview, for any files of any
\* length (BatchUpdateService.commit).
THEOREM FilesCountOnce == UploadSpec => []BatchesApplyOnce
<1>1. UInv => BatchesApplyOnce
  BY DEF UInv, AllApplied, BatchesApplyOnce, Live
<1> QED BY <1>1, UploadsStart, UploadStep, PTL DEF UploadSpec
=============================================================================

----------------------------- MODULE Catalogue -----------------------------
(***************************************************************************)
(* The product table and what ManagementService does to it.                *)
(*                                                                         *)
(* A product is written by three parties that do not know of each other:   *)
(* managers (here), the import from Bukku (BukkuSync) and uploaded files   *)
(* (BatchUpdate).  This module has the tables they share.                  *)
(*                                                                         *)
(* Names, categories, prices and units are known by where they came from:  *)
(* 0 is what the row was created with, v > 0 version v of the item in      *)
(* Bukku, Edited what a manager or a file wrote.                           *)
(***************************************************************************)
EXTENDS Naturals, FiniteSets

CONSTANTS
  MaxProducts,  \* bound on product rows
  Managed,      \* rows that managers change
  MaxLocal,     \* bound on the rows that Bukku does not create
  MaxVersion,   \* bound on the versions published in Bukku
  MaxItems,     \* bound on the items of the catalogue in Bukku
  Skus,         \* SKUs in use; an item stands for its fallback SKU as well
  SkuOf,        \* SkuOf[e]: the SKU that Bukku gives item e
  Creatable,    \* SKUs that managers create products with
  Spare,        \* SKUs that managers give to products instead of their own
  Mappable,     \* items that managers map to products
  None          \* no item, no file

Products == 1 .. MaxProducts
Items    == 1 .. MaxItems    \* in the order of the catalogue
Edited   == MaxVersion + 1
Content  == 0 .. Edited

\* Who created a row: an item's import, or one of these.
Manager == MaxItems + 1
File    == MaxItems + 2

ASSUME CatalogueBounds == MaxItems \in Nat /\ MaxProducts \in Nat /\ MaxLocal \in Nat /\ MaxVersion \in Nat
ASSUME SkuDomain       == SkuOf \in [Items -> Skus \cup Items] /\ Creatable \cup Spare \subseteq Skus
ASSUME ItemDomain      == Managed \subseteq Products /\ Mappable \subseteq Items /\ None \notin Items \cup Skus

VARIABLES
  product,    \* product[p]: the Product row p with its prices
  reference,  \* reference[p]: the item that ExternalReference maps p to
  pending,    \* products with an unfinished BUKKU_PRODUCT_UPDATE_PENDING job
  listed,     \* products that rows of uploaded files name
  deleting,   \* deleting[p]: what a delete request in flight will do to p
  remapped,   \* history: products that a manager took from an item
  freed       \* history: SKUs that a product gave up, for another or by its removal

catalogueVars == <<product, reference, pending, listed, deleting, remapped, freed>>

Rows == [life : {"NONE", "LIVE", "GONE"}, origin : 0 .. File,
         sku : Skus \cup Items \cup {None}, text : Content, price : Content, hash : 0 .. MaxVersion,
         active : BOOLEAN, deleted : BOOLEAN, audited : BOOLEAN, used : BOOLEAN]

NoProduct == [life |-> "NONE", origin |-> 0, sku |-> None, text |-> 0, price |-> 0,
              hash |-> 0, active |-> FALSE, deleted |-> FALSE, audited |-> FALSE, used |-> FALSE]

Created(origin, sku) ==
  [NoProduct EXCEPT !.life = "LIVE", !.origin = origin, !.sku = sku, !.active = TRUE]

Live(ps)     == {p \in Products : ps[p].life = "LIVE"}
WithSku(ps, sku) == {p \in Live(ps) : ps[p].sku = sku}
Mapped(e)    == {p \in Products : reference[p] = e}

\* Rows get their ids in the order they are created.
NextRow(ps, p) == ps[p] = NoProduct /\ \A q \in Products : q < p => ps[q] # NoProduct

CatalogueInit ==
  /\ product = [p \in Products |-> NoProduct]
  /\ reference = [p \in Products |-> None]
  /\ pending = {}
  /\ listed = {}
  /\ deleting = [p \in Products |-> "NO"]
  /\ remapped = {}
  /\ freed = {}

\* History of a step that may change SKUs.
GiveUp ==
  freed' = freed \cup {product[p].sku : p \in {q \in Live(product) : product'[q].sku # product[q].sku}}

-----------------------------------------------------------------------------
LocalRows(ps) == {p \in Products : ps[p].life # "NONE" /\ ps[p].origin \notin Items}

CreateProduct(p, sku) ==
  /\ NextRow(product, p) /\ Cardinality(LocalRows(product)) < MaxLocal
  /\ WithSku(product, sku) = {}
  /\ product' = [product EXCEPT ![p] = Created(Manager, sku)]
  /\ UNCHANGED <<reference, pending, listed, deleting, remapped, freed>>

\* What an edit leaves of a row, whoever makes it.
WithEdit(row) == [row EXCEPT !.text = Edited, !.price = Edited, !.audited = TRUE]

\* A manager's edit of a product that Bukku knows waits to be sent there.  It may
\* give the product another SKU that is free; bound: no SKU is left so twice.
UpdateProduct(p, sku, active) ==
  /\ p \in Live(product)
  /\ sku # product[p].sku => WithSku(product, sku) = {} /\ product[p].sku \notin freed
  /\ product' = [product EXCEPT ![p] = [WithEdit(@) EXCEPT !.sku = sku, !.active = active]]
  /\ pending' = IF reference[p] # None THEN pending \cup {p} ELSE pending
  /\ GiveUp
  /\ UNCHANGED <<reference, listed, deleting, remapped>>

\* Only reactivation takes the mark of deletion off.
SetProductActive(p, active) ==
  /\ p \in Live(product)
  /\ product' = [product EXCEPT ![p].active = active, ![p].audited = TRUE,
                                ![p].deleted = @ /\ ~active]
  /\ UNCHANGED <<reference, pending, listed, deleting, remapped, freed>>

\* Sales, stock, mappings, file rows and audits keep a product from being
\* removed for good.  Generated aliases do so too: names here yield none.
HasHistory(p) ==
  product[p].used \/ product[p].audited \/ reference[p] # None \/ p \in listed

DeleteBegin(p) ==
  /\ p \in Live(product)
  /\ deleting[p] = "NO"
  /\ deleting' = [deleting EXCEPT ![p] = IF HasHistory(p) THEN "ARCHIVE" ELSE "HARD"]
  /\ UNCHANGED <<product, reference, pending, listed, remapped, freed>>

Archived(row) == [row EXCEPT !.active = FALSE, !.deleted = TRUE, !.audited = TRUE]
Removed(row)  == [NoProduct EXCEPT !.life = "GONE", !.origin = row.origin]

\* The impact is not read again.  Sales and stock refer to the row and the
\* database keeps it for them; references to Bukku do not.
DeleteCommit(p) ==
  /\ deleting[p] # "NO"
  /\ deleting' = [deleting EXCEPT ![p] = "NO"]
  /\ product' = [product EXCEPT ![p] =
       IF deleting[p] = "HARD" THEN IF @.used THEN @ ELSE Removed(@)
       ELSE IF @.life = "LIVE" THEN Archived(@) ELSE @]
  /\ listed' = Live(product') \cap listed
  /\ GiveUp
  /\ UNCHANGED <<reference, pending, remapped>>

\* An item is mapped to one product, a product to one item.
ApproveMapping(p, e) ==
  /\ p \in Live(product)
  /\ Mapped(e) \subseteq {p}
  /\ reference' = [reference EXCEPT ![p] = e]
  /\ remapped' = IF reference[p] \in {None, e} THEN remapped ELSE remapped \cup {p}
  /\ UNCHANGED <<product, pending, listed, deleting, freed>>

Manage ==
  \/ \E p \in Products, sku \in Creatable : CreateProduct(p, sku)
  \/ \E p \in Managed :
    \/ \E active \in BOOLEAN :
         \/ \E sku \in Spare \cup {product[p].sku} : UpdateProduct(p, sku, active)
         \/ SetProductActive(p, active)
    \/ DeleteBegin(p)
    \/ DeleteCommit(p)
    \/ \E e \in Mappable : ApproveMapping(p, e)
=============================================================================

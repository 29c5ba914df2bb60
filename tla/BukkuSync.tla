----------------------------- MODULE BukkuSync -----------------------------
(***************************************************************************)
(* The import of products and contacts from Bukku.                         *)
(*                                                                         *)
(* A run fetches the catalogue if its version is new, saves the items one  *)
(* by one, each in several statements without a transaction, then fetches  *)
(* and stores the sale prices of the items whose content changed, records  *)
(* the version, and imports the contacts.  One run at a time; a failure    *)
(* ends the run and the next interval starts another.                      *)
(*                                                                         *)
(* There is one contact.  Units and barcodes are left out, but for the     *)
(* failure of a run that adds a unit to a product that is gone.            *)
(***************************************************************************)
EXTENDS Catalogue

CONSTANTS
  Archives,   \* <<e, v>>: version v of item e is archived or not for sale
  Bundles,    \* <<e, v>>: version v makes item e a bundle
  MaxFaults   \* bound on calls to Bukku that fail and on restarts

ASSUME FaultBound == MaxFaults \in Nat

VARIABLES
  remote,     \* remote[e]: the version of item e in Bukku, 0 before it exists
  versions,   \* number of versions published: the version of the catalogue
  known,      \* Company.bukkuProductVersion
  run,        \* the import that is running
  customers,  \* Customer rows created for the contact
  contact,    \* the row that its ExternalReference names, or 0
  faults,     \* faults so far
  missed,     \* history: rows that a run saved and whose prices it left out
  cut         \* history: items, and None for the contact, at which a run ended

bukkuVars == <<remote, versions, known, run, customers, contact, faults, missed, cut>>

(***************************************************************************)
(* at: what the run does next; version, list: the catalogue it fetched;    *)
(* todo: items to save; item, row, sku, stale: the item being saved, its   *)
(* product (0 for a new one) and the SKU this had or is to get, and        *)
(* whether its content is new; refresh: the rows of items whose prices are *)
(* to be stored, 0 for the others; held: history, the products with a      *)
(* pending update when the run began.                                      *)
(***************************************************************************)
Idle == [at |-> "IDLE", version |-> 0, list |-> [e \in Items |-> 0], todo |-> {},
         item |-> None, row |-> 0, sku |-> None, stale |-> FALSE,
         refresh |-> [e \in Items |-> 0], held |-> {}]

BukkuInit ==
  /\ remote = [e \in Items |-> 0]
  /\ versions = 0
  /\ known = 0
  /\ run = Idle
  /\ customers = 0
  /\ contact = 0
  /\ faults = 0
  /\ missed = {}
  /\ cut = {}

Publish(e) ==
  /\ versions < MaxVersion
  /\ versions' = versions + 1
  /\ remote' = [remote EXCEPT ![e] = versions + 1]
  /\ UNCHANGED <<catalogueVars, known, run, customers, contact, faults, missed, cut>>

-----------------------------------------------------------------------------
(* Starting and ending a run.                                              *)

\* pullProductCatalogue: all items as they are, unless the version is known.
NotChanged == known = versions

Fetched ==
  IF NotChanged
  THEN [Idle EXCEPT !.at = "CONTACTS", !.held = pending]
  ELSE [Idle EXCEPT !.at = "ITEMS", !.version = versions, !.list = remote,
                    !.todo = {e \in Items : remote[e] > 0}, !.held = pending]

\* Mutant: the version is recorded when the catalogue has been fetched.
BeginRunRecording ==
  /\ run.at = "IDLE"
  /\ known' = versions
  /\ run' = Fetched
  /\ UNCHANGED <<catalogueVars, remote, versions, customers, contact, faults, missed, cut>>

BeginRun ==
  /\ run.at = "IDLE"
  /\ run' = Fetched
  /\ UNCHANGED <<catalogueVars, remote, versions, known, customers, contact, faults, missed, cut>>

\* The prices that a run owes when it ends before it stored them.
ToRefresh == {e \in Items : run.refresh[e] # 0}
Owing     == {run.refresh[e] : e \in ToRefresh} \cup
             (IF run.at = "MAP" /\ run.stale THEN {run.row} ELSE {})

CutAt == IF run.at = "MAP" THEN {run.item} ELSE IF run.at = "CUSTOMER" THEN {None} ELSE {}

\* The run throws, or dies with the server; the next one starts from nothing.
RunEnds ==
  /\ run' = Idle
  /\ missed' = missed \cup Owing
  /\ cut' = cut \cup CutAt

Crash ==
  /\ faults < MaxFaults
  /\ faults' = faults + 1
  /\ RunEnds
  /\ deleting' = [p \in Products |-> "NO"]
  /\ UNCHANGED <<product, reference, pending, listed, remapped, freed, remote, versions, known,
                 customers, contact>>

\* The contacts cannot be fetched.  Nothing is lost when the catalogue cannot.
FetchFails ==
  /\ run.at = "CONTACTS"
  /\ faults < MaxFaults
  /\ faults' = faults + 1
  /\ RunEnds
  /\ UNCHANGED <<catalogueVars, remote, versions, known, customers, contact>>

Throw ==
  /\ RunEnds
  /\ UNCHANGED <<catalogueVars, remote, versions, known, customers, contact, faults>>

-----------------------------------------------------------------------------
(* Saving one item.                                                        *)

IsBundle(e) == <<e, run.list[e]>> \in Bundles
OnSale(e)   == <<e, run.list[e]>> \notin Archives

Skip(e) == [run EXCEPT !.todo = @ \ {e}]

\* A bundle is not imported; a product that became one is taken off sale.
SkipBundle(e) ==
  /\ IsBundle(e)
  /\ Mapped(e) \subseteq Live(product)
  /\ product' = [p \in Products |-> IF p \in Mapped(e) THEN [product[p] EXCEPT !.active = FALSE]
                                                       ELSE product[p]]
  /\ run' = Skip(e)
  /\ UNCHANGED <<reference, pending, listed, deleting, remapped, freed, remote, versions, known, customers,
                 contact, faults, missed, cut>>

\* The product of an item: the one it is mapped to, else the one that has its
\* SKU and is not mapped to another item.
ProductFor(e) ==
  IF Mapped(e) # {} THEN Mapped(e)
  ELSE {p \in WithSku(product, SkuOf[e]) : reference[p] = None}

\* Mutant: only new products have their prices fetched.
IsStaleIfNew(p, e) == p = 0

IsStale(p, e) == p = 0 \/ product[p].hash # run.list[e]

\* Mutant: pending updates are not looked at.
IsHeldNever(p) == FALSE

\* A product with a pending update is left as it is.
IsHeld(p) == p \in pending

ChooseProduct(e) ==
  /\ ~IsBundle(e)
  /\ ProductFor(e) \subseteq Live(product)
  /\ \E p \in IF ProductFor(e) = {} THEN {0} ELSE ProductFor(e) :
       run' = IF IsHeld(p) THEN Skip(e)
              ELSE [run EXCEPT !.at = IF p = 0 THEN "SKU" ELSE "SAVE", !.item = e, !.row = p,
                               !.sku = IF p = 0 THEN None ELSE product[p].sku,
                               !.stale = IsStale(p, e)]
  /\ UNCHANGED <<catalogueVars, remote, versions, known, customers, contact, faults, missed, cut>>

\* The row that an item is mapped to is gone.
ChooseThrows(e) == Mapped(e) \ Live(product) # {} /\ Throw

\* Mutant: any SKU that is free.
FreeSkuAny(e) == CHOOSE sku \in {SkuOf[e]} \cup Items : WithSku(product, sku) = {}

\* availableProductSku: for a new product.
FreeSku(e) == IF WithSku(product, SkuOf[e]) = {} THEN SkuOf[e] ELSE e

ChooseSku ==
  /\ run.at = "SKU"
  /\ run' = [run EXCEPT !.at = "SAVE", !.sku = FreeSku(run.item)]
  /\ UNCHANGED <<catalogueVars, remote, versions, known, customers, contact, faults, missed, cut>>

\* The SKU that was read, name, category, hash and whether it is on sale; not the
\* mark of deletion.
Imported(row, e) ==
  [row EXCEPT !.sku = run.sku, !.text = run.list[e], !.hash = run.list[e], !.active = OnSale(e)]

\* No other product has the SKU now.
SkuFits == WithSku(product, run.sku) \subseteq {run.row}

SaveUpdate ==
  /\ run.at = "SAVE" /\ run.row \in Live(product) /\ SkuFits
  /\ product' = [product EXCEPT ![run.row] = Imported(@, run.item)]
  /\ run' = [run EXCEPT !.at = "MAP"]
  /\ GiveUp
  /\ UNCHANGED <<reference, pending, listed, deleting, remapped, remote, versions, known, customers,
                 contact, faults, missed, cut>>

SaveCreate(p) ==
  /\ run.at = "SAVE" /\ run.row = 0 /\ SkuFits
  /\ NextRow(product, p)
  /\ product' = [product EXCEPT ![p] = Imported(Created(run.item, run.sku), run.item)]
  /\ run' = [run EXCEPT !.at = "MAP", !.row = p]
  /\ UNCHANGED <<reference, pending, listed, deleting, remapped, freed, remote, versions, known,
                 customers, contact, faults, missed, cut>>

\* The row vanished since it was chosen, or another has taken its SKU.
SaveThrows ==
  /\ run.at = "SAVE"
  /\ ~SkuFits \/ (run.row # 0 /\ run.row \notin Live(product))
  /\ Throw

\* The reference is written for the row, whatever became of the row.
MapItem ==
  /\ run.at = "MAP"
  /\ Mapped(run.item) \subseteq {run.row}
  /\ reference' = [reference EXCEPT ![run.row] = run.item]
  /\ IF run.row \in Live(product)
     THEN /\ run' = [Skip(run.item) EXCEPT
                       !.at = "ITEMS", !.item = None, !.row = 0, !.sku = None, !.stale = FALSE,
                       !.refresh[run.item] = IF run.stale /\ OnSale(run.item) THEN run.row ELSE 0]
          /\ UNCHANGED <<missed, cut>>
     ELSE RunEnds
  /\ UNCHANGED <<product, pending, listed, deleting, remapped, freed, remote, versions, known, customers,
                 contact, faults>>

MapThrows == run.at = "MAP" /\ ~(Mapped(run.item) \subseteq {run.row}) /\ Throw

ItemStep ==
  \/ \E e \in run.todo :
       /\ run.at = "ITEMS" /\ \A d \in run.todo : e <= d
       /\ SkipBundle(e) \/ ChooseProduct(e) \/ ChooseThrows(e)
  \/ ChooseSku \/ SaveUpdate \/ SaveThrows \/ MapItem \/ MapThrows
  \/ \E p \in Products : SaveCreate(p)

-----------------------------------------------------------------------------
(* Prices, and the end of the catalogue.                                   *)

AtPrices(e) == run.at = "ITEMS" /\ run.todo = {} /\ \A d \in ToRefresh : e <= d

\* pullProductDetails: the prices of the moment, not of the catalogue in hand.
PricesOf(e) == remote[e]

StorePrice(e) ==
  /\ AtPrices(e)
  /\ run.refresh[e] \in Live(product)
  /\ product' = [product EXCEPT ![run.refresh[e]].price = PricesOf(e)]
  /\ run' = [run EXCEPT !.refresh[e] = 0]
  /\ missed' = missed \ {run.refresh[e]}
  /\ UNCHANGED <<reference, pending, listed, deleting, remapped, freed, remote, versions, known, customers,
                 contact, faults, cut>>

\* One item's prices cannot be fetched: the others are.
PriceFails(e) ==
  /\ AtPrices(e)
  /\ faults < MaxFaults
  /\ faults' = faults + 1
  /\ run' = [run EXCEPT !.refresh[e] = 0]
  /\ missed' = missed \cup {run.refresh[e]}
  /\ UNCHANGED <<catalogueVars, remote, versions, known, customers, contact, cut>>

PriceThrows(e) == AtPrices(e) /\ run.refresh[e] \notin Live(product) /\ Throw

RecordVersion ==
  /\ run.at = "ITEMS" /\ run.todo = {} /\ ToRefresh = {}
  /\ known' = run.version
  /\ run' = [run EXCEPT !.at = "CONTACTS"]
  /\ UNCHANGED <<catalogueVars, remote, versions, customers, contact, faults, missed, cut>>

-----------------------------------------------------------------------------
(* Contacts.                                                               *)

\* A contact without a reference gets a new row, then the reference.
ImportContact ==
  /\ run.at = "CONTACTS"
  /\ IF contact # 0
     THEN run' = Idle /\ UNCHANGED customers
     ELSE run' = [run EXCEPT !.at = "CUSTOMER"] /\ customers' = customers + 1
  /\ UNCHANGED <<catalogueVars, remote, versions, known, contact, faults, missed, cut>>

MapContact ==
  /\ run.at = "CUSTOMER"
  /\ contact' = customers
  /\ run' = Idle
  /\ UNCHANGED <<catalogueVars, remote, versions, known, customers, faults, missed, cut>>

Sync ==
  \/ BeginRun \/ ItemStep \/ RecordVersion \/ ImportContact \/ MapContact
  \/ \E e \in ToRefresh : StorePrice(e) \/ PriceThrows(e)

BukkuFaults == Crash \/ FetchFails \/ \E e \in ToRefresh : PriceFails(e)

vars == <<catalogueVars, bukkuVars>>

Init == CatalogueInit /\ BukkuInit

Next ==
  \/ Manage /\ UNCHANGED bukkuVars
  \/ \E e \in Items : Publish(e)
  \/ Sync
  \/ BukkuFaults

\* While a shift is open a run starts every half hour and goes on by itself.
Spec == Init /\ [][Next]_vars /\ WF_vars(Sync)

-----------------------------------------------------------------------------
(* Properties.                                                             *)

\* The prices of an imported product are as new as its name, unless a manager
\* or a file set them since, or a run was cut off or could not fetch them; the
\* hash and the version that would start another attempt are stored before the
\* prices are (upsertCatalogueProduct, importPrices, importProducts).
StalePricesWereMissed ==
  \A p \in Live(product) :
    \/ product[p].price >= product[p].hash
    \/ \E e \in Items : <<e, product[p].hash>> \in Archives
    \/ p \in missed \cup {run.refresh[e] : e \in ToRefresh} \cup {run.row} \cup remapped

\* A run changes neither names nor prices of a product that a manager had edited
\* and queued before the run began (the look for pending jobs comes before the
\* save, and the prices are of items that were saved).
EditsSurviveRuns ==
  [][\A p \in run.held : product'[p].life = "LIVE" =>
       /\ product[p].text # product'[p].text => product'[p].text = Edited
       /\ product[p].price # product'[p].price => product'[p].price = Edited]_product

\* The rows that an item's import created and that no other item has taken over.
RowsOf(e) == {p \in Live(product) : product[p].origin = e /\ reference[p] \in {None, e}}

\* An item has one product and the contact one customer, unless a run ended
\* between the row and its reference; and then an item gets a second row only when
\* a product has given up one of its two SKUs, by an edit or by its removal, else
\* the SKU leads back to the first (upsertCatalogueProduct, importContacts).
OneRowEach ==
  /\ \A e \in Items :
       \/ Cardinality(RowsOf(e) \ remapped) <= 1
       \/ e \in cut /\ {SkuOf[e], e} \cap freed # {}
  /\ None \notin cut => customers <= 1

Wedged(e) ==
  \/ Mapped(e) \ Live(product) # {}
  \/ /\ Mapped(e) = {}
     /\ WithSku(product, e) # {}
     /\ \E p \in WithSku(product, SkuOf[e]) : reference[p] # None

\* Every item published is imported, once faults end, unless a run left it where
\* every later run throws, at this item or at another (run, syncOpenShifts).
ItemsConverge ==
  <>[](\/ remapped # {} \/ \E e \in Items : Wedged(e)
       \/ \A e \in Items : remote[e] > 0 /\ <<e, remote[e]>> \notin Bundles =>
            \E p \in Mapped(e) : p \in pending \/ product[p].text \in {remote[e], Edited})
=============================================================================

# RetailOS, specified in TLA+

RetailOS is a point-of-sale system for one company with shops, registers and
cashiers. A NestJS server (`src/apps/api/src`) keeps everything in PostgreSQL
through Prisma; a browser till (`src/apps/api/public`) sells through it, also
when the network is down; Bukku, an accounting service, is read for the
catalogue and told of the day's sales; a receipt printer hangs off the server.

This directory holds TLA+ models of the parts where the order of events
matters, TLC configurations that check them on small instances, and TLAPS
proofs of what matters most for every size.

Run from this directory: `tlc -config FifoLines.cfg MCFifoInventory`,
`tlapm FifoInventory_proofs.tla`, and so for the other configurations and
`_proofs` modules.

## The system

| Part | Code | State it keeps | Operations | Talks to |
|---|---|---|---|---|
| FIFO inventory | `inventory/fifo.ts`, `backoffice/purchase-receipt.service.ts` | InventoryBatch, SaleBatchAllocation, InventoryBatchEvent, StockSnapshot, `Product.fifoEnabledAt` | allocate, restore, adjust, post a receipt, approve legacy stock, settle a shortage, assert | called by checkout, returns, counts, batch updates |
| Ledger | `inventory/inventory-ledger.ts` | InventoryLedger (quantity and value) | record | called by every stock change |
| Checkout | `checkout/checkout.service.ts`, `checkout-calculator.ts`, `stock-control.ts` | Sale, SaleItem, Payment, Receipt | checkout, void, mark printed, print | FIFO inventory, shifts, store credit, print hub, sync jobs |
| Returns | `returns/returns.service.ts` | Return, ReturnItem, ReturnPayment, StoreCredit | create, refund a store credit | FIFO inventory, shifts, checkout by store credit |
| Cashier shifts | `shifts/shifts.service.ts`, `shift-calculator.ts` | Shift, CashMovement | open, move cash, correct the float, close, close by schedule, daily digest | checkout and returns by shift id, Bukku |
| Offline till | `public/app.js`, `offline-store.js` | cart, IndexedDB queue, verified shift | pay, queue, replay, close, reload | checkout over HTTP |
| Sign-in and approvals | `auth/*` | signed tokens | log in, approve by PIN, match identities | every request |
| Products and counts | `products/products.service.ts` | StockSnapshot | count stock, search | FIFO inventory |
| Batch updates | `backoffice/batch-update.service.ts` | BatchUpdate, its rows | preview, commit | products, FIFO inventory |
| Print hub | `checkout/thermal-printer.service.ts`, `receipt-renderer.ts` | PrintJob, a queue in memory | print, probe | printer |
| Bukku | `integrations/bukku/*` | ExternalReference, hashes, prices, SyncJob | import products and contacts, post the daily invoice | Bukku over HTTP |
| E-invoice requests | `einvoice/*` | EInvoiceRequest | submit once per receipt | public page |
| Management | `management/*` | users, roles, products, prices | administration | |
| Reports | `backoffice/backoffice.service.ts`, `shifts/xlsx-writer.ts` | none | read | |

What is hard here:

- **One stock, two tables.** The snapshot is a number, the batches are rows,
  and eight operations write one or both.
- **Mixed isolation.** Checkout, void, returns and receipts run SERIALIZABLE;
  counts and the approval of legacy stock run at READ COMMITTED; the shift
  handlers run in no transaction.
- **Time.** The scheduler closes shifts after midnight while managers close
  them and cashiers sell in them.
- **The network.** An answer may be lost after the server has committed.
- **Restarts** between the statements of a handler that is no transaction.
- **Money in three places.** A return may be paid, promised on a store credit,
  or both in turn; checkouts, refunds and voids draw on it in any order.
- **Three writers of one catalogue.** Managers, uploaded files and the import
  from Bukku change products in several statements each and do not know of
  each other.
- **Two machines that add up.** The till computes totals unrounded and shows
  them; the server rounds, recomputes and refuses.
- **One printer for all tills**, a queue that lives in memory, and transports
  that may fail when the paper is out already.

## What each component must do

- *FIFO inventory*: the snapshot equals the balance of the batches; goods go
  out oldest first and come back newest first; no row gets back more than it
  gave; what was sold can be returned.
- *Isolation*: no committed change of stock is overwritten unseen.
- *Shifts*: expected cash is the cash in the drawer; a CASH_OUT takes what is
  there; a register has one open shift; a manager's close stays; shortages are
  acknowledged at a close; an expired shift is closed; every close is on record.
- *Offline till*: one sale per offline id; no receipt without a sale or a queue
  entry; every queued sale reaches the server.
- *Checkout arithmetic*: payments add up to the total; change is given in cash
  and once.
- *Returns and store credit*: no more comes back than was sold; a credit is
  never spent twice; cash refunds are counted in the shift they left.
- *Print hub*: jobs do not interleave; a job ends PRINTED or FAILED; PRINTED
  means on paper.
- *Cart*: a line is sold once; what the till shows is what the server sells, but
  for prices that have changed; a refusal has a reason a cashier can see.
- *Batch updates*: a row is applied once, whatever is uploaded twice.
- *Bukku*: an item has one product; prices follow the catalogue; what a manager
  edited before a run is not overwritten by it; every item arrives; a shift has
  one invoice, and it carries what was sold.
- *Dashboard*: figures of one turnover agree, or differ by what they mean.
- *E-invoice requests*: one request per receipt.

## Modules

| Module | Models |
|---|---|
| `QuantitySums` | sums over `1 .. n`, as the SQL aggregates compute them |
| `StockPosition` | the abstract specification: two numbers that move together |
| `FifoInventory` | the stock of one product at one location, one committed transaction per action |
| `FifoWalk` | the two loops of `fifo.ts`, one row per step |
| `StockIsolation` | the transactions of `FifoInventory`, one statement per step |
| `CashierShift` | the shifts of a register, one statement per step |
| `OfflineSales` | tills, queues, calls in flight and the server's sales |
| `DailyInvoice` | the digest that follows a close and its posting to Bukku, on top of `CashierShift` |
| `TillCart` | the cart of a till, its discounts and old prices, and the checkout that sells it |
| `Catalogue` | the product table, and what managers do to it |
| `BukkuSync` | the import from Bukku, one statement per step, on top of `Catalogue` |
| `BatchUpdate` | uploaded files, one request or transaction per step, on top of `Catalogue` |
| `SaleMoney` | prices, payments, returns and store credits, one committed transaction per action |
| `Dashboard` | the back office's figures over the tables of `SaleMoney` |
| `PrintQueue` | print jobs, the queue in memory, the transports and the printer |
| `MC...` | instances of the above for TLC |
| `QuantitySums_proofs`, `FifoInventory_proofs`, `StockSteps_proofs` (`StockIsolation`, `FifoWalk`), `DailyInvoice_proofs` (with `CashierShift`), `SaleMoney_proofs` (with `Dashboard`), `Catalogue_proofs` (`BukkuSync`, `BatchUpdate`), `Till_proofs` (`OfflineSales`, `TillCart`), `PrintQueue_proofs` | lemmas and theorems |

`FifoWalk` instantiates `FifoInventory` to check the loops against its
operators. `FifoInventory` instantiates `StockPosition` under a refinement
mapping and states that it implements it. `StockIsolation` takes the same
transactions apart and keeps of the rows only the two sums that the assertion
reads. `CashierShift`, `OfflineSales`, `TillCart` and `SaleMoney` each see a
checkout from another side: what it does to a shift, what the network does to
it, how a cart becomes one, and what it does to the money. `DailyInvoice` adds
to every step of `CashierShift` what follows a close; `BukkuSync` and
`BatchUpdate` each run among the steps of managers in `Catalogue`. `QuantitySums` serves
every module that adds up rows.

### FifoInventory

An action is one transaction that commits; one that throws changes nothing and
is the absence of a step. `snapshot` is `StockSnapshot.quantity`; `batch[b]` is
a row of InventoryBatch, known by its position in creation order;
`allocated` and `restored` are the consuming and the restoring rows of
SaleBatchAllocation, summed by line and row; `settled` is the set of pairs the
unique key of the settlement events has seen. `voidedStock` is a history
variable: the units that voids put on the snapshot alone.

| Action | Code |
|---|---|
| `Checkout` | stock and FIFO part of `complete`, with `allocateFifoSale` |
| `VoidReceipt` | `voidReceipt` |
| `DisposeReturn`, `RestockReturn` | `ReturnsService.create`, with `restoreFifoReturn` |
| `DraftPurchase` | `receive_purchase` of a batch update |
| `PostPurchase`, `EnableLegacyFifo`, `SettleShortage` | `PurchaseReceiptService` |
| `AdjustStock` | `adjustStock` and `adjust_stock` of a batch update, with `adjustFifoInventory` |

The loops are stated by what they take: `take[b]` for every row at once, with
the order as a condition (`TakenInOrder`). `FifoWalk` shows that the loops of
the code meet it. Costs, values and the ledger are left out: quantities do not
depend on them.

### StockIsolation

A transaction is a process with a program counter, the values it has read and
the changes it will make. A serializable transaction reads the snapshot taken
when it begins and may not lock a row that another has committed since
(`MayLock`); a READ COMMITTED transaction reads what is committed at each
statement. Row locks are held to the end. Any transaction may abort at any
point, which stands for serialization failures, deadlock victims and timeouts.
Every serializable transaction of a product writes its StockSnapshot row, so
two that overlap collide there, and predicate locks need no modelling.
A serializable assertion reads its snapshot. That of a legacy review is two
statements at READ COMMITTED, the snapshot's quantity and then the sum of the
rows, and others may commit in between (`ReviewReadStock`, `ReviewAssert`).
`strays` is a history variable: checkouts and counts that have read the product
before FIFO and commit when it is on, or when a review is between the first
statement of its assertion and its commit.

### CashierShift

The shift handlers are runs of single statements, so each statement is an
action and everything may happen between two of them. A checkout is two
actions, the snapshot that shows its shift open and the commit: a plain UPDATE
of the shift does not conflict with a serializable transaction that has only
read it. A void asks for no shift. `Crash` drops the requests in progress and
leaves what they have written; a statement of a close may fail (`CloseFails`),
and the scheduler swallows the error and goes on to the next shift
(`SweepFails`). A manager's acknowledgement of shortages is nowhere but in the
SHIFT_CLOSED record, and is read from the latest one: `audit[s]` is written by
`CloseAudit`, after the update. Days are those of UTC (`NextDay`), from which the
date of a close is cut.

The rest is history: `drawer`, the cash that came into the drawer, and `back`,
what voids, refunds and corrections took out of it; `rushed`, shifts with a
CASH_OUT that was made while another was checked; `crowded`, that an opening
looked for a shift while another was about to create one; and `reviewed[s]`, the
sales that the latest close of `s` could look at when it asked for shortages.

### DailyInvoice

The step that ends a close, a manager's or the scheduler's, starts the digest:
export, set the job of the shift to PENDING, read the shift, look for the
invoice number in Bukku, create the invoice, look again after an error, record
the outcome. A call to create is on its way (`sent`) until it arrives or is
refused, and its poster may give up before (`TimesOut`), so an invoice may come
into being after the second look. `invoices[s]` is what Bukku has. Accounts that
are not mapped, postings switched off, and sums that do not agree are one
choice, `AwaitReview`; that a shift with a return waits is a guard. An invoice is
known by its number, which is made of the shift and the day of `closedAt` at the
export (`IsPosted`, `Number`); a close that overlaps another writes `closedAt`
again, and may do so on another day. `raced`, `redated` and `settled` are history
variables: numbers posted while another call with the number was on its way,
shifts closed again on another day, and what was complete when a shift was first
closed.

### TillCart

A handler of `app.js` runs to its next await, and others may run there: the cart
may change while the balance of a credit is fetched and while a checkout is on
its way. Errors of discounts are kept by position (`discountErrors`); the identity
of a line, and the quantity a discount was typed for, are history. Quantities are
in ten-thousandths, prices in cents, and the till's unrounded amounts in
millionths of a cent, so that the half cents that the server rounds and the till
does not are exact. Where the code adds floating-point numbers that are no whole
cents, the outcome of the comparison is a choice (`Noisy`).

A line keeps the price it was added with, through merges, reloads and restarts
(`restoreCart`); the payload has no prices, and the server charges its own, the
`tariff`, which managers and the import move on (`NewTariff`). Products are
withdrawn (`Withdraw`), shifts are closed and sessions run out under the cart
(`Lapse`), until somebody joins again (`JoinShift`).

The till asks for a manager's PIN when a discount goes below cost
(`app.js:511`-`533`), but no line of its cart ever has a cost: products come
without it (`app.js:156`-`160`, `658`-`662`), and so `applyInlineDiscount`
(`app.js:633`) never asks. The model has no such dialog. The server does know the
cost, and refuses the sale (`checkout.service.ts:224`, `Sellable`).

Left out are changes of a line's unit, the preference for how an exchange's
remainder is refunded, the confirmation of DuitNow and transfers, the discount of
a whole sale, which no control of the till sets, and a second tab on the same
device: both keep their cart under one key of the local storage, and the last to
save wins when either is loaded again.

### Catalogue, BukkuSync and BatchUpdate

`product[p]` is a row with its name, prices, SKU, marks of activity and deletion
and content hash; contents are known by where they came from (what the row was
created with, a version in Bukku, or an edit). `reference[p]` is the
ExternalReference of an item, `pending` the products with an update queued for
Bukku. A deletion by a manager reads first and deletes in a transaction later
(`DeleteBegin`, `DeleteCommit`). An update may give a product another SKU that is
free (`UpdateProduct`); `freed` is a history variable, the SKUs that a product gave
up for another or by its removal, and a bound: no SKU is left so twice. The import
looks for a free SKU in one statement and writes it in another (`ChooseSku`,
`SaveCreate`).

| Action | Code |
|---|---|
| `BeginRun`, `RecordVersion`, `RunEnds` | `importProducts`, `syncOpenShifts` |
| `SkipBundle`, `ChooseProduct`, `ChooseSku`, `SaveUpdate`, `SaveCreate`, `MapItem` | `upsertCatalogueProduct` |
| `StorePrice`, `PriceFails` | `importPrices` |
| `ImportContact`, `MapContact` | `importContacts` |
| `Preview`, `CommitBegin`, `Commit` of `BatchUpdate` | `preview` and `commit` of `BatchUpdateService` |

A run that throws at any statement ends, and so does one that a restart cuts
off; the next starts from nothing. A file is its checksum; a commit is one
serializable transaction over all its rows.

### OfflineSales

A call between a tab and the server is a record that is sent, in the body of
the handler, answered or an error. When the network fails it the client goes on
and the call stays behind without a client (`Orphans`); the server may still
complete it. A queue belongs to a device and is shared by its tabs. One shift of
one cashier is modelled; another may sign in (`SignIn`), the shift may be closed
from a tab or by the scheduler. A tab that reloads restores its session with
calls of its own (`Restore`) and sells nothing before; offline it is restored
without a session token (`RestoreOffline`), sells into the queue, and what it
replays is refused until somebody signs in. A session may expire while the tab
is open (`Expire`): the server forgets it after twelve hours and the browser
keeps it for seven days. A sale discounted below cost needs an approval that no
till asks for (`Unapproved`), so the server refuses it each time it is sent.

### SaleMoney

An action is one serializable transaction; amounts are in cents. `sale[x]` is a
Sale with its line and Payment rows, `return[r]` a Return with its line,
`balance[r]` the StoreCredit of an exchange, `paid[r][m]` its ReturnPayment
rows by method. `handedOut` is a history variable: cash paid back, by the shift
that was open.

| Action | Code |
|---|---|
| `Checkout` | `calculateCheckout`, `settlePayments`, and the payments, store credits and exchange of `complete` |
| `VoidReceipt` | `voidReceipt` |
| `CreateReturn` | `ReturnsService.create` |
| `RefundStoreCredit` | `refundStoreCredit` |
| `OpenShift`, `CloseShift` | what the above ask of a shift |

A percentage is rounded as `Math.round` does on cents. A sale discount is not
spread over the lines, so what is returned is worth its line total: that is the
code, and `BooksBalance` takes it as it is. All methods that are neither cash
nor store credit act alike and are one, OTHER. A return is refused once its
period is over; the model leaves the period open.

`Dashboard` is the request that reads these tables: gross and net sales,
revenue and discounts by product, and the payment chart. A sale has one line, so
the share of the discount that `dashboard` gives the last line is all of it.

### PrintQueue

Each await of `printThermalReceipt` ends an action, so handlers interleave as
Node lets them. `queue` is the chain of promises; the printer is external, and
all that is assumed of it is that it receives bytes in the order they are sent.
An error may come before the first byte, between two, or after the last. A
restart ends all handlers and the chain; rows stay as they are.

## Runs

Bounds are small on purpose; the column says which case each is there for. All
configurations switch the deadlock check off: requests, sales and rows are
bounded, and a shop may simply stop.

| Run | Shows | Bounds |
|---|---|---|
| `FifoLines` | snapshot and batches differ by voided units alone; lines are allocated in full and returns fit; status tells balance; `StockPosition` is implemented | 2 lines, 3 rows, quantities 1 and 2, opening stock -1, 0 or 2, one day: a line may take from two rows and a shortage, be returned in two parts, and meet a legacy row below zero |
| `FifoWalk` | the loops against `FifoInventory`; they never refuse a return | 3 rows of 0 to 2 over 2 days and a free one, requests of 1, 2 and 4: ties, gaps, exact fits and shortages, and several returns of a line |
| `StockRaces` | drift needs a transaction that read the product before FIFO and committed on or beside it; a count overwrites nothing it has not seen | 2 checkouts, 1 receipt, 2 counts, 1 review: a commit between the two statements of an assertion |
| `ShiftDay` | expected cash is the drawer less the change; CASH_OUTs are covered; a close without an acknowledgement saw no shortage; the scheduler overrides nobody; expired shifts close and closes are recorded (liveness) | 1 shift, a sale with its refund and void, a movement, a float correction, a midnight, a manager's close and the scheduler's, a failing statement or restart: every pair of a look and the write of another, and closes that overlap and record in another order |
| `DailyInvoice` | an invoice misses only late work; a shift has one invoice unless posters raced a call or a second close dated it anew | 1 shift, a sale with its refund and void, a manager's close and a pass that overlap around a midnight, calls lost, late and refused, a failing statement or restart |
| `TillCart` | a line is sold once unless confirmed again while a call is open; what is shown is sold, but for changes of price; refusals are explained | 2 lines of one product at 5 cents and cost 2, then at 7 and cost 4, up to two units, 10 % or 4 cents off, 4 changes, 2 checkouts, a credit of 7 cents: half cents, a discount above its line, one below cost, a credit above the total, a price or product that changes between the line and its sale |
| `BukkuSync` | stale prices were missed; an item has one row; edits survive a run; items converge (liveness) | 2 items that claim one SKU, 2 versions, 4 rows, a manager's product with that SKU and one SKU to change to, a bundle, an archived version, a failure |
| `BatchUpdate` | a file changes stock once | 3 files (create, move stock, delete), 2 requests to commit each, 2 products |
| `OfflineTwoTabs` | one sale per id; receipts are kept; what is put back was recorded | 1 sale, 2 tabs of a device, strangers, lapsing sessions, closes |
| `OfflineSync` | queued sales sync while passes come again (liveness) | 2 sales, the first of which never syncs as it is discounted below cost, lapsing sessions, a scheduled close |
| `SaleMoney` | no credit is spent twice; the books balance; returns stay within their line; cash refunds are counted; the dashboard's figures differ by two things only | 2 sales of 2 units at 3 cents, whole or at half price, 2 payments of 1 or 3 each, 2 returns, 2 shifts: an odd cent to round, credit left over, split payments and change |
| `PrintQueue` | bytes do not interleave; PRINTED is on paper; jobs end (liveness) | 2 receipts of a sale, a test page, a fallback, a restart: one waits behind two that fail |

Two actors and one failure show every pairwise race of these handlers; where a
third row or actor matters (rows between two others, an entry behind one that
never syncs, a job behind two), it is there. The largest are `TillCart` with 7.0
million distinct states, `OfflineTwoTabs` with 2.0, `BatchUpdate` with 1.6 and
`BukkuSync` with 1.2. No run has two shifts of a register or two movements at once:
`OneShiftAtATime`, and what `CashOutsAreCovered` says of several CASH_OUTs, are
only proved.

The properties state what the code does keep; where it breaks what a message or
a comment of it says, the property has the exception by name. A void of a FIFO
sale leaves the batches as they were, so that `FIFO stock invariant failed`
(`inventory/fifo.ts:19`) meets whoever touches the product next: the voided
units are in `StockMatchesBatches`. Change is subtracted from amounts that are
net of it, against the comment at `checkout/checkout-calculator.ts:64`: the
change is in `ExpectedShortByChange`. A queued sale that needs an approval never
syncs: `QueuedSalesSync` leaves it out. The dashboard takes line discounts off product
revenue twice, and shows what is bought with a credit twice among the payments:
both are in `FiguresDiffer`. `EditsSurviveRuns` is about edits that were queued
before a run began: one made between the look for pending jobs and the writes of
that item is lost. `ClosesAreRecorded` holds for closes after which no statement
failed and the server did not restart. `UnacknowledgedShortagesWereUnseen` excepts
a close whose record is missing or not the latest.

The models also show, without a run of their own:

- A checkout that read the product before FIFO commits beside the approval of
  its legacy stock, after its assertion or between the two statements of it, and
  the tables drift (`strays` in `StockIsolation`); a count likewise.
- Goods returned to a shortage that was settled in part stay on a row with
  status SHORTAGE, where no sale takes them (`RestockReturn`).
- A register can get two open shifts, and two cash-outs can overdraw a drawer:
  the check and the write are two statements (`crowded`, `rushed`).
- A sale, refund, movement or correction in flight lands in a shift after its
  close; the scheduler may close over a shortage that was in flight; a receipt may
  be voided after its shift was closed.
- A restart or a failing statement between a close and its record loses the record
  and with it a manager's acknowledgement; the scheduler swallows the error and
  does not come back (`CloseAudit`, `SweepFails`).
- Two overlapping closes can post two invoices, and so can a call that outlives
  its timer (`raced`). Two closes that overlap across midnight of UTC give a shift
  two invoice numbers, and two invoices without any race of calls (`redated`).
  Nothing comes back to a daily invoice that waits for
  review or failed; a void after the posting is not carried to Bukku; an empty
  shift posts an invoice without lines (`AwaitReview`, `Prepare`).
- A till restored offline has no session token: what it sells waits in the queue
  until somebody signs in (`RestoreOffline`).
- Confirming twice while the first call is open, or again after a reload, sells
  the cart twice (`exposed` in `LinesSoldOnce`).
- A queued sale waits when nothing begins a pass: no timer does, only the online
  event, Sync now, a sign-in, a restored session and a close (`app.js:426`, `1232`,
  `1362`, `1460`, `1473`). One that is discounted below cost waits for good.
- The till offers payments the server refuses: computed amounts with fractions
  of cents, cash prefilled below the unrounded total, a sale that is free
  (`RefusalsExplained`).
- A discount below cost is refused whoever gives it, though the till has a dialog
  for a manager's PIN: it cannot open (`Sellable`).
- After a change of price the cart shows the old total: card and split payments
  are refused, cash that covers the new price is taken with less change, and a sale
  queued at the old price is refused at its replay, or booked at the new one
  (`ShownIsSold`).
- The minus button can leave a ten-thousandth of a unit on a line; lines added
  while a checkout is open vanish with its answer; an error of a discount blocks
  the payment after its line is gone, because errors are kept by position.
- The import activates a product again that a manager archived, and stores prices
  over an edit that was made during the run (`SaveUpdate`, `StorePrice`); a run
  that stops between the hash and the prices never fetches them again (`missed`).
- An import that stops between a row and its reference, or a product that is
  deleted while it is mapped, can leave an item at which every later run throws
  (`Wedged`); a contact is created twice; and when a manager renames the SKU of
  such a row, the next run creates a second one (`OneRowEach`).
- A file uploaded again shows the preview of its first upload; its rows overwrite
  edits made since and queue nothing for Bukku; a deactivation lifts the mark of
  a deletion (`Preview`, `Commit`).
- Closing a shift on one device does not wait for the queue of another
  (`CloseCheck` of `OfflineSales`).
- A void marks a payment by store credit refunded and puts nothing back on the
  credit (`kept` in `BooksBalance`).
- After a discount on the whole sale a refund or an exchange is worth more than
  was paid, since it is a share of the line total (as `src/docs/API.md:107` has
  it).
- Disposed goods refunded in cash without a shift are in no shift's summary
  (`Uncounted`).
- Store credit tendered beyond the total, next to a smaller cash payment, gives
  that cash payment a negative amount (`SettlePayments`).
- A print attempt that fails after its last byte is tried again on the fallback:
  two copies. A job cut off by a restart stays SENDING, and two requests for one
  receipt may both print an original.

## Fairness

- `CashierShift!FairSpec`: weak fairness of a close and of a pass once begun,
  as Node runs a handler on; strong fairness of the scheduler's return to each
  shift, because its timer fires every minute (`setInterval` in `onModuleInit`)
  and every pass visits all shifts that are open and expired. The pass is
  restarted with the server, so a crash does not end it.
- `BukkuSync!Spec`: weak fairness of the import, `WF_vars(Sync)`: a run goes on
  and another begins, as the timer of `bukku-auto-sync.service.ts` starts one
  every half hour while a shift is open. Failures are bounded.
- `PrintQueue!Fairness`: a handler runs on once begun, and a document whose turn
  has come is accepted, refused or broken off: the LAN transport has a timer of
  five seconds, the spooler one of fifteen, and the serial write is synchronous.
  The one call without a timer is that of Windows' `mode.com`, which sets up a
  serial port (`thermal-printer.service.ts:107`); it is taken to return.
- `OfflineSales!FairSpec`: a pass that has begun goes on, as the browser runs its
  handler; and of the calls of a sale that carries no discount below cost not every
  one is lost or refused, which is the assumption that the network and the server
  recover. That passes begin again is not assumed. `QueuedSalesSync` has it as a
  premise, `PassesComeAgain(t)`: passes of the tab are under way again and again
  with a valid token of the shift's cashier, and in the end none is cut off by a
  reload or a lapsing session.

## Proofs

`FifoInventory_proofs` proves, for every number of rows and lines, every set of
quantities and counts and every opening stock, from the five assumptions on
constants in `FifoInventory`:

| Theorem | States |
|---|---|
| `TypeCorrect` | `Spec => []TypeOK` |
| `StockAlwaysMatchesBatches` | `Spec => []StockMatchesBatches` |
| `ReturnsAlwaysFit` | `Spec => []ReturnsFit` |
| `StatusAlwaysTellsBalance` | `Spec => []StatusTellsBalance` |
| `BookkeepingKept` | `Spec => []Bookkeeping` |
| `PositionImplemented` | `Spec => ImplementsPosition` |

All rest on one inductive invariant `IInv`, the conjunction of the seven
invariants of `FifoLines`. None of them is inductive alone: that a receipt
keeps the balance needs that a purchase draft counts for nothing (`Bookkeeping`);
that a settlement keeps it needs that a SHORTAGE row is not empty
(`StatusTellsBalance`); that a return keeps it needs that a row a line consumed
is counted again once goods are back on it (`Bookkeeping`); that a return fits
needs that a line is allocated in full or not at all (`AllocationsCoverSale`).
The proof has one step for each action and under it one for each conjunct it can
disturb.

`SaleMoney_proofs`, for every number of sales, returns, shifts and payments and
all prices, quantities and discounts:

| Theorem | States |
|---|---|
| `Types`, `ReceiptsSettled` | `Spec => []TypeOK`, `Spec => []Settled` |
| `CreditsHold` | `Spec => []CreditsAddUp` |
| `BooksHold` | `Spec => []BooksBalance` |
| `LinesHold` | `Spec => []ReturnsWithinLine` |
| `CashHolds` | `Spec => []CashRefundsAreCounted` |

Its `IInv` adds to the checked invariants that a sale's payments add up to its
total (`Settled`) and that a refund is paid out when it is made (`PaidAtOnce`).
A void changes what credits have been spent on but not how much, which is why
`CreditsAddUp` counts voided sales. The books are not inductive by themselves
but follow from `Settled` and `CreditsAddUp`: the credit spent, summed by sale,
is the credit spent, summed by return (`SumSwap`). The share of each return of a
line is rounded on its own, so the error grows by at most half a cent with each;
`LineInv` carries that the line of every return exists.

`FiguresExplained` is `Spec => []FiguresDiffer`. It needs `PricesAddUp`: total
plus discount is the line total plus the line discount, for each receipt. The
rest is sums: what returns have not paid out is summed by sale and by return.

`StockSteps_proofs` goes below the transactions of `FifoInventory`. The first
part is about `StockIsolation`, for any sets of checkouts, receipts, counts and
reviews, any opening tables and any quantities:

| Theorem | States |
|---|---|
| `TypesHold` | `Spec => []TypeOK`; it says that goods are never below zero |
| `TablesAgree` | `Spec => []DriftNeedsStray` |
| `CountsSeeWhatTheyReplace` | `Spec => []CountsOverwriteNothing` |

Its invariant says, of each transaction by itself, at which statement it can be
(`Stages`), which rows it has locked by then (`Locked`), what it will change
(`Changes`), what a snapshot still says of rows that nobody has written since
(`Snapshot`), and that what an assertion found still holds at the commit
(`StillAsserted`), unless there was a stray. The last two are the argument: a serializable transaction
that gets the lock of a snapshot row it has read finds it as it was read, for
`MayLock` refuses it otherwise; and since everybody takes that row, the batches
are as they were read too.

The second part is about `FifoWalk`, for tables of any size, any dates and any
requests:

| Theorem | States |
|---|---|
| `NothingIsLostOnTheWay` | `WalkSpec => []NothingGoesAstray` |
| `TakingIsAsStated` | `WalkSpec => []TakesInOrder` |
| `RestoringIsAsStated` | `WalkSpec => []RestoresInOrder` |
| `ReturnsAreCovered` | `WalkSpec => []NeverRefused` |

These are loop invariants: the rows passed come before those to come in the
order of the loop, and are exhausted while anything is needed (`Taking`,
`Giving`). So what `FifoInventory` asserts of a whole loop, and builds its
actions on, is what the loop computes.

`DailyInvoice_proofs`, for any sets of shifts, sales, requests and passes and
any amounts:

| Theorem | States |
|---|---|
| `TypesHold` | `Spec => []TypeOK` of `CashierShift` |
| `CashAddsUp` | `Spec => []ExpectedShortByChange` |
| `CashOutsStayCovered` | `Spec => []CashOutsAreCovered` |
| `ShiftsAreOneAtATime` | `Spec => []OneShiftAtATime` |
| `ShortagesAreAcknowledged` | `Spec => []UnacknowledgedShortagesWereUnseen` |
| `ManagersCloseStays` | `Spec => SchedulerNeverOverrides` |
| `DigestsRefineShifts` | `DaySpec => Spec`: digests take nothing from the above |
| `InvoicesAreWhole` | `DaySpec => []InvoicesMissOnlyLateWork` |
| `OneInvoicePerNumber` | `DaySpec => []InvoicedOnce` |

The invariant of the shifts says of each request at each statement what it has
checked and what of it still holds: a shift that is closed stays so, a sale that
was complete stays complete or is voided, and a close that goes on without an
acknowledgement has seen no sale that is short (`CloseOk`). A CASH_OUT that was
checked stays covered but for what is handed back meanwhile; a second opening
between the look and the row of the first is what `crowded` notes. The invariant
of the digests says what a shift's sales are, from the close on, in the poster's
hands, in a call on its way and in the invoice (`Carries`), and that without a
race a number has a call on its way or an invoice and not both (`Once`).

`Catalogue_proofs`, for every catalogue, every table of products and every
number of runs, faults, files and requests:

| Theorem | States |
|---|---|
| `EditsKept` | `Spec => EditsSurviveRuns` |
| `HeldRowsLeftAlone` | the invariant under it |
| `PricesAccountedFor` | `Spec => []StalePricesWereMissed` |
| `RowsAreOne` | `Spec => []OneRowEach` |
| `FilesCountOnce` | `UploadSpec => []BatchesApplyOnce` |

A run looks for the pending jobs of an item before it saves it, and fetches
prices only for items that it saved; so the row in hand and the rows to refresh
are never among those that were queued when it began (`HeldLeftAlone`), although
edits are queued all the time. For the prices, the invariant follows the debt: a
row between its name and its mapping (`PricesNoted`), then owed under its item
until the prices are stored, given up or lost with the run (`OwedAsMapped`), and
no item is saved twice in a run (`OwedInTurn`). For the rows it says what a run
that is about to create one has found (`NoneChosen`, `OneChosen`) and which SKU it would give it (`SkuPicked`), and what a
row without a reference must come from (`LeftBehind`). A file is committed row by
row; that its rows move together what they say is proved by induction over them
(`FileMoves`), and that it happens once rests on the status read under the lock.

`Till_proofs`, first for the queue (`OfflineSales`), for every number of sales,
tabs and devices, any set of approvals and all the faults of the model:

| Theorem | States |
|---|---|
| `NeverTwice` | `Spec => []OneSalePerId` |
| `NeverLost` | `Spec => []ReceiptsKept` |
| `PutBackIsHarmless` | `Spec => PutBackWasRecorded` |

That a receipt is kept needs that an answer ok is only of a recorded sale
(`OkIsRecorded`), since the answer takes the entry off the queue. That an entry
put back is of a recorded sale needs that all a pass has still to send or waits
for is queued or recorded (`PassesAreSafe`): another tab of the device takes an
entry off only after such an answer. Calls whose client is gone can
record a sale late but take nothing off a queue.

Then for the cart (`TillCart`), for every number of lines, items and calls, all
prices and costs, all quantities and all discounts:

| Theorem | States |
|---|---|
| `LinesAreSoldOnce` | `CartSpec => []LinesSoldOnce` |
| `TotalsShownAreSold` | `CartSpec => []ShownIsSold` |
| `RefusalsHaveReasons` | `CartSpec => RefusalsExplained` |

`CartInv` has two ideas. A call that nothing has disturbed since it was
confirmed is of the cart as it is (`Followed`), so what was checked when it was
sent (`WellSent`) is what the server computes with. And a discount was checked
against its line as it was when it was typed (`LinesHonest`). On these rests the
arithmetic: the server rounds each line's gross and each percentage and the till
does not, half a cent at most for each (`TotalsAgree`); a new tariff moves a total
by no more than the gross amounts of the lines, because no discount makes a change
larger (`LineMoves`, `TotalsMove`); in whole cents the totals agree
(`WholeTotals`), payments settle (`WholePayments`), and every check of the server
passes for a call to which there is no objection (`SoundCallsAreAcceptable`).

`PrintQueue_proofs`, for every set of receipts and test pages and any number of
restarts: `OneDocumentAtATime` is `Spec => NoInterleaving`,
`PrintedRowsAreTrue` is `Spec => []PrintedIsOnPaper`. The invariant: requests
that wait for the transport are in the chain, each once (`InChain`), only its
first is being sent and the last bytes received are that document's own
(`OneAtATime`); a request at "sent" has its last attempt on paper, and nothing
happens to a job after its row is PRINTED (`OnPaper`).

`QuantitySums_proofs` has the lemmas on sums: the sum is well defined, changes
by the difference when one entry changes, adds up pointwise, is monotone, and a
double sum may be taken in either order (`SumSwap`). They are proved by
induction over the recursive function that `SumOf` is.

The proofs use the assumptions on constants that the modules declare. Most give
a bound or a set its type. Those that say more: transactions of different kinds
are different, and nobody is the free lock (`KindsDiffer`, `FreeIsNobody` of
`StockIsolation`); no shift or request is called none, and managers' requests are
not passes of the scheduler (`NoneIsNobody`, `ClosersDiffer`); there is a tariff,
and nothing in it is free (`TariffDomain`); rows of a file move
stock only when they are stock rows (`FileDomain`); percentages are at most 100,
as the till (`app.js:300`) and the server (`checkout-calculator.ts:14`) both
demand (`DiscountDomain`).

Every safety property that a run checks is proved, and `OneShiftAtATime` is proved
without a run. Only model-checked is
liveness (`ExpiredShiftCloses`, `ClosesAreRecorded`, `QueuedSalesSync`,
`ItemsConverge`, `JobsEnd`): it rests on fairness, and the prover does not reason
about ENABLED. What the modules leave out, below, is neither checked nor proved.

## Not modelled

- Costs, values and the running ledger: they follow quantities.
- Several products in one transaction: each product has its own snapshot and
  batches; what they share is the order of locks, where PostgreSQL aborts one of
  two transactions.
- Several locations: batches and snapshots are keyed by location. Enabling FIFO
  is by product, so a product may come under FIFO at a location whose stock was
  never reviewed.
- Price levels, the period for returns, and who may approve what on the server;
  receipts of `SaleMoney` have one line.
- A failing database, but for the statements of a close and updates of a print
  job before the last.
- The figures of the digest, the shift report and the workbook, and costs, stock
  values and the ledger view of the back office: read-only, from rows that the
  modules have.
- Units and barcodes of imported products, and the mapping of Bukku's fields.
- E-invoice requests: a look, then a create under a unique token; of two
  submissions that overlap the database refuses one.
- Product search: text to tokens to ranks, no state and no order of events; its
  unit tests fix it case by case.
- Users, roles, PINs and company settings: one statement each, last write wins.
- Taxes, printing layout, deployment, the print companion: user interface or no
  order of events.

## Plan

1. Done: the modules above, their runs, and the proofs below them.
2. Models next: costs and the running value of the ledger next to quantities;
   several locations of one product under FIFO; `BukkuSync` and `BatchUpdate` on
   one catalogue at once.
3. Proofs next: the same for the models of item 2 when they are there, and that
   `StockIsolation` implements `StockPosition` when no transaction strayed.

--------------------------- MODULE StockPosition ---------------------------
(***************************************************************************)
(* What the stock of a product promises, without rows, lines or statuses:  *)
(* a number shown on hand and a number held in batches.  Under FIFO the    *)
(* two move together.  The one exception is a void, which raises the       *)
(* number on hand alone; from then on nothing moves but further voids.     *)
(* FifoInventory implements this specification.                            *)
(***************************************************************************)
EXTENDS Integers

VARIABLES
  enabled,  \* the product is under FIFO
  onHand,   \* the quantity shown on hand
  held,     \* the quantity held in batches, open shortages being negative
  adrift    \* what voids have added to onHand alone

position == <<enabled, onHand, held, adrift>>

PositionInit ==
  /\ enabled \in BOOLEAN
  /\ onHand \in Int
  /\ held = 0
  /\ adrift = 0
  /\ enabled => onHand = 0

\* Before FIFO the two numbers are unrelated until the step that enables it.
BeforeFifo ==
  /\ ~enabled
  /\ enabled' \in BOOLEAN
  /\ onHand' \in Int
  /\ held' \in Int
  /\ enabled' => onHand' = held'
  /\ adrift' = adrift

\* A sale, a return, a receipt or a count.
MoveTogether ==
  /\ enabled
  /\ adrift = 0
  /\ held' \in Int
  /\ onHand' = onHand + (held' - held)
  /\ UNCHANGED <<enabled, adrift>>

Void ==
  /\ enabled
  /\ adrift' \in Nat
  /\ adrift' > adrift
  /\ onHand' = onHand + (adrift' - adrift)
  /\ UNCHANGED <<enabled, held>>

PositionNext == BeforeFifo \/ MoveTogether \/ Void

PositionSpec == PositionInit /\ [][PositionNext]_position
=============================================================================

--------------------------- MODULE MCBatchUpdate ---------------------------
(* Small instances of BatchUpdate for TLC: a file that creates, one that moves *)
(* stock and one that deletes.                                                 *)
EXTENDS BatchUpdate

CONSTANTS x, y

Row(action, sku, delta) == [action |-> action, sku |-> sku, delta |-> delta]

MCContents ==
  << <<Row("create", y, 0), Row("deactivate", x, 0)>>,
     <<Row("adjust_stock", x, 2), Row("update", x, 0), Row("reactivate", x, 0)>>,
     <<Row("delete", y, 0)>> >>

MCSkuOf == [e \in Items |-> x]
=============================================================================

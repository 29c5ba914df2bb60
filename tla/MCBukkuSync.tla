---------------------------- MODULE MCBukkuSync ----------------------------
(* Small instances of BukkuSync for TLC. *)
EXTENDS BukkuSync

CONSTANTS x, z

\* Both items claim one SKU, item 1 is archived and item 2 becomes a bundle.
MCSkuOf    == [e \in Items |-> x]
MCArchives == {<<1, 2>>}
MCBundles  == {<<2, 2>>}
=============================================================================

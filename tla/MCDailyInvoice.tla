--------------------------- MODULE MCDailyInvoice ---------------------------
(* Small instances of DailyInvoice for TLC. *)
EXTENDS DailyInvoice

MCZero    == {0}
MCOne     == {1}
MCNever   == {FALSE}
=============================================================================

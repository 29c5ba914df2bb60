---------------------------- MODULE MCPrintQueue ----------------------------
(* Small instances of PrintQueue for TLC. *)
EXTENDS PrintQueue

CONSTANTS j1, j2, t1, x1

MCSaleOf == [j \in {j1, j2} |-> x1]
=============================================================================

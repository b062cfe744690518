------------------------- MODULE MCOrderSettlement -------------------------
(***************************************************************************)
(* Instances of OrderSettlement for TLC.  No symmetry: the runs check      *)
(* liveness, and check ids are drawn in order.                             *)
(***************************************************************************)
EXTENDS OrderSettlement, TLC

CONSTANTS c1, c2

(* One caller at the order, one at its money; both may cancel.             *)
MCOps == c1 :> {"status", "cancel"} @@ c2 :> {"pay", "ensure", "cancel"}
============================================================================

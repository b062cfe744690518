---------------------------- MODULE MCCheckRefund ----------------------------
(***************************************************************************)
(* Two small refunds of one amount and one that, with either of them, uses *)
(* up the sale.                                                            *)
(***************************************************************************)
EXTENDS CheckRefund

CONSTANTS c1, c2, c3, small, other, large

MCAmountOf == [i \in Intents |-> IF i = large THEN 2 ELSE 1]
=============================================================================

---------------------------- MODULE MCShiftLedger ----------------------------
(***************************************************************************)
(* Small instance of ShiftLedger: two shifts on one register, three        *)
(* movements (two share an id, one is a payout), two facts.                *)
(***************************************************************************)
EXTENDS ShiftLedger, TLC

CONSTANTS s1, s2, reg1, sale, refund, MaxVersion

MCMovements ==
  { [id |-> 1, kind |-> "paid_out", amount |-> 2],
    [id |-> 1, kind |-> "paid_in",  amount |-> 1],
    [id |-> 2, kind |-> "safe_drop", amount |-> 1] }

MCCash == [f \in Facts |-> IF f = refund THEN -1 ELSE 1]

MCAmounts == {0, 1}

(* Bound: clients stop touching a shift at version MaxVersion.             *)
BoundedVersions == \A s \in Shifts : Exists(s) => shift[s].version < MaxVersion

MCSymmetry == Permutations({s1, s2})
=============================================================================

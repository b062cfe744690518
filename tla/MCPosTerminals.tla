----------------------------- MODULE MCPosTerminals -----------------------------
(* Instances of PosTerminals for TLC: a restaurant with a provisioned and a *)
(* deactivated terminal, one slot and room for a third code.               *)
EXTENDS PosTerminals, TLC

CONSTANTS r1, r2, r3, MaxLate

ASSUME MaxLate \in Nat

MCStart == [k \in Codes |-> CASE k = 1 -> "registered" [] k = 2 -> "deactivated"
                              [] OTHER -> "none"]

(* Terminals can be activated late again and again: a bound for TLC.       *)
FewLate == late <= MaxLate

RequestSymmetry == Permutations(Requests)
=============================================================================

---------------------------- MODULE MCCashCustody ----------------------------
(***************************************************************************)
(* Small instances of CashCustody. Each configuration lets clients use the *)
(* operations of one question (Ops).                                       *)
(***************************************************************************)
EXTENDS CashCustody, TLC

CONSTANTS s1, s2, reg1, sale, r1, r2, MaxVersion, MaxRegisterVersion

OneMovement == { [id |-> 1, kind |-> "paid_out", amount |-> 1] }

MCNoMovements == {}

MCCash == [f \in Facts |-> 1]

OneAmount == {1}

(* A register that was provisioned, activated and put on duty.             *)
MCOnDuty == [status |-> "active", duty |-> "open", archived |-> FALSE, version |-> 3]

RequestSymmetry == Permutations(Requests)
Interchangeable == RequestSymmetry \cup Permutations(Shifts)

(* Bounds: exploration stops at shifts of version MaxVersion and at        *)
(* registers of version MaxRegisterVersion.                                *)
BoundedVersions ==
  /\ \A s \in Shifts : Exists(s) => shift[s].version < MaxVersion
  /\ \A k \in Registers :
       register[k] # NoRegister => register[k].version < MaxRegisterVersion
=============================================================================

----------------------------- MODULE ShiftLedger -----------------------------
(***************************************************************************)
(* What the cash custody store promises: however requests interleave,      *)
(* every committed change of a shift is one domain command applied to the  *)
(* shift as it stood at that moment, and the unique indexes of the store   *)
(* hold.  CashCustody, with its separate reads and its version-checked     *)
(* write, is shown to implement this specification.                        *)
(***************************************************************************)
EXTENDS FinancialShift

VARIABLE shift      \* shift[s]: the stored graph of shift s, or NoShift

Exists(s) == shift[s] # NoShift

(* Unique indexes on collectionFactId / settlementRecordId and movementId. *)
KeysFree(s, g) ==
  \A t \in Shifts \ {s} : Exists(t) =>
    /\ g.attrs \cap shift[t].attrs = {}
    /\ \A m \in g.moves, n \in shift[t].moves : m.id # n.id

LedgerInit == shift = [s \in Shifts |-> NoShift]

Insert(s, k, float) ==
  /\ ~Exists(s)
  /\ shift' = [shift EXCEPT ![s] = NewShift(k, float)]

Apply(c) ==
  /\ Exists(c.shift)
  /\ \E h \in Outcome(c, shift[c.shift]) :
       /\ KeysFree(c.shift, h)
       /\ shift' = [shift EXCEPT ![c.shift] = h]

LedgerNext ==
  \/ \E s \in Shifts, k \in Registers, float \in Amounts : Insert(s, k, float)
  \/ \E c \in ShiftCommand : Apply(c)

LedgerSpec == LedgerInit /\ [][LedgerNext]_shift

-----------------------------------------------------------------------------
LedgerTypeOK == shift \in [Shifts -> Graph \cup {NoShift}]

(* How a shift came to its end matches what it holds: a counted close has  *)
(* exactly one final count, a cancelled one never held custody, and only   *)
(* an ended shift carries a close reason.                                  *)
Accounted(g) ==
  /\ \A c, d \in g.finals : c = d
  /\ g.status \in Terminal <=> g.reason # "none"
  /\ g.reason \in {"normal", "handover"} => g.finals # {}
  /\ g.reason = "cancelled_empty" => g.moves = {} /\ g.attrs = {} /\ g.finals = {}
  /\ g.status = "handover_pending" <=> g.handover = "pending"
  /\ g.reason = "handover" <=> g.handover = "accepted"

EndIsAccounted == \A s \in Shifts : Exists(s) => Accounted(shift[s])

(* Recorded custody is never lost or rewritten: movements, attributions    *)
(* and final counts of a stored shift only accumulate (FC-INV-02).         *)
CustodyOnlyGrows ==
  [][\A s \in Shifts : Exists(s) =>
       /\ shift'[s] # NoShift
       /\ shift[s].moves \subseteq shift'[s].moves
       /\ shift[s].attrs \subseteq shift'[s].attrs
       /\ shift[s].finals \subseteq shift'[s].finals
       /\ shift[s].float = shift'[s].float
       /\ shift[s].register = shift'[s].register]_shift

(* A closed shift is immutable for custody and attribution membership      *)
(* (CR-INV-02) and never becomes active again (OL-INV-07); archived is     *)
(* reached from closed only (OL-INV-08).                                   *)
ClosedIsFrozen ==
  [][\A s \in Shifts : Exists(s) =>
       /\ shift[s].status \in Terminal =>
            \/ shift'[s] = shift[s]
            \/ /\ shift[s].status = "closed"
               /\ shift'[s] = Enter(shift[s], "archived")
       /\ shift'[s].status = "archived" => shift[s].status \in Terminal]_shift

(* The version is what every reader's later write is checked against: no   *)
(* content changes under an unchanged version.                             *)
VersionTellsChange ==
  [][\A s \in Shifts : Exists(s) =>
       \/ shift'[s] = shift[s]
       \/ shift'[s].version > shift[s].version]_shift

(* Cash paid out or dropped was there: right after a payout is recorded    *)
(* the drawer is not expected to be below zero.                            *)
PayoutIsCovered ==
  [][\A s \in Shifts : Exists(s) =>
       \A m \in shift'[s].moves \ shift[s].moves :
         m.kind \in {"paid_out", "safe_drop"} => ExpectedCash(shift'[s]) >= 0]_shift

=============================================================================

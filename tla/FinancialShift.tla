--------------------------- MODULE FinancialShift ---------------------------
(***************************************************************************)
(* The Financial Shift aggregate of the cash register platform: what each  *)
(* domain command makes of a shift graph that was read from the database.  *)
(* The commands are pure (shared/crmp/financialShift): a command that      *)
(* throws has no outcome, one that finds its effect already there returns  *)
(* the graph it was given, any other returns a new graph one version up.   *)
(* Money is whole cents; a currency, a person, an instant and a reason     *)
(* text have no effect on a decision below and are left out.               *)
(***************************************************************************)
EXTENDS Integers, FiniteSets, FiniteSetsExt

CONSTANTS
  Shifts,       \* identities a Financial Shift may get
  Registers,    \* identities of cash registers
  Movements,    \* drawer movements a client may record, see MovementOK
  Facts,        \* Collection Facts and Settlement Records, by identity
  Cash,         \* Cash[f]: the signed cash amount attributed for fact f
  Amounts,      \* opening floats and counted amounts
  Ops,          \* the operations clients use
  NoShift       \* what a query for an absent shift returns

MovementKinds == {"paid_in", "paid_out", "safe_drop", "manual_adjustment"}

MovementOK(m) ==
  /\ m.kind \in MovementKinds
  /\ m.amount \in Int
  /\ m.kind # "manual_adjustment" => m.amount > 0
  /\ m.amount # 0

Active   == {"open", "suspended", "closing", "handover_pending"}
Terminal == {"closed", "archived"}

FinalCount == [actual: Amounts, moves: SUBSET Movements, attrs: SUBSET Facts]

Graph ==
  [register: Registers, status: Active \cup Terminal, version: Nat \ {0},
   reason: {"none", "normal", "handover", "cancelled_empty"},
   float: Amounts, moves: SUBSET Movements, interim: BOOLEAN,
   finals: SUBSET FinalCount,
   handover: {"none", "pending", "rejected", "accepted"},
   attrs: SUBSET Facts]

ASSUME MovementsAssumption == \A m \in Movements : MovementOK(m)
ASSUME AmountsAssumption == Amounts \subseteq Nat
ASSUME CashAssumption == Cash \in [Facts -> Int]
ASSUME NoShiftAssumption == NoShift \notin Graph

-----------------------------------------------------------------------------
(* Commands as records; the fields besides op and shift are their inputs.  *)

PlainOps == {"suspend", "resume", "beginClose", "abortClose", "close",
             "cancelOpen", "archive", "interimCount",
             "initiateHandover", "rejectHandover"}

ShiftCommand ==
       [op: Ops \cap PlainOps, shift: Shifts]
  \cup [op: Ops \cap {"movement"}, shift: Shifts, movement: Movements]
  \cup [op: Ops \cap {"finalCount"}, shift: Shifts, actual: Amounts]
  \cup [op: Ops \cap {"closeWithFinalCount"}, shift: Shifts,
        actual: Amounts, closeDuty: BOOLEAN]
  \cup [op: Ops \cap {"attribution"}, shift: Shifts, fact: Facts]
  \cup [op: Ops \cap {"acceptHandover"}, shift: Shifts, successor: Shifts]

-----------------------------------------------------------------------------
When(condition, g) == IF condition THEN {g} ELSE {}

(* Mutant of Bump: the version is not advanced.                            *)
BumpNothing(g) == g

Bump(g) == [g EXCEPT !.version = @ + 1]
Enter(g, status) == [g EXCEPT !.status = status, !.version = @ + 1]
Finish(g, why) ==
  [g EXCEPT !.status = "closed", !.reason = why, !.version = @ + 1]

(* Mutant of NewShift: versions start at 0, which clients send for none.   *)
NewShiftVersionZero(k, float) ==
  [register |-> k, status |-> "open", version |-> 0, reason |-> "none",
   float |-> float, moves |-> {}, interim |-> FALSE, finals |-> {},
   handover |-> "none", attrs |-> {}]

NewShift(k, float) ==
  [register |-> k, status |-> "open", version |-> 1, reason |-> "none",
   float |-> float, moves |-> {}, interim |-> FALSE, finals |-> {},
   handover |-> "none", attrs |-> {}]

(* What a movement does to the cash that should be in the drawer.          *)
Delta(m) == IF m.kind \in {"paid_out", "safe_drop"} THEN -m.amount ELSE m.amount

ExpectedOver(float, moves, attrs) ==
  float + SumFunctionOnSet([m \in moves |-> Delta(m)], moves)
        + SumFunctionOnSet(Cash, attrs)

ExpectedCash(g) == ExpectedOver(g.float, g.moves, g.attrs)

(* Mutant of IsEmptyCancellable: the attributions are forgotten.           *)
IsEmptyButForSales(g) ==
  g.status = "open" /\ g.moves = {} /\ ~g.interim /\ g.finals = {} /\ g.handover = "none"

IsEmptyCancellable(g) ==
  /\ g.status = "open"
  /\ g.attrs = {} /\ g.moves = {}
  /\ ~g.interim /\ g.finals = {}
  /\ g.handover = "none"

Suspend(g)    == When(g.status = "suspended", g)
                 \cup When(g.status = "open", Enter(g, "suspended"))
Resume(g)     == When(g.status = "open", g)
                 \cup When(g.status = "suspended", Enter(g, "open"))
BeginClose(g) == When(g.status = "closing", g)
                 \cup When(g.status \in {"open", "suspended"}, Enter(g, "closing"))
AbortClose(g) == When(g.status = "open", g)
                 \cup When(g.status = "closing" /\ g.finals = {}, Enter(g, "open"))
Close(g)      == When(g.status \in Terminal, g)
                 \cup When(g.status \in {"open", "closing"} /\ g.finals # {},
                           Finish(g, "normal"))
CancelOpen(g) == When(g.status = "closed" /\ g.reason = "cancelled_empty", g)
                 \cup When(IsEmptyCancellable(g), Finish(g, "cancelled_empty"))
Archive(g)    == When(g.status = "archived", g)
                 \cup When(g.status = "closed", Enter(g, "archived"))

(* Mutants of RecordMovement: a movement sent again with another payload   *)
(* replaces the recorded one; safe drops are not held against the drawer.  *)
RecordMovementReplacing(g, m) ==
  When(g.status = "open" /\ (m.kind \in {"paid_out", "safe_drop"} => m.amount <= ExpectedCash(g)),
       Bump([g EXCEPT !.moves = {n \in @ : n.id # m.id} \cup {m}]))
RecordMovementUncovered(g, m) ==
  When(/\ g.status = "open" /\ \A n \in g.moves : n.id # m.id
       /\ m.kind = "paid_out" => m.amount <= ExpectedCash(g),
       Bump([g EXCEPT !.moves = @ \cup {m}]))

(* A known movement id is a replay when the payload is the same and a      *)
(* conflict otherwise; cash may leave the drawer only if it should be in.  *)
RecordMovement(g, m) ==
  LET known == {n \in g.moves : n.id = m.id}
      covered == m.kind \in {"paid_out", "safe_drop"}
                   => m.amount <= ExpectedCash(g)
  IN  When(m \in known, g)
      \cup When(known = {} /\ g.status = "open" /\ covered,
                Bump([g EXCEPT !.moves = @ \cup {m}]))

RecordInterimCount(g) == When(g.status = "open", Bump([g EXCEPT !.interim = TRUE]))

(* The expected amount of a count is frozen with it: the count keeps the   *)
(* movements and attributions computeExpectedCash summed at that moment.   *)
RecordFinalCount(g, actual) ==
  LET allowed == g.status \in {"open", "closing", "handover_pending"}
      count == [actual |-> actual, moves |-> g.moves, attrs |-> g.attrs]
  IN  When(allowed /\ \E c \in g.finals : c.actual = actual, g)
      \cup When(allowed /\ g.finals = {}, Bump([g EXCEPT !.finals = {count}]))

(* Mutant of CloseWithFinalCount: the count is taken, the close left out.  *)
CountWithoutClose(g, actual) ==
  When(g.status \in Terminal, g) \cup RecordFinalCount(g, actual)

CloseWithFinalCount(g, actual) ==
  When(g.status \in Terminal, g)
  \cup UNION {Close(h) : h \in RecordFinalCount(g, actual)}

(* Mutant of CreateAttribution: the status of the shift is not asked.      *)
CreateAttributionAnytime(g, f) == When(f \notin g.attrs, Bump([g EXCEPT !.attrs = @ \cup {f}]))

CreateAttribution(g, f) ==
  When(g.status = "open" /\ f \in g.attrs, g)
  \cup When(g.status = "open" /\ f \notin g.attrs,
            Bump([g EXCEPT !.attrs = @ \cup {f}]))

InitiateHandover(g) ==
  When(g.status = "open", Enter([g EXCEPT !.handover = "pending"], "handover_pending"))
RejectHandover(g) ==
  When(g.status = "open" /\ g.handover = "rejected", g)
  \cup When(g.status = "handover_pending",
            Enter([g EXCEPT !.handover = "rejected"], "open"))
AcceptHandover(g) ==
  When(g.status = "handover_pending" /\ g.finals # {},
       Finish([g EXCEPT !.handover = "accepted"], "handover"))

(* The graphs command c may hand back for graph g; none when it throws.    *)
Outcome(c, g) ==
  CASE c.op = "suspend"             -> Suspend(g)
    [] c.op = "resume"              -> Resume(g)
    [] c.op = "beginClose"          -> BeginClose(g)
    [] c.op = "abortClose"          -> AbortClose(g)
    [] c.op = "close"               -> Close(g)
    [] c.op = "cancelOpen"          -> CancelOpen(g)
    [] c.op = "archive"             -> Archive(g)
    [] c.op = "interimCount"        -> RecordInterimCount(g)
    [] c.op = "initiateHandover"    -> InitiateHandover(g)
    [] c.op = "rejectHandover"      -> RejectHandover(g)
    [] c.op = "movement"            -> RecordMovement(g, c.movement)
    [] c.op = "finalCount"          -> RecordFinalCount(g, c.actual)
    [] c.op = "closeWithFinalCount" -> CloseWithFinalCount(g, c.actual)
    [] c.op = "attribution"         -> CreateAttribution(g, c.fact)
    [] c.op = "acceptHandover"      -> AcceptHandover(g)
=============================================================================

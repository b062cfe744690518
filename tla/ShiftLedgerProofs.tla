-------------------------- MODULE ShiftLedgerProofs --------------------------
(***************************************************************************)
(* Theorems about the custody ledger, for every set of shifts, registers,  *)
(* movements, facts, amounts and every choice of operations.               *)
(***************************************************************************)
EXTENDS ShiftLedger, SumLemmas, TLAPS

(* First, what the domain commands may hand back; the proofs about the     *)
(* store cite these facts and never open a command again.                  *)
AllOps == PlainOps \cup {"movement", "finalCount", "closeWithFinalCount",
                         "attribution", "acceptHandover"}

(* What every command keeps: h is a graph of the same shift that holds at  *)
(* least the custody g holds, and is g itself or has a later version.      *)
Extends(g, h) ==
  /\ h \in Graph
  /\ h.register = g.register /\ h.float = g.float
  /\ g.moves \subseteq h.moves
  /\ g.attrs \subseteq h.attrs
  /\ g.finals \subseteq h.finals
  /\ h = g \/ h.version > g.version

(* A command's record carries an operation the aggregate knows, and the    *)
(* input of its operation.                                                 *)
LEMMA CommandInput ==
  ASSUME NEW c \in ShiftCommand
  PROVE  /\ c.op \in AllOps /\ c.op \in Ops /\ c.shift \in Shifts
         /\ c.op = "movement" => c.movement \in Movements
         /\ c.op \in {"finalCount", "closeWithFinalCount"} => c.actual \in Amounts
         /\ c.op = "closeWithFinalCount" => c.closeDuty \in BOOLEAN
         /\ c.op = "attribution" => c.fact \in Facts
         /\ c.op = "acceptHandover" => c.successor \in Shifts
  BY DEF ShiftCommand, AllOps, PlainOps

(* Same version, no custody lost: what a command does before it bumps.     *)
Keeps(g, k) ==
  /\ k \in Graph
  /\ k.register = g.register /\ k.float = g.float /\ k.version = g.version
  /\ g.moves \subseteq k.moves
  /\ g.attrs \subseteq k.attrs
  /\ g.finals \subseteq k.finals

LEMMA KeepsSelf ==
  ASSUME NEW g \in Graph
  PROVE  Keeps(g, g) /\ Extends(g, g)
  BY DEF Keeps, Extends

(* The three ways a command ends: bump, enter a status, finish the shift.  *)
LEMMA StepExtends ==
  ASSUME NEW g \in Graph, NEW k, Keeps(g, k),
         NEW status \in Active \cup Terminal,
         NEW why \in {"none", "normal", "handover", "cancelled_empty"}
  PROVE  Extends(g, Bump(k)) /\ Extends(g, Enter(k, status)) /\ Extends(g, Finish(k, why))
<1>1. k \in Graph /\ k.version + 1 \in Nat \ {0} /\ k.version + 1 > g.version
  BY DEF Keeps, Graph
<1>2. Extends(g, Bump(k))
  <2>1. Bump(k) \in Graph
    BY <1>1 DEF Bump, Graph
  <2>2. /\ Bump(k).register = k.register /\ Bump(k).float = k.float
        /\ Bump(k).moves = k.moves /\ Bump(k).attrs = k.attrs
        /\ Bump(k).finals = k.finals /\ Bump(k).version = k.version + 1
    BY <1>1 DEF Bump, Graph
  <2> QED BY <1>1, <2>1, <2>2 DEF Keeps, Extends
<1>3. Extends(g, Enter(k, status))
  <2> DEFINE h == Enter(k, status)
  <2>1. h \in Graph
    BY <1>1 DEF Enter, Graph
  <2>2. /\ h.register = k.register /\ h.float = k.float
        /\ h.moves = k.moves /\ h.attrs = k.attrs
        /\ h.finals = k.finals /\ h.version = k.version + 1
    BY <1>1 DEF Enter, Graph
  <2> QED BY <1>1, <2>1, <2>2 DEF Keeps, Extends
<1>4. Extends(g, Finish(k, why))
  <2> DEFINE h == Finish(k, why)
  <2>1. h \in Graph
    BY <1>1 DEF Finish, Graph, Terminal
  <2>2. /\ h.register = k.register /\ h.float = k.float
        /\ h.moves = k.moves /\ h.attrs = k.attrs
        /\ h.finals = k.finals /\ h.version = k.version + 1
    BY <1>1 DEF Finish, Graph
  <2> QED BY <1>1, <2>1, <2>2 DEF Keeps, Extends
<1> QED BY <1>2, <1>3, <1>4

(* Closing a graph.                                                        *)
LEMMA CloseExtends ==
  ASSUME NEW g \in Graph, NEW h \in Close(g)
  PROVE  Extends(g, h)
<1>1. h = g \/ h = Finish(g, "normal")
  BY DEF Close, When
<1> QED BY <1>1, KeepsSelf, StepExtends DEF Active

(* Recording a final count.                                                *)
LEMMA FinalCountExtends ==
  ASSUME NEW g \in Graph, NEW a \in Amounts, NEW h \in RecordFinalCount(g, a)
  PROVE  Extends(g, h)
<1> DEFINE count == [actual |-> a, moves |-> g.moves, attrs |-> g.attrs]
           k == [g EXCEPT !.finals = {count}]
<1>1. count \in FinalCount
  BY DEF FinalCount, Graph
<1>2. h = g \/ (g.finals = {} /\ h = Bump(k))
  BY DEF RecordFinalCount, When
<1>3. ASSUME g.finals = {} PROVE Keeps(g, k)
  BY <1>1, <1>3 DEF Keeps, Graph
<1> QED BY <1>2, <1>3, KeepsSelf, StepExtends DEF Active

(* Every command only extends the graph it is given.                       *)
LEMMA OutcomeExtends ==
  ASSUME NEW g \in Graph, NEW c \in ShiftCommand, NEW h \in Outcome(c, g)
  PROVE  Extends(g, h)
<1>0. c.op \in AllOps
  BY CommandInput
<1>1. CASE c.op \in {"suspend", "resume", "beginClose", "abortClose", "archive"}
  <2>1. \/ h = g
        \/ \E status \in Active \cup Terminal : h = Enter(g, status)
    BY <1>1 DEF Outcome, Suspend, Resume, BeginClose, AbortClose, Archive,
                When, Active, Terminal
  <2> QED BY <2>1, KeepsSelf, StepExtends
<1>2. CASE c.op = "close"
  BY <1>2, CloseExtends DEF Outcome
<1>3. CASE c.op = "cancelOpen"
  <2>1. h = g \/ h = Finish(g, "cancelled_empty")
    BY <1>3 DEF Outcome, CancelOpen, When
  <2> QED BY <2>1, KeepsSelf, StepExtends DEF Active
<1>4. CASE c.op = "interimCount"
  <2>1. h = Bump([g EXCEPT !.interim = TRUE])
    BY <1>4 DEF Outcome, RecordInterimCount, When
  <2>2. Keeps(g, [g EXCEPT !.interim = TRUE])
    BY DEF Keeps, Graph
  <2> QED BY <2>1, <2>2, StepExtends DEF Active
<1>5. CASE c.op \in {"initiateHandover", "rejectHandover"}
  <2>1. \/ h = g
        \/ h = Enter([g EXCEPT !.handover = "pending"], "handover_pending")
        \/ h = Enter([g EXCEPT !.handover = "rejected"], "open")
    BY <1>5 DEF Outcome, InitiateHandover, RejectHandover, When
  <2>2. /\ Keeps(g, [g EXCEPT !.handover = "pending"])
        /\ Keeps(g, [g EXCEPT !.handover = "rejected"])
    BY DEF Keeps, Graph
  <2> QED BY <2>1, <2>2, KeepsSelf, StepExtends DEF Active
<1>6. CASE c.op = "movement"
  <2>1. c.movement \in Movements /\ Outcome(c, g) = RecordMovement(g, c.movement)
    BY <1>6, CommandInput DEF Outcome
  <2>2. h = g \/ h = Bump([g EXCEPT !.moves = @ \cup {c.movement}])
    BY <2>1 DEF RecordMovement, When
  <2>3. Keeps(g, [g EXCEPT !.moves = @ \cup {c.movement}])
    BY <2>1 DEF Keeps, Graph
  <2> QED BY <2>2, <2>3, KeepsSelf, StepExtends DEF Active
<1>7. CASE c.op = "finalCount"
  BY <1>7, CommandInput, FinalCountExtends DEF Outcome
<1>8. CASE c.op = "closeWithFinalCount"
  <2>1. c.actual \in Amounts /\ Outcome(c, g) = CloseWithFinalCount(g, c.actual)
    BY <1>8, CommandInput DEF Outcome
  <2>2. \/ h = g
        \/ \E k \in RecordFinalCount(g, c.actual) : h \in Close(k)
    BY <2>1 DEF CloseWithFinalCount, When
  <2>3. ASSUME NEW k \in RecordFinalCount(g, c.actual), h \in Close(k)
        PROVE  Extends(g, h)
    <3>1. Extends(g, k)
      BY <2>1, FinalCountExtends
    <3>2. Extends(k, h)
      BY <2>3, <3>1, CloseExtends DEF Extends
    <3> QED BY <3>1, <3>2 DEF Extends, Graph
  <2> QED BY <2>2, <2>3, KeepsSelf
<1>9. CASE c.op = "attribution"
  <2>1. c.fact \in Facts /\ Outcome(c, g) = CreateAttribution(g, c.fact)
    BY <1>9, CommandInput DEF Outcome
  <2>2. h = g \/ h = Bump([g EXCEPT !.attrs = @ \cup {c.fact}])
    BY <2>1 DEF CreateAttribution, When
  <2>3. Keeps(g, [g EXCEPT !.attrs = @ \cup {c.fact}])
    BY <2>1 DEF Keeps, Graph
  <2> QED BY <2>2, <2>3, KeepsSelf, StepExtends DEF Active
<1>10. CASE c.op = "acceptHandover"
  <2>1. h = Finish([g EXCEPT !.handover = "accepted"], "handover")
    BY <1>10 DEF Outcome, AcceptHandover, When
  <2>2. Keeps(g, [g EXCEPT !.handover = "accepted"])
    BY DEF Keeps, Graph
  <2> QED BY <2>1, <2>2, StepExtends DEF Active
<1> QED
  BY <1>0, <1>1, <1>2, <1>3, <1>4, <1>5, <1>6, <1>7, <1>8, <1>9, <1>10
     DEF AllOps, PlainOps

(* A freshly opened shift is a graph.                                      *)
LEMMA NewShiftGraph ==
  ASSUME NEW k \in Registers, NEW a \in Amounts
  PROVE  NewShift(k, a) \in Graph
  BY DEF NewShift, Graph, Active

-----------------------------------------------------------------------------

(* A terminal graph has one outcome besides itself: its archived copy; and *)
(* nothing else becomes archived.                                          *)
LEMMA TerminalOutcome ==
  ASSUME NEW g \in Graph, NEW c \in ShiftCommand, NEW h \in Outcome(c, g)
  PROVE  /\ g.status \in Terminal =>
              h = g \/ (g.status = "closed" /\ h = Enter(g, "archived"))
         /\ h.status = "archived" => g.status \in Terminal
<1>0. c.op \in AllOps
  BY CommandInput
<1> DEFINE Goal == /\ g.status \in Terminal =>
                        h = g \/ (g.status = "closed" /\ h = Enter(g, "archived"))
                   /\ h.status = "archived" => g.status \in Terminal
<1>1. CASE c.op \in {"suspend", "resume", "beginClose", "abortClose"}
  <2>1. \/ h = g
        \/ /\ g.status \notin Terminal
           /\ \E status \in Active : h = Enter(g, status)
    BY <1>1 DEF Outcome, Suspend, Resume, BeginClose, AbortClose,
                When, Active, Terminal
  <2>2. \A status \in Active : Enter(g, status).status = status
    BY DEF Enter, Graph
  <2> QED BY <2>1, <2>2 DEF Active, Terminal
<1>2. CASE c.op = "archive"
  <2>1. h = g \/ (g.status = "closed" /\ h = Enter(g, "archived"))
    BY <1>2 DEF Outcome, Archive, When
  <2> QED BY <2>1 DEF Terminal
<1>3. ASSUME NEW k \in Graph, h \in Close(k), k.status \in Terminal => k = g,
             g.status \in Terminal => k = g
      PROVE  Goal
  <2>1. \/ h = k /\ k.status \in Terminal
        \/ k.status \notin Terminal /\ h = Finish(k, "normal")
    BY <1>3 DEF Close, When, Terminal
  <2>2. Finish(k, "normal").status = "closed"
    BY DEF Finish, Graph
  <2> QED BY <1>3, <2>1, <2>2 DEF Terminal
<1>4. CASE c.op = "close"
  BY <1>4, <1>3 DEF Outcome
<1>5. CASE c.op = "cancelOpen"
  <2>1. \/ h = g
        \/ g.status = "open" /\ h = Finish(g, "cancelled_empty")
    BY <1>5 DEF Outcome, CancelOpen, When, IsEmptyCancellable
  <2>2. Finish(g, "cancelled_empty").status = "closed"
    BY DEF Finish, Graph
  <2> QED BY <2>1, <2>2 DEF Terminal
<1>6. ASSUME NEW k \in Graph, h = k \/ h = Bump(k), k.status = g.status,
             g.status \in Active \/ h = g
      PROVE  Goal
  <2>1. Bump(k).status = k.status
    BY <1>6 DEF Bump, Graph
  <2> QED BY <1>6, <2>1 DEF Terminal, Active
<1>7. CASE c.op = "interimCount"
  <2>1. g.status = "open" /\ h = Bump([g EXCEPT !.interim = TRUE])
    BY <1>7 DEF Outcome, RecordInterimCount, When
  <2>2. /\ [g EXCEPT !.interim = TRUE] \in Graph
        /\ [g EXCEPT !.interim = TRUE].status = g.status
    BY DEF Graph
  <2> QED BY <2>1, <2>2, <1>6 DEF Active
<1>8. CASE c.op = "initiateHandover"
  <2>1. /\ g.status = "open"
        /\ h = Enter([g EXCEPT !.handover = "pending"], "handover_pending")
    BY <1>8 DEF Outcome, InitiateHandover, When
  <2>2. h.status = "handover_pending"
    BY <2>1 DEF Enter, Graph
  <2> QED BY <2>1, <2>2 DEF Terminal
<1>9. CASE c.op = "rejectHandover"
  <2>1. \/ h = g /\ g.status = "open"
        \/ /\ g.status = "handover_pending"
           /\ h = Enter([g EXCEPT !.handover = "rejected"], "open")
    BY <1>9 DEF Outcome, RejectHandover, When
  <2>2. Enter([g EXCEPT !.handover = "rejected"], "open").status = "open"
    BY DEF Enter, Graph
  <2> QED BY <2>1, <2>2 DEF Terminal
<1>10. CASE c.op = "movement"
  <2> DEFINE k == [g EXCEPT !.moves = @ \cup {c.movement}]
  <2>1. c.movement \in Movements /\ Outcome(c, g) = RecordMovement(g, c.movement)
    BY <1>10, CommandInput DEF Outcome
  <2>2. h = g \/ (g.status = "open" /\ h = Bump(k))
    BY <2>1 DEF RecordMovement, When
  <2>3. k \in Graph /\ k.status = g.status
    BY <2>1 DEF Graph
  <2>4. CASE h = g
    BY <2>4 DEF Terminal
  <2>5. CASE g.status = "open" /\ h = Bump(k)
    <3> HIDE DEF k
    <3> QED BY <2>3, <2>5, <1>6 DEF Active
  <2> QED BY <2>2, <2>4, <2>5
<1>11. ASSUME NEW a \in Amounts, NEW k \in RecordFinalCount(g, a)
       PROVE  /\ k \in Graph
              /\ k.status = g.status /\ g.status \in Active
              /\ h = k => Goal
  <2> DEFINE count == [actual |-> a, moves |-> g.moves, attrs |-> g.attrs]
             b == [g EXCEPT !.finals = {count}]
  <2>1. /\ g.status \in Active
        /\ k = g \/ k = Bump(b)
    BY DEF RecordFinalCount, When, Active
  <2>2. b.status = g.status /\ b \in Graph
    BY DEF Graph, FinalCount
  <2>3. Bump(b).status = b.status
    BY <2>2 DEF Bump, Graph
  <2>4. k \in Graph
    BY FinalCountExtends DEF Extends
  <2>5. k.status = g.status
    BY <2>1, <2>2, <2>3
  <2> QED BY <2>1, <2>4, <2>5 DEF Active, Terminal
<1>12. CASE c.op = "finalCount"
  BY <1>12, <1>11, CommandInput DEF Outcome
<1>13. CASE c.op = "closeWithFinalCount"
  <2>1. c.actual \in Amounts /\ Outcome(c, g) = CloseWithFinalCount(g, c.actual)
    BY <1>13, CommandInput DEF Outcome
  <2>2. \/ h = g /\ g.status \in Terminal
        \/ \E k \in RecordFinalCount(g, c.actual) : h \in Close(k)
    BY <2>1 DEF CloseWithFinalCount, When
  <2>3. ASSUME NEW k \in RecordFinalCount(g, c.actual), h \in Close(k)
        PROVE  Goal
    <3>1. k \in Graph /\ k.status = g.status /\ g.status \in Active
      BY <2>1, <1>11
    <3> QED BY <2>3, <3>1, <1>3 DEF Active, Terminal
  <2> QED BY <2>2, <2>3
<1>14. CASE c.op = "attribution"
  <2> DEFINE k == [g EXCEPT !.attrs = @ \cup {c.fact}]
  <2>1. c.fact \in Facts /\ Outcome(c, g) = CreateAttribution(g, c.fact)
    BY <1>14, CommandInput DEF Outcome
  <2>2. g.status = "open" /\ (h = g \/ h = Bump(k))
    BY <2>1 DEF CreateAttribution, When
  <2>3. k \in Graph /\ k.status = g.status
    BY <2>1 DEF Graph
  <2> HIDE DEF k
  <2>4. CASE h = g
    BY <2>4, <2>2 DEF Terminal
  <2> QED BY <2>2, <2>3, <2>4, <1>6 DEF Active
<1>15. CASE c.op = "acceptHandover"
  <2>1. /\ g.status = "handover_pending"
        /\ h = Finish([g EXCEPT !.handover = "accepted"], "handover")
    BY <1>15 DEF Outcome, AcceptHandover, When
  <2>2. h.status = "closed"
    BY <2>1 DEF Finish, Graph
  <2> QED BY <2>1, <2>2 DEF Terminal
<1> QED
  BY <1>0, <1>1, <1>2, <1>4, <1>5, <1>7, <1>8, <1>9, <1>10, <1>12, <1>13, <1>14, <1>15
     DEF AllOps, PlainOps

(* The fields EndIsAccounted reads, after each way a command ends.         *)
LEMMA StepFields ==
  ASSUME NEW k \in Graph, NEW status, NEW why
  PROVE  /\ Bump(k).finals = k.finals /\ Bump(k).moves = k.moves
         /\ Bump(k).attrs = k.attrs /\ Bump(k).status = k.status
         /\ Bump(k).reason = k.reason /\ Bump(k).handover = k.handover
         /\ Enter(k, status).finals = k.finals /\ Enter(k, status).moves = k.moves
         /\ Enter(k, status).attrs = k.attrs /\ Enter(k, status).status = status
         /\ Enter(k, status).reason = k.reason
         /\ Enter(k, status).handover = k.handover
         /\ Finish(k, why).finals = k.finals /\ Finish(k, why).moves = k.moves
         /\ Finish(k, why).attrs = k.attrs /\ Finish(k, why).status = "closed"
         /\ Finish(k, why).reason = why
         /\ Finish(k, why).handover = k.handover
<1>1. /\ Bump(k).finals = k.finals /\ Bump(k).moves = k.moves
      /\ Bump(k).attrs = k.attrs /\ Bump(k).status = k.status
      /\ Bump(k).reason = k.reason /\ Bump(k).handover = k.handover
  BY DEF Bump, Graph
<1>2. /\ Enter(k, status).finals = k.finals /\ Enter(k, status).moves = k.moves
      /\ Enter(k, status).attrs = k.attrs /\ Enter(k, status).status = status
      /\ Enter(k, status).reason = k.reason
      /\ Enter(k, status).handover = k.handover
  BY DEF Enter, Graph
<1>3. /\ Finish(k, why).finals = k.finals /\ Finish(k, why).moves = k.moves
      /\ Finish(k, why).attrs = k.attrs /\ Finish(k, why).status = "closed"
      /\ Finish(k, why).reason = why
      /\ Finish(k, why).handover = k.handover
  BY DEF Finish, Graph
<1> QED BY <1>1, <1>2, <1>3

(* A final count leaves a graph accounted, with one count on it.           *)
LEMMA FinalCountAccounted ==
  ASSUME NEW g \in Graph, Accounted(g), NEW a \in Amounts,
         NEW h \in RecordFinalCount(g, a)
  PROVE  Accounted(h) /\ h \in Graph
<1> DEFINE count == [actual |-> a, moves |-> g.moves, attrs |-> g.attrs]
           k == [g EXCEPT !.finals = {count}]
<1>1. h \in Graph
  BY FinalCountExtends DEF Extends
<1>2. h = g \/ (g.status \in {"open", "closing", "handover_pending"} /\ h = Bump(k))
  BY DEF RecordFinalCount, When
<1>3. /\ k \in Graph /\ k.finals = {count} /\ k.moves = g.moves /\ k.attrs = g.attrs
      /\ k.status = g.status /\ k.reason = g.reason /\ k.handover = g.handover
  BY DEF Graph, FinalCount
<1> HIDE DEF k, count
<1>4. CASE h = g
  BY <1>1, <1>4
<1>5. CASE g.status \in {"open", "closing", "handover_pending"} /\ h = Bump(k)
  BY <1>1, <1>3, <1>5, StepFields DEF Accounted, Terminal
<1> QED BY <1>2, <1>4, <1>5

(* A normal close ends an accounted graph accounted.                       *)
LEMMA CloseAccounted ==
  ASSUME NEW g \in Graph, Accounted(g), NEW h \in Close(g)
  PROVE  Accounted(h)
<1>1. \/ h = g
      \/ /\ g.status \in {"open", "closing"} /\ g.finals # {}
         /\ h = Finish(g, "normal")
  BY DEF Close, When
<1> QED BY <1>1, StepFields DEF Accounted, Terminal

(* No command turns an accounted shift into one that is not.               *)
LEMMA OutcomeAccounted ==
  ASSUME NEW g \in Graph, Accounted(g), NEW c \in ShiftCommand,
         NEW h \in Outcome(c, g)
  PROVE  Accounted(h)
<1>0. c.op \in AllOps
  BY CommandInput
<1>1. CASE c.op \in {"suspend", "resume", "beginClose", "abortClose"}
  <2>1. \/ h = g
        \/ /\ g.status \in {"open", "suspended", "closing"}
           /\ \E status \in {"open", "suspended", "closing"} : h = Enter(g, status)
    BY <1>1 DEF Outcome, Suspend, Resume, BeginClose, AbortClose, When
  <2> QED BY <2>1, StepFields DEF Accounted, Terminal
<1>2. CASE c.op = "archive"
  <2>1. h = g \/ (g.status = "closed" /\ h = Enter(g, "archived"))
    BY <1>2 DEF Outcome, Archive, When
  <2> QED BY <2>1, StepFields DEF Accounted, Terminal
<1>3. CASE c.op = "close"
  BY <1>3, CloseAccounted DEF Outcome
<1>4. CASE c.op = "cancelOpen"
  <2>1. \/ h = g
        \/ IsEmptyCancellable(g) /\ h = Finish(g, "cancelled_empty")
    BY <1>4 DEF Outcome, CancelOpen, When
  <2> QED BY <2>1, StepFields DEF Accounted, Terminal, IsEmptyCancellable
<1>5. CASE c.op = "interimCount"
  <2> DEFINE k == [g EXCEPT !.interim = TRUE]
  <2>1. g.status = "open" /\ h = Bump(k)
    BY <1>5 DEF Outcome, RecordInterimCount, When
  <2>2. /\ k \in Graph /\ k.finals = g.finals /\ k.moves = g.moves
        /\ k.attrs = g.attrs /\ k.status = g.status /\ k.reason = g.reason
        /\ k.handover = g.handover
    BY DEF Graph
  <2> HIDE DEF k
  <2> QED BY <2>1, <2>2, StepFields DEF Accounted, Terminal
<1>6. CASE c.op = "initiateHandover"
  <2> DEFINE k == [g EXCEPT !.handover = "pending"]
  <2>1. g.status = "open" /\ h = Enter(k, "handover_pending")
    BY <1>6 DEF Outcome, InitiateHandover, When
  <2>2. /\ k \in Graph /\ k.finals = g.finals /\ k.moves = g.moves
        /\ k.attrs = g.attrs /\ k.reason = g.reason /\ k.handover = "pending"
    BY DEF Graph
  <2> HIDE DEF k
  <2> QED BY <2>1, <2>2, StepFields DEF Accounted, Terminal
<1>7. CASE c.op = "rejectHandover"
  <2> DEFINE k == [g EXCEPT !.handover = "rejected"]
  <2>1. h = g \/ (g.status = "handover_pending" /\ h = Enter(k, "open"))
    BY <1>7 DEF Outcome, RejectHandover, When
  <2>2. /\ k \in Graph /\ k.finals = g.finals /\ k.moves = g.moves
        /\ k.attrs = g.attrs /\ k.reason = g.reason /\ k.handover = "rejected"
    BY DEF Graph
  <2> HIDE DEF k
  <2> QED BY <2>1, <2>2, StepFields DEF Accounted, Terminal
<1>8. CASE c.op = "movement"
  <2> DEFINE k == [g EXCEPT !.moves = @ \cup {c.movement}]
  <2>1. c.movement \in Movements /\ Outcome(c, g) = RecordMovement(g, c.movement)
    BY <1>8, CommandInput DEF Outcome
  <2>2. h = g \/ (g.status = "open" /\ h = Bump(k))
    BY <2>1 DEF RecordMovement, When
  <2>3. /\ k \in Graph /\ k.finals = g.finals /\ k.attrs = g.attrs
        /\ k.status = g.status /\ k.reason = g.reason /\ k.handover = g.handover
    BY <2>1 DEF Graph
  <2> HIDE DEF k
  <2> QED BY <2>2, <2>3, StepFields DEF Accounted, Terminal
<1>9. CASE c.op = "finalCount"
  BY <1>9, FinalCountAccounted, CommandInput DEF Outcome
<1>10. CASE c.op = "closeWithFinalCount"
  <2>1. c.actual \in Amounts /\ Outcome(c, g) = CloseWithFinalCount(g, c.actual)
    BY <1>10, CommandInput DEF Outcome
  <2>2. \/ h = g
        \/ \E k \in RecordFinalCount(g, c.actual) : h \in Close(k)
    BY <2>1 DEF CloseWithFinalCount, When
  <2> QED BY <2>1, <2>2, FinalCountAccounted, CloseAccounted
<1>11. CASE c.op = "attribution"
  <2> DEFINE k == [g EXCEPT !.attrs = @ \cup {c.fact}]
  <2>1. c.fact \in Facts /\ Outcome(c, g) = CreateAttribution(g, c.fact)
    BY <1>11, CommandInput DEF Outcome
  <2>2. h = g \/ (g.status = "open" /\ h = Bump(k))
    BY <2>1 DEF CreateAttribution, When
  <2>3. /\ k \in Graph /\ k.finals = g.finals /\ k.moves = g.moves
        /\ k.status = g.status /\ k.reason = g.reason /\ k.handover = g.handover
    BY <2>1 DEF Graph
  <2> HIDE DEF k
  <2> QED BY <2>2, <2>3, StepFields DEF Accounted, Terminal
<1>12. CASE c.op = "acceptHandover"
  <2> DEFINE k == [g EXCEPT !.handover = "accepted"]
  <2>1. /\ g.status = "handover_pending" /\ g.finals # {}
        /\ h = Finish(k, "handover")
    BY <1>12 DEF Outcome, AcceptHandover, When
  <2>2. /\ k \in Graph /\ k.finals = g.finals /\ k.moves = g.moves
        /\ k.attrs = g.attrs /\ k.handover = "accepted"
    BY DEF Graph
  <2> HIDE DEF k
  <2> QED BY <2>1, <2>2, StepFields DEF Accounted, Terminal
<1> QED
  BY <1>0, <1>1, <1>2, <1>3, <1>4, <1>5, <1>6, <1>7, <1>8, <1>9, <1>10, <1>11, <1>12
     DEF AllOps, PlainOps

-----------------------------------------------------------------------------
(* A step of the ledger changes one shift, from no shift to a new one or   *)
(* from a graph to an outcome of a command.                                *)
LEMMA StepCases ==
  ASSUME LedgerTypeOK, LedgerNext
  PROVE  \E s \in Shifts, h \in Graph :
           /\ shift' = [shift EXCEPT ![s] = h]
           /\ KeysFree(s, h)
           /\ \/ /\ ~Exists(s)
                 /\ \E k \in Registers, float \in Amounts : h = NewShift(k, float)
              \/ /\ Exists(s)
                 /\ \E c \in ShiftCommand : h \in Outcome(c, shift[s])
<1>1. ASSUME NEW s \in Shifts, NEW k \in Registers, NEW float \in Amounts,
             Insert(s, k, float)
      PROVE  /\ NewShift(k, float) \in Graph
             /\ shift' = [shift EXCEPT ![s] = NewShift(k, float)]
             /\ KeysFree(s, NewShift(k, float))
             /\ ~Exists(s)
  BY <1>1, NewShiftGraph DEF Insert, KeysFree, NewShift
<1>2. ASSUME NEW c \in ShiftCommand, Apply(c)
      PROVE  \E h \in Graph :
               /\ c.shift \in Shifts
               /\ shift' = [shift EXCEPT ![c.shift] = h]
               /\ KeysFree(c.shift, h)
               /\ Exists(c.shift) /\ h \in Outcome(c, shift[c.shift])
  <2>1. c.shift \in Shifts
    BY CommandInput
  <2>2. Exists(c.shift) /\ shift[c.shift] \in Graph
    BY <1>2, <2>1 DEF Apply, Exists, LedgerTypeOK
  <2>3. PICK h \in Outcome(c, shift[c.shift]) :
          KeysFree(c.shift, h) /\ shift' = [shift EXCEPT ![c.shift] = h]
    BY <1>2 DEF Apply
  <2>4. h \in Graph
    BY <2>2, OutcomeExtends DEF Extends
  <2> QED BY <2>1, <2>2, <2>3, <2>4
<1> QED BY <1>1, <1>2 DEF LedgerNext

(* LedgerTypeOK is an invariant of the ledger.                                   *)
THEOREM LedgerTypes == LedgerSpec => []LedgerTypeOK
<1>1. LedgerInit => LedgerTypeOK
  BY DEF LedgerInit, LedgerTypeOK
<1>2. LedgerTypeOK /\ [LedgerNext]_shift => LedgerTypeOK'
  <2> SUFFICES ASSUME LedgerTypeOK, [LedgerNext]_shift PROVE LedgerTypeOK'
    OBVIOUS
  <2>1. CASE LedgerNext
    BY <2>1, StepCases DEF LedgerTypeOK
  <2>2. CASE UNCHANGED shift
    BY <2>2 DEF LedgerTypeOK
  <2> QED BY <2>1, <2>2
<1> QED BY <1>1, <1>2, PTL DEF LedgerSpec

(* Every ended shift is accounted for: counted, handed over with its count *)
(* or cancelled while it held nothing.                                     *)
THEOREM EndsAreAccounted == LedgerSpec => []EndIsAccounted
<1>1. LedgerInit => EndIsAccounted
  BY DEF LedgerInit, EndIsAccounted, Exists
<1>2. LedgerTypeOK /\ EndIsAccounted /\ [LedgerNext]_shift => EndIsAccounted'
  <2> SUFFICES ASSUME LedgerTypeOK, EndIsAccounted, [LedgerNext]_shift PROVE EndIsAccounted'
    OBVIOUS
  <2>1. CASE LedgerNext
    <3>1. PICK s \in Shifts, h \in Graph :
            /\ shift' = [shift EXCEPT ![s] = h]
            /\ \/ \E k \in Registers, float \in Amounts : h = NewShift(k, float)
               \/ /\ Exists(s)
                  /\ \E c \in ShiftCommand : h \in Outcome(c, shift[s])
      BY <2>1, StepCases
    <3>2. Accounted(h)
      <4>1. ASSUME NEW k \in Registers, NEW float \in Amounts, h = NewShift(k, float)
            PROVE  Accounted(h)
        BY <4>1 DEF Accounted, NewShift, Terminal
      <4>2. ASSUME Exists(s), NEW c \in ShiftCommand, h \in Outcome(c, shift[s])
            PROVE  Accounted(h)
        BY <4>2, OutcomeAccounted DEF LedgerTypeOK, EndIsAccounted, Exists
      <4> QED BY <3>1, <4>1, <4>2
    <3> QED BY <3>1, <3>2 DEF LedgerTypeOK, EndIsAccounted, Exists
  <2>2. CASE UNCHANGED shift
    BY <2>2 DEF EndIsAccounted, Exists
  <2> QED BY <2>1, <2>2
<1> QED BY <1>1, <1>2, LedgerTypes, PTL DEF LedgerSpec

(* A stored shift after a step is what it was or an outcome of a command.  *)
LEMMA StoredStep ==
  ASSUME LedgerTypeOK, [LedgerNext]_shift, NEW s \in Shifts, Exists(s)
  PROVE  /\ shift[s] \in Graph /\ shift'[s] \in Graph
         /\ \/ shift'[s] = shift[s]
            \/ \E c \in ShiftCommand : shift'[s] \in Outcome(c, shift[s])
<1>1. CASE LedgerNext
  BY <1>1, StepCases DEF LedgerTypeOK, Exists
<1>2. CASE UNCHANGED shift
  BY <1>2 DEF LedgerTypeOK, Exists
<1> QED BY <1>1, <1>2

(* Custody that was recorded stays recorded, whatever a shift goes through. *)
THEOREM CustodyNeverLost == LedgerSpec => CustodyOnlyGrows
<1>1. LedgerTypeOK /\ [LedgerNext]_shift =>
        [\A s \in Shifts : Exists(s) =>
           /\ shift'[s] # NoShift
           /\ shift[s].moves \subseteq shift'[s].moves
           /\ shift[s].attrs \subseteq shift'[s].attrs
           /\ shift[s].finals \subseteq shift'[s].finals
           /\ shift[s].float = shift'[s].float
           /\ shift[s].register = shift'[s].register]_shift
  BY StoredStep, OutcomeExtends, KeepsSelf, NoShiftAssumption DEF Extends
<1> QED BY <1>1, LedgerTypes, PTL DEF LedgerSpec, CustodyOnlyGrows

(* A closed shift only ever becomes archived.                              *)
THEOREM ClosedStaysFrozen == LedgerSpec => ClosedIsFrozen
<1>1. LedgerTypeOK /\ [LedgerNext]_shift =>
        [\A s \in Shifts : Exists(s) =>
           /\ shift[s].status \in Terminal =>
                \/ shift'[s] = shift[s]
                \/ /\ shift[s].status = "closed"
                   /\ shift'[s] = Enter(shift[s], "archived")
           /\ shift'[s].status = "archived" => shift[s].status \in Terminal]_shift
  BY StoredStep, TerminalOutcome DEF Terminal
<1> QED BY <1>1, LedgerTypes, PTL DEF LedgerSpec, ClosedIsFrozen

(* No shift changes under an unchanged version.                            *)
THEOREM VersionsTellChange == LedgerSpec => VersionTellsChange
<1>1. LedgerTypeOK /\ [LedgerNext]_shift =>
        [\A s \in Shifts : Exists(s) =>
           \/ shift'[s] = shift[s]
           \/ shift'[s].version > shift[s].version]_shift
  BY StoredStep, OutcomeExtends DEF Extends
<1> QED BY <1>1, LedgerTypes, PTL DEF LedgerSpec, VersionTellsChange

-----------------------------------------------------------------------------
(* What a command makes of the custody of a shift: one movement more, and  *)
(* only if the drawer covers it, or one attribution more, or no change.    *)
OneMore(g, h) ==
  \/ h.moves = g.moves /\ h.attrs = g.attrs
  \/ \E f \in Facts : h.moves = g.moves /\ h.attrs = g.attrs \cup {f}
  \/ \E m \in Movements \ g.moves :
       /\ h.moves = g.moves \cup {m} /\ h.attrs = g.attrs
       /\ m.kind \in {"paid_out", "safe_drop"} => m.amount <= ExpectedCash(g)

(* A command adds one movement or one attribution at most, and a payout    *)
(* only out of cash that is there.                                         *)
LEMMA OutcomeCustody ==
  ASSUME NEW g \in Graph, NEW c \in ShiftCommand, NEW h \in Outcome(c, g)
  PROVE  OneMore(g, h)
<1>0. c.op \in AllOps
  BY CommandInput
<1>1. ASSUME NEW k \in Graph, k.moves = g.moves, k.attrs = g.attrs,
             NEW status, NEW why,
             h = k \/ h = Bump(k) \/ h = Enter(k, status) \/ h = Finish(k, why)
      PROVE  OneMore(g, h)
  BY <1>1, StepFields DEF OneMore
<1>2. CASE c.op \in {"suspend", "resume", "beginClose", "abortClose", "archive"}
  <2>1. h = g \/ \E status \in Active \cup Terminal : h = Enter(g, status)
    BY <1>2 DEF Outcome, Suspend, Resume, BeginClose, AbortClose, Archive,
                When, Active, Terminal
  <2> QED BY <2>1, <1>1
<1>3. CASE c.op \in {"close", "cancelOpen"}
  <2>1. h = g \/ \E why \in {"normal", "cancelled_empty"} : h = Finish(g, why)
    BY <1>3 DEF Outcome, Close, CancelOpen, When
  <2> QED BY <2>1, <1>1
<1>4. CASE c.op = "interimCount"
  <2> DEFINE k == [g EXCEPT !.interim = TRUE]
  <2>1. h = Bump(k) /\ k \in Graph /\ k.moves = g.moves /\ k.attrs = g.attrs
    BY <1>4 DEF Outcome, RecordInterimCount, When, Graph
  <2> HIDE DEF k
  <2> QED BY <2>1, <1>1
<1>5. CASE c.op \in {"initiateHandover", "rejectHandover", "acceptHandover"}
  <2>1. \/ h = g
        \/ \E v \in {"pending", "rejected", "accepted"},
              status \in {"open", "handover", "handover_pending"} :
             \/ h = Enter([g EXCEPT !.handover = v], status)
             \/ h = Finish([g EXCEPT !.handover = v], status)
    BY <1>5 DEF Outcome, InitiateHandover, RejectHandover, AcceptHandover, When
  <2>2. ASSUME NEW v \in {"pending", "rejected", "accepted"}
        PROVE  /\ [g EXCEPT !.handover = v] \in Graph
               /\ [g EXCEPT !.handover = v].moves = g.moves
               /\ [g EXCEPT !.handover = v].attrs = g.attrs
    BY DEF Graph
  <2> QED BY <2>1, <2>2, <1>1
<1>6. CASE c.op = "movement"
  <2> DEFINE m == c.movement
             k == [g EXCEPT !.moves = @ \cup {m}]
             covered == m.kind \in {"paid_out", "safe_drop"} => m.amount <= ExpectedCash(g)
  <2>1. m \in Movements /\ h \in RecordMovement(g, m)
    BY <1>6, CommandInput DEF Outcome
  <2>2. \/ h = g
        \/ {n \in g.moves : n.id = m.id} = {} /\ covered /\ h = Bump(k)
    BY <2>1 DEF RecordMovement, When
  <2>3. k \in Graph /\ k.moves = g.moves \cup {m} /\ k.attrs = g.attrs
    BY <2>1 DEF Graph
  <2> HIDE DEF k, covered, m
  <2>4. CASE h = g
    BY <2>4 DEF OneMore
  <2>5. CASE {n \in g.moves : n.id = m.id} = {} /\ covered /\ h = Bump(k)
    <3>1. h.moves = g.moves \cup {m} /\ h.attrs = g.attrs
      BY <2>3, <2>5, StepFields
    <3>2. m \notin g.moves
      BY <2>5
    <3> QED BY <2>1, <2>5, <3>1, <3>2 DEF OneMore, covered
  <2> QED BY <2>2, <2>4, <2>5
<1>7. ASSUME NEW a, NEW k \in RecordFinalCount(g, a), a \in Amounts
      PROVE  k \in Graph /\ k.moves = g.moves /\ k.attrs = g.attrs
  <2> DEFINE count == [actual |-> a, moves |-> g.moves, attrs |-> g.attrs]
             b == [g EXCEPT !.finals = {count}]
  <2>1. k = g \/ k = Bump(b)
    BY DEF RecordFinalCount, When
  <2>2. b \in Graph /\ b.moves = g.moves /\ b.attrs = g.attrs
    BY <1>7 DEF Graph, FinalCount
  <2>3. k \in Graph
    BY <1>7, FinalCountExtends DEF Extends
  <2> HIDE DEF b
  <2> QED BY <2>1, <2>2, <2>3, StepFields
<1>8. CASE c.op = "finalCount"
  BY <1>1, <1>7, <1>8, CommandInput DEF Outcome
<1>9. CASE c.op = "closeWithFinalCount"
  <2>1. c.actual \in Amounts /\ h \in CloseWithFinalCount(g, c.actual)
    BY <1>9, CommandInput DEF Outcome
  <2>2. h = g \/ \E k \in RecordFinalCount(g, c.actual) : h \in Close(k)
    BY <2>1 DEF CloseWithFinalCount, When
  <2>3. ASSUME NEW k \in RecordFinalCount(g, c.actual), h \in Close(k)
        PROVE  OneMore(g, h)
    <3>1. k \in Graph /\ k.moves = g.moves /\ k.attrs = g.attrs
      BY <1>7, <2>1
    <3>2. h = k \/ h = Finish(k, "normal")
      BY <2>3 DEF Close, When
    <3> QED BY <3>1, <3>2, <1>1
  <2> QED BY <2>2, <2>3, <1>1
<1>10. CASE c.op = "attribution"
  <2> DEFINE k == [g EXCEPT !.attrs = @ \cup {c.fact}]
  <2>1. c.fact \in Facts /\ h \in CreateAttribution(g, c.fact)
    BY <1>10, CommandInput DEF Outcome
  <2>2. h = g \/ h = Bump(k)
    BY <2>1 DEF CreateAttribution, When
  <2>3. k \in Graph /\ k.moves = g.moves /\ k.attrs = g.attrs \cup {c.fact}
    BY <2>1 DEF Graph
  <2> HIDE DEF k
  <2> QED BY <2>1, <2>2, <2>3, StepFields DEF OneMore
<1> QED BY <1>0, <1>2, <1>3, <1>4, <1>5, <1>6, <1>8, <1>9, <1>10 DEF AllOps, PlainOps

(* A drawer holds finitely many movements and attributions.                *)
HeldIsFinite ==
  \A s \in Shifts : Exists(s) =>
    IsFiniteSet(shift[s].moves) /\ IsFiniteSet(shift[s].attrs)

(* What one more movement does to the expected cash.                       *)
LEMMA ExpectedAfterMovement ==
  ASSUME NEW g \in Graph, IsFiniteSet(g.moves), IsFiniteSet(g.attrs),
         NEW h, h.float = g.float, h.attrs = g.attrs,
         NEW m \in Movements, m \notin g.moves, h.moves = g.moves \cup {m}
  PROVE  /\ ExpectedCash(g) \in Int
         /\ ExpectedCash(h) = ExpectedCash(g) + Delta(m)
<1> DEFINE before == [n \in g.moves |-> Delta(n)]
           after == [n \in h.moves |-> Delta(n)]
           M == SumFunctionOnSet(before, g.moves)
           A == SumFunctionOnSet(Cash, g.attrs)
<1>1. \A n \in Movements : Delta(n) \in Int
  BY MovementsAssumption DEF MovementOK, Delta
<1>2. g.moves \subseteq Movements /\ g.attrs \subseteq Facts /\ g.float \in Int
  <2>1. g.moves \subseteq Movements /\ g.attrs \subseteq Facts /\ g.float \in Amounts
    BY DEF Graph
  <2>2. \A a \in Amounts : a \in Int
    BY AmountsAssumption
  <2> QED BY <2>1, <2>2, Zenon
<1>3. /\ \A n \in g.moves : before[n] \in Int /\ after[n] = before[n]
      /\ \A n \in g.moves \cup {m} : after[n] \in Int
      /\ after[m] = Delta(m)
  BY <1>1, <1>2
<1>4. \A f \in g.attrs : Cash[f] \in Int
  BY <1>2, CashAssumption
<1>5. ExpectedCash(g) = g.float + M + A
  BY DEF ExpectedCash, ExpectedOver
<1>6. ExpectedCash(h) = g.float + SumFunctionOnSet(after, g.moves \cup {m}) + A
  BY DEF ExpectedCash, ExpectedOver
<1> HIDE DEF before, after
<1>7. M \in Int
  BY <1>3, SumIsInteger
<1>8. A \in Int
  BY <1>4, SumIsInteger
<1>9. SumFunctionOnSet(after, g.moves \cup {m}) = after[m] + SumFunctionOnSet(after, g.moves)
  BY <1>3, SumAdds
<1>10. SumFunctionOnSet(after, g.moves) = M
  BY <1>3, SumsAgree
<1>11. Delta(m) \in Int
  BY <1>1
<1> HIDE DEF M, A
<1>12. SumFunctionOnSet(after, g.moves \cup {m}) = Delta(m) + M
  BY <1>3, <1>9, <1>10
<1> QED BY <1>2, <1>5, <1>6, <1>7, <1>8, <1>11, <1>12

(* A drawer holds finitely many movements and attributions, so that its    *)
(* expected cash is a sum (calculateExpectedCash).                         *)
THEOREM DrawersAreFinite == LedgerSpec => []HeldIsFinite
<1>1. LedgerInit => HeldIsFinite
  BY DEF LedgerInit, HeldIsFinite, Exists
<1>2. LedgerTypeOK /\ HeldIsFinite /\ [LedgerNext]_shift => HeldIsFinite'
  <2> SUFFICES ASSUME LedgerTypeOK, HeldIsFinite, [LedgerNext]_shift PROVE HeldIsFinite'
    OBVIOUS
  <2>1. CASE LedgerNext
    <3>1. PICK s \in Shifts, h \in Graph :
            /\ shift' = [shift EXCEPT ![s] = h]
            /\ \/ \E k \in Registers, float \in Amounts : h = NewShift(k, float)
               \/ /\ Exists(s)
                  /\ \E c \in ShiftCommand : h \in Outcome(c, shift[s])
      BY <2>1, StepCases
    <3>2. IsFiniteSet(h.moves) /\ IsFiniteSet(h.attrs)
      <4>1. ASSUME NEW k \in Registers, NEW float \in Amounts, h = NewShift(k, float)
            PROVE  IsFiniteSet(h.moves) /\ IsFiniteSet(h.attrs)
        BY <4>1, FS_EmptySet DEF NewShift
      <4>2. ASSUME Exists(s), NEW c \in ShiftCommand, h \in Outcome(c, shift[s])
            PROVE  IsFiniteSet(h.moves) /\ IsFiniteSet(h.attrs)
        <5>1. shift[s] \in Graph /\ IsFiniteSet(shift[s].moves) /\ IsFiniteSet(shift[s].attrs)
          BY <4>2 DEF LedgerTypeOK, HeldIsFinite, Exists
        <5>2. OneMore(shift[s], h)
          BY <4>2, <5>1, OutcomeCustody
        <5> QED BY <5>1, <5>2, FS_AddElement DEF OneMore
      <4> QED BY <3>1, <4>1, <4>2
    <3> QED BY <3>1, <3>2 DEF LedgerTypeOK, HeldIsFinite, Exists
  <2>2. CASE UNCHANGED shift
    BY <2>2 DEF HeldIsFinite, Exists
  <2> QED BY <2>1, <2>2
<1> QED BY <1>1, <1>2, LedgerTypes, PTL DEF LedgerSpec

(* Right after cash is paid out or dropped the drawer is not expected to   *)
(* be below zero: what leaves it was in it (recordDrawerMovement).    *)
THEOREM PayoutsAreCovered == LedgerSpec => PayoutIsCovered
<1>1. LedgerTypeOK /\ HeldIsFinite /\ [LedgerNext]_shift =>
        [\A s \in Shifts : Exists(s) =>
           \A m \in shift'[s].moves \ shift[s].moves :
             m.kind \in {"paid_out", "safe_drop"} => ExpectedCash(shift'[s]) >= 0]_shift
  <2> SUFFICES ASSUME LedgerTypeOK, HeldIsFinite, [LedgerNext]_shift,
                      NEW s \in Shifts, Exists(s),
                      NEW m \in shift'[s].moves \ shift[s].moves,
                      m.kind \in {"paid_out", "safe_drop"}
               PROVE  ExpectedCash(shift'[s]) >= 0
    OBVIOUS
  <2> DEFINE g == shift[s]
             h == shift'[s]
  <2>1. /\ g \in Graph /\ IsFiniteSet(g.moves) /\ IsFiniteSet(g.attrs)
        /\ h = g \/ \E c \in ShiftCommand : h \in Outcome(c, g)
    <3>1. IsFiniteSet(g.moves) /\ IsFiniteSet(g.attrs)
      BY DEF HeldIsFinite
    <3>2. g \in Graph /\ (h = g \/ \E c \in ShiftCommand : h \in Outcome(c, g))
      BY StoredStep
    <3> QED BY <3>1, <3>2
  <2> HIDE DEF g, h
  <2>2. m \in h.moves /\ m \notin g.moves
    BY DEF g, h
  <2>3. PICK c \in ShiftCommand : h \in Outcome(c, g)
    BY <2>1, <2>2
  <2>4. OneMore(g, h) /\ h.float = g.float
    BY <2>1, <2>3, OutcomeCustody, OutcomeExtends DEF Extends
  <2>5. /\ m \in Movements /\ h.moves = g.moves \cup {m} /\ h.attrs = g.attrs
        /\ m.amount <= ExpectedCash(g)
    BY <2>2, <2>4 DEF OneMore
  <2>6. ExpectedCash(g) \in Int /\ ExpectedCash(h) = ExpectedCash(g) + Delta(m)
    BY <2>1, <2>2, <2>4, <2>5, ExpectedAfterMovement
  <2>7. Delta(m) = -m.amount /\ m.amount \in Int
    BY <2>5, MovementsAssumption DEF Delta, MovementOK
  <2>8. ExpectedCash(h) >= 0
    BY <2>5, <2>6, <2>7
  <2> QED BY <2>8 DEF h
<1> QED BY <1>1, LedgerTypes, DrawersAreFinite, PTL DEF LedgerSpec, PayoutIsCovered

-----------------------------------------------------------------------------
(* Without a final count as a call of its own, a count is taken only with  *)
(* the close: a counted shift has ended and holds what was counted.        *)
Counted(g) ==
  g.finals # {} =>
    /\ g.status \in Terminal
    /\ \A n \in g.finals : n.moves = g.moves /\ n.attrs = g.attrs

(* No command but a final count apart from the close parts a count from    *)
(* its drawer.                                                             *)
LEMMA OutcomeCounted ==
  ASSUME NEW g \in Graph, Counted(g), NEW c \in ShiftCommand, c.op # "finalCount",
         NEW h \in Outcome(c, g)
  PROVE  Counted(h)
<1>1. CASE g.finals # {}
  <2>1. h = g \/ h = Enter(g, "archived")
    BY <1>1, TerminalOutcome DEF Counted
  <2> QED BY <1>1, <2>1, StepFields DEF Counted, Terminal
<1>2. ASSUME g.finals = {}, NEW k \in Graph, k.finals = {}, NEW status, NEW why,
             h = k \/ h = Bump(k) \/ h = Enter(k, status) \/ h = Finish(k, why)
      PROVE  Counted(h)
  BY <1>2, StepFields DEF Counted
<1>3. CASE g.finals = {} /\ c.op = "closeWithFinalCount"
  <2> DEFINE a == c.actual
             count == [actual |-> a, moves |-> g.moves, attrs |-> g.attrs]
             b == [g EXCEPT !.finals = {count}]
  <2>1. a \in Amounts /\ h \in CloseWithFinalCount(g, a)
    BY <1>3, CommandInput DEF Outcome
  <2>2. CASE h = g
    BY <1>3, <2>2, <1>2
  <2>3. ASSUME NEW k \in RecordFinalCount(g, a), h \in Close(k) PROVE Counted(h)
    <3>1. g.status \notin Terminal /\ k = Bump(b)
      BY <1>3 DEF RecordFinalCount, When, Terminal
    <3>2. /\ b \in Graph /\ b.finals = {count} /\ b.moves = g.moves /\ b.attrs = g.attrs
          /\ b.status = g.status
      BY <2>1 DEF Graph, FinalCount
    <3>3. count.moves = g.moves /\ count.attrs = g.attrs
      OBVIOUS
    <3>4. k \in Graph
      BY <2>1, FinalCountExtends DEF Extends
    <3> HIDE DEF b, count
    <3>5. /\ k.finals = {count} /\ k.moves = g.moves /\ k.attrs = g.attrs
          /\ k.status = g.status
      BY <3>1, <3>2, StepFields
    <3>6. h = Finish(k, "normal")
      BY <2>3, <3>1, <3>5 DEF Close, When
    <3> QED BY <3>3, <3>4, <3>5, <3>6, StepFields DEF Counted, Terminal
  <2> QED BY <2>1, <2>2, <2>3 DEF CloseWithFinalCount, When
<1>4. CASE g.finals = {} /\ c.op \in {"suspend", "resume", "beginClose", "abortClose", "archive"}
  <2>1. h = g \/ \E status \in Active \cup Terminal : h = Enter(g, status)
    BY <1>4 DEF Outcome, Suspend, Resume, BeginClose, AbortClose, Archive,
                When, Active, Terminal
  <2> QED BY <1>4, <2>1, <1>2
<1>5. CASE g.finals = {} /\ c.op \in {"close", "cancelOpen"}
  <2>1. h = g \/ \E why \in {"normal", "cancelled_empty"} : h = Finish(g, why)
    BY <1>5 DEF Outcome, Close, CancelOpen, When
  <2> QED BY <1>5, <2>1, <1>2
<1>6. CASE g.finals = {} /\ c.op = "interimCount"
  <2> DEFINE k == [g EXCEPT !.interim = TRUE]
  <2>1. h = Bump(k) /\ k \in Graph /\ k.finals = {}
    BY <1>6 DEF Outcome, RecordInterimCount, When, Graph
  <2> HIDE DEF k
  <2> QED BY <1>6, <2>1, <1>2
<1>7. CASE g.finals = {} /\ c.op \in {"initiateHandover", "rejectHandover", "acceptHandover"}
  <2>1. \/ h = g
        \/ \E v \in {"pending", "rejected"}, status \in {"open", "handover_pending"} :
             h = Enter([g EXCEPT !.handover = v], status)
    BY <1>7 DEF Outcome, InitiateHandover, RejectHandover, AcceptHandover, When
  <2>2. ASSUME NEW v \in {"pending", "rejected"}
        PROVE  [g EXCEPT !.handover = v] \in Graph /\ [g EXCEPT !.handover = v].finals = {}
    BY <1>7 DEF Graph
  <2> QED BY <1>7, <2>1, <2>2, <1>2
<1>8. CASE g.finals = {} /\ c.op = "movement"
  <2> DEFINE k == [g EXCEPT !.moves = @ \cup {c.movement}]
  <2>1. c.movement \in Movements /\ h \in RecordMovement(g, c.movement)
    BY <1>8, CommandInput DEF Outcome
  <2>2. h = g \/ h = Bump(k)
    BY <2>1 DEF RecordMovement, When
  <2>3. k \in Graph /\ k.finals = {}
    BY <1>8, <2>1 DEF Graph
  <2> HIDE DEF k
  <2> QED BY <1>8, <2>2, <2>3, <1>2
<1>9. CASE g.finals = {} /\ c.op = "attribution"
  <2> DEFINE k == [g EXCEPT !.attrs = @ \cup {c.fact}]
  <2>1. c.fact \in Facts /\ h \in CreateAttribution(g, c.fact)
    BY <1>9, CommandInput DEF Outcome
  <2>2. h = g \/ h = Bump(k)
    BY <2>1 DEF CreateAttribution, When
  <2>3. k \in Graph /\ k.finals = {}
    BY <1>9, <2>1 DEF Graph
  <2> HIDE DEF k
  <2> QED BY <1>9, <2>2, <2>3, <1>2
<1> QED
  BY <1>1, <1>3, <1>4, <1>5, <1>6, <1>7, <1>8, <1>9, CommandInput DEF AllOps, PlainOps

AllCounted == \A s \in Shifts : Exists(s) => Counted(shift[s])

(* What is counted is what the drawer holds, in every shift there is, when *)
(* no client takes a final count apart from the close.                     *)
THEOREM CountsAreWhole ==
  ASSUME "finalCount" \notin Ops
  PROVE  LedgerSpec => []AllCounted
<1>1. LedgerInit => AllCounted
  BY DEF LedgerInit, AllCounted, Exists
<1>2. LedgerTypeOK /\ AllCounted /\ [LedgerNext]_shift => AllCounted'
  <2> SUFFICES ASSUME LedgerTypeOK, AllCounted, [LedgerNext]_shift PROVE AllCounted'
    OBVIOUS
  <2>1. CASE LedgerNext
    <3>1. PICK s \in Shifts, h \in Graph :
            /\ shift' = [shift EXCEPT ![s] = h]
            /\ \/ \E k \in Registers, float \in Amounts : h = NewShift(k, float)
               \/ /\ Exists(s)
                  /\ \E c \in ShiftCommand : h \in Outcome(c, shift[s])
      BY <2>1, StepCases
    <3>2. Counted(h)
      <4>1. ASSUME NEW k \in Registers, NEW float \in Amounts, h = NewShift(k, float)
            PROVE  Counted(h)
        BY <4>1 DEF Counted, NewShift
      <4>2. ASSUME Exists(s), NEW c \in ShiftCommand, h \in Outcome(c, shift[s])
            PROVE  Counted(h)
        <5>1. shift[s] \in Graph /\ Counted(shift[s])
          BY <4>2 DEF LedgerTypeOK, AllCounted, Exists
        <5>2. c.op # "finalCount"
          BY CommandInput
        <5> QED BY <4>2, <5>1, <5>2, OutcomeCounted
      <4> QED BY <3>1, <4>1, <4>2
    <3> QED BY <3>1, <3>2 DEF LedgerTypeOK, AllCounted, Exists
  <2>2. CASE UNCHANGED shift
    BY <2>2 DEF AllCounted, Exists
  <2> QED BY <2>1, <2>2
<1> QED BY <1>1, <1>2, LedgerTypes, PTL DEF LedgerSpec
=============================================================================

--------------------------- MODULE OrderSettlement ---------------------------
(***************************************************************************)
(* One order outside a dining session, the collection of its money and the *)
(* checks it is settled on.                                                *)
(*                                                                         *)
(* Staff move the order on, cancel it or collect its money; after a        *)
(* collection the same call, and a sweeper of any process, deliver the     *)
(* order to a check and finalize that; the consumer of OrderCreated opens  *)
(* a check for an order that is not from the cashier.  Calls overlap       *)
(* between their database round trips.  A row is compared by updatedAt, in *)
(* seconds: whether it still is what a call loaded is all that is kept of  *)
(* it.  The lifecycle stage of an order follows its status and is left out.*)
(***************************************************************************)
EXTENDS Naturals, FiniteSets

CONSTANTS
  Callers,     \* requests of staff and work of the relay
  Sweepers,    \* recoverCashierPosDownstreamSettlements, one per process
  Ops,         \* Ops[c]: what a caller may be asked to do
  MaxChecks,   \* bound: checks ever opened
  MaxFaults    \* bound: calls that die or fail

ASSUME CallersAssumption == Callers \cap Sweepers = {}
ASSUME OpsAssumption ==
  Ops \in [Callers -> SUBSET {"status", "cancel", "pay", "ensure"}]
ASSUME BoundsAssumption == MaxChecks \in Nat /\ MaxFaults \in Nat

Checks == 1 .. MaxChecks
NoCheck == 0
All == Callers \cup Sweepers

VARIABLES
  channel,    \* ordering channel of the order
  status,     \* orders.status
  collected,  \* there is a production Collection Fact of the order
  checks,     \* checks[k]: its outcome, and whether the order is a member
  ensured,    \* the claim of the OrderCreated consumer
  call,       \* call[c]: a call in progress
  faults      \* failures so far

vars == <<channel, status, collected, checks, ensured, call, faults>>
order == <<channel, status>>

Status == {"pending", "preparing", "ready", "served", "cancelled"}
Channel == {"cashier_pos", "pickup"}

(* The round trip a call makes next.                                       *)
Stage == {"idle", "ask", "assert", "walk", "load", "guard", "compare", "write",
          "membership", "accepted", "void", "eligible", "collect",
          "deliver", "create", "finalize", "ensure", "open", "enroll", "join"}

Idle == [at |-> "idle", target |-> "pending", seen |-> "pending",
         fresh |-> TRUE, check |-> NoCheck]

NewCheck(member) == [outcome |-> "open", member |-> member]
Unused == [outcome |-> "unused", member |-> FALSE]
-----------------------------------------------------------------------------
Following == [pending |-> "preparing", preparing |-> "ready", ready |-> "served"]

CanTransition(from, to) ==
  \/ from \in DOMAIN Following /\ to = Following[from]
  \/ from = "pending" /\ to = "cancelled"

(* Active memberships of the order on checks that are not voided.          *)
Blocking == {k \in Checks : checks[k].member /\ checks[k].outcome \in {"open", "paid"}}
Complete == {k \in Checks : checks[k].member /\ checks[k].outcome = "paid"}

(* Mutant of AwaitsSettlement: an order on any check counts as settled.    *)
AwaitsCheck == collected /\ Blocking = {}

AwaitsSettlement == collected /\ Complete = {}

(* The next id of operational_checks.                                      *)
Fresh(k) == checks[k] = Unused /\ \A j \in 1 .. k - 1 : checks[j] # Unused

At(c, stage) == call[c].at = stage
Go(c, stage) == call' = [call EXCEPT ![c].at = stage]
Start(c, stage) == At(c, "idle") /\ Go(c, stage)

(* Mutant of End: the call forgets to let go of the check.                 *)
EndHolding(c) == Go(c, "idle")

End(c) == call' = [call EXCEPT ![c] = Idle]
-----------------------------------------------------------------------------
Init ==
  /\ channel \in Channel
  /\ status = IF channel = "cashier_pos" THEN "preparing" ELSE "pending"
  /\ collected = FALSE
  /\ checks = [k \in Checks |-> Unused]
  /\ ensured = FALSE
  /\ call = [c \in All |-> Idle]
  /\ faults = 0

(* order.updateStatus: serving an order of the cashier is a walk.          *)
RequestStatus(c, target) ==
  /\ At(c, "idle")
  /\ call' = [call EXCEPT ![c].target = target,
                          ![c].at = IF target = "served" /\ channel = "cashier_pos"
                                    THEN "ask" ELSE "load"]
  /\ UNCHANGED <<order, collected, checks, ensured, faults>>

RequestCancel(c) ==
  /\ Start(c, "membership")
  /\ UNCHANGED <<order, collected, checks, ensured, faults>>

RequestPayment(c) ==
  /\ Start(c, "eligible")
  /\ UNCHANGED <<order, collected, checks, ensured, faults>>

(* The relay hands over OrderCreated, once: the claim is durable.          *)
RequestEnsure(c) ==
  /\ channel # "cashier_pos" /\ ~ensured
  /\ ensured' = TRUE
  /\ Start(c, "ensure")
  /\ UNCHANGED <<order, collected, checks, faults>>

Request(c) ==
  \/ "status" \in Ops[c] /\ \E target \in Status \ {"pending"} : RequestStatus(c, target)
  \/ "cancel" \in Ops[c] /\ RequestCancel(c)
  \/ "pay" \in Ops[c] /\ RequestPayment(c)
  \/ "ensure" \in Ops[c] /\ RequestEnsure(c)

(* A recovery cycle finds the collection of an order that is not settled.  *)
Discover(c) ==
  /\ AwaitsSettlement
  /\ Start(c, "deliver")
  /\ UNCHANGED <<order, collected, checks, ensured, faults>>

-----------------------------------------------------------------------------
(* Serving an order of the cashier: its status is asked, its settlement    *)
(* asserted, and the walk from the status asked made on the row loaded.    *)
Ask(c) ==
  /\ At(c, "ask")
  /\ CASE status = "served" -> Go(c, "load")
       [] status = "cancelled" -> End(c)
       [] OTHER -> call' = [call EXCEPT ![c].at = "assert", ![c].seen = status]
  /\ UNCHANGED <<order, collected, checks, ensured, faults>>

AssertSettled(c) ==
  /\ At(c, "assert")
  /\ IF Complete # {} \/ collected THEN Go(c, "walk") ELSE End(c)
  /\ UNCHANGED <<order, collected, checks, ensured, faults>>

LoadWalk(c) ==
  /\ At(c, "walk")
  /\ IF status # "served" /\ status \in {call[c].seen, Following[call[c].seen]}
     THEN call' = [call EXCEPT ![c].at = "compare", ![c].seen = Idle.seen]
     ELSE End(c)
  /\ UNCHANGED <<order, collected, checks, ensured, faults>>

(* One step of the status.                                                 *)
Load(c) ==
  /\ At(c, "load")
  /\ IF CanTransition(status, call[c].target)
     THEN Go(c, IF call[c].target = "served" THEN "guard" ELSE "compare")
     ELSE End(c)
  /\ UNCHANGED <<order, collected, checks, ensured, faults>>

(* Mutant of Completable: serving does not ask for the collection.         *)
CompletableAlways == TRUE

Completable == collected

GuardServed(c) ==
  /\ At(c, "guard")
  /\ IF Completable THEN Go(c, "compare") ELSE End(c)
  /\ UNCHANGED <<order, collected, checks, ensured, faults>>

(* The row is read again and compared by its second ...                    *)
Compare(c) ==
  /\ At(c, "compare")
  /\ IF call[c].fresh THEN Go(c, "write") ELSE End(c)
  /\ UNCHANGED <<order, collected, checks, ensured, faults>>

(* ... and written by id.  Rows others have loaded are found stale later   *)
(* on, unless this write falls into the second they were loaded in.        *)
Write(c) ==
  LET loaded == {d \in All \ {c} : call[d].at \in {"guard", "compare"}}
  IN /\ At(c, "write")
     /\ status' = call[c].target
     /\ \E stale \in IF status' = status THEN {{}} ELSE {{}, loaded} :
          call' = [d \in All |-> IF d = c THEN Idle
                                 ELSE IF d \in stale
                                 THEN [call[d] EXCEPT !.fresh = FALSE]
                                 ELSE call[d]]
     /\ UNCHANGED <<channel, collected, checks, ensured, faults>>

-----------------------------------------------------------------------------
(* Cancelling an unpaid pickup: its check is voided, then the order goes.  *)
AskMembership(c) ==
  /\ At(c, "membership")
  /\ \/ \E k \in Blocking \ Complete :
          call' = [call EXCEPT ![c].at = "accepted", ![c].check = k]
     \/ (Blocking = {} \/ Complete # {}) /\ End(c)
  /\ UNCHANGED <<order, collected, checks, ensured, faults>>

AskAccepted(c) ==
  /\ At(c, "accepted")
  /\ IF status = "pending" THEN Go(c, "void") ELSE End(c)
  /\ UNCHANGED <<order, collected, checks, ensured, faults>>

(* Mutant of CanFinalize: the outcome is written by id alone.              *)
CanFinalizeById(k) == checks[k] # Unused

(* Both writes of a finalization ask for an open check.                    *)
CanFinalize(k) == checks[k].outcome = "open"

(* Mutant of Voided: the memberships stay active.                          *)
VoidedWithMember(k) == [checks EXCEPT ![k].outcome = "voided"]

Voided(k) == [checks EXCEPT ![k] = [outcome |-> "voided", member |-> FALSE]]

Void(c) ==
  /\ At(c, "void")
  /\ IF CanFinalize(call[c].check)
     THEN /\ checks' = Voided(call[c].check)
          /\ call' = [call EXCEPT ![c] = [Idle EXCEPT !.at = "load",
                                                     !.target = "cancelled"]]
     ELSE End(c) /\ UNCHANGED checks
  /\ UNCHANGED <<order, collected, ensured, faults>>

-----------------------------------------------------------------------------
(* Collecting.  The status is asked before the transaction.                *)
AskEligible(c) ==
  /\ At(c, "eligible")
  /\ IF status = "cancelled" THEN End(c) ELSE Go(c, "collect")
  /\ UNCHANGED <<order, collected, checks, ensured, faults>>

(* The transaction of CollectionConfirm; a replay finds the fact.  Either  *)
(* way the delivery goes on behind the answer.                             *)
Collect(c) ==
  /\ At(c, "collect")
  /\ collected' = TRUE
  /\ Go(c, "deliver")
  /\ UNCHANGED <<order, checks, ensured, faults>>

(* materializeOrLoadCashierPosOpenCheck: the look for a membership, ...    *)
Deliver(c) ==
  /\ At(c, "deliver")
  /\ \/ \E k \in Blocking \ Complete :
          call' = [call EXCEPT ![c].at = "finalize", ![c].check = k]
     \/ Complete # {} /\ End(c)
     \/ Blocking = {} /\ Go(c, "create")
  /\ UNCHANGED <<order, collected, checks, ensured, faults>>

(* ... the commit of a new check with the order on it ...                  *)
Create(c) ==
  /\ At(c, "create")
  /\ \E k \in Checks :
       /\ Fresh(k)
       /\ checks' = [checks EXCEPT ![k] = NewCheck(TRUE)]
       /\ call' = [call EXCEPT ![c].at = "finalize", ![c].check = k]
  /\ UNCHANGED <<order, collected, ensured, faults>>

(* ... and its finalization; the collection it asks for is there by now.   *)
(* A caller's tenders may be refused because they do not fit the money of  *)
(* the check; a sweeper sends none and settles the amount due.             *)
Finalize(c) ==
  /\ At(c, "finalize")
  /\ \/ /\ CanFinalize(call[c].check)
        /\ checks' = [checks EXCEPT ![call[c].check].outcome = "paid"]
     \/ /\ c \in Callers \/ ~CanFinalize(call[c].check)
        /\ UNCHANGED checks
  /\ End(c)
  /\ UNCHANGED <<order, collected, ensured, faults>>

-----------------------------------------------------------------------------
(* ensureCheckForOrder: the check is committed before the order is on it.  *)
AskEnsure(c) ==
  /\ At(c, "ensure")
  /\ IF Blocking = {} THEN Go(c, "open") ELSE End(c)
  /\ UNCHANGED <<order, collected, checks, ensured, faults>>

OpenCheck(c) ==
  /\ At(c, "open")
  /\ \E k \in Checks :
       /\ Fresh(k)
       /\ checks' = [checks EXCEPT ![k] = NewCheck(FALSE)]
       /\ call' = [call EXCEPT ![c].at = "enroll", ![c].check = k]
  /\ UNCHANGED <<order, collected, ensured, faults>>

AskEnrolled(c) ==
  /\ At(c, "enroll")
  /\ IF Blocking = {} THEN Go(c, "join") ELSE End(c)
  /\ UNCHANGED <<order, collected, checks, ensured, faults>>

Join(c) ==
  /\ At(c, "join")
  /\ checks' = [checks EXCEPT ![call[c].check].member = TRUE]
  /\ End(c)
  /\ UNCHANGED <<order, collected, ensured, faults>>

(* A process stops, or a transaction fails: the call ends where it is.     *)
Crash(c) ==
  /\ ~At(c, "idle") /\ faults < MaxFaults
  /\ faults' = faults + 1
  /\ End(c)
  /\ UNCHANGED <<order, collected, checks, ensured>>
-----------------------------------------------------------------------------
Step(c) ==
  \/ Ask(c) \/ AssertSettled(c) \/ LoadWalk(c)
  \/ Load(c) \/ GuardServed(c) \/ Compare(c) \/ Write(c)
  \/ AskMembership(c) \/ AskAccepted(c) \/ Void(c)
  \/ AskEligible(c) \/ Collect(c) \/ Deliver(c) \/ Create(c) \/ Finalize(c)
  \/ AskEnsure(c) \/ OpenCheck(c) \/ AskEnrolled(c) \/ Join(c)

Next ==
  \/ \E c \in Callers : Request(c)
  \/ \E w \in Sweepers : Discover(w)
  \/ \E c \in All : Step(c) \/ Crash(c)

(* The server awaits each round trip, and each process runs a recovery     *)
(* cycle every 30 seconds.  Nothing is assumed of staff and of the relay.  *)
Fairness ==
  /\ \A c \in All : WF_vars(Step(c))
  /\ \A w \in Sweepers : WF_vars(Discover(w))

Spec == Init /\ [][Next]_vars /\ Fairness
-----------------------------------------------------------------------------
TypeOK ==
  /\ channel \in Channel
  /\ status \in Status
  /\ collected \in BOOLEAN
  /\ checks \in [Checks -> [outcome: {"unused", "open", "paid", "voided"},
                            member: BOOLEAN]]
  /\ ensured \in BOOLEAN
  /\ call \in [All -> [at: Stage, target: Status, seen: Status, fresh: BOOLEAN,
                       check: Checks \cup {NoCheck}]]
  /\ \A c \in All :
       call[c].check # NoCheck
         <=> call[c].at \in {"accepted", "void", "finalize", "enroll", "join"}
  /\ faults \in 0 .. MaxFaults

(* However calls overlap, also where a stale row is written over a newer    *)
(* one: an order is served, and a check paid, only for collected money      *)
(* (assertOrderCompletable, assertCashierPosOrderCompletable,               *)
(* completeCashierOperationalSettlementAfterCollectionFact).                *)
DoneIsCollected ==
  status = "served" \/ (\E k \in Checks : checks[k].outcome = "paid") => collected

(* A delivery, a cancellation and an enrolment that race leave no voided    *)
(* check with the order on it and no paid one without: each writes outcome  *)
(* and memberships in one transaction (finalizeOpenCheckById).              *)
MembersFollowOutcome ==
  \A k \in Checks :
    /\ checks[k].outcome = "paid" => checks[k].member
    /\ checks[k].outcome = "voided" => ~checks[k].member

(* A check that is paid or voided stays so, and keeps or has lost the order *)
(* for good, whoever else still holds its id (touchOpenCheck,               *)
(* finalizeCheckOutcome).                                                   *)
OutcomeIsFinal ==
  [][\A k \in Checks :
       checks[k].outcome \in {"paid", "voided"} => checks'[k] = checks[k]]_vars

(* Collected money ends up on a paid check of the order: whatever dies or   *)
(* voids the check before, a recovery cycle delivers it                     *)
(* (listCashierPosProductionFactsAwaitingDownstreamSettlement).             *)
CollectedIsSettled == collected ~> [](Complete # {})

(* ADR-ARCH-020: "An Order contributes to at most one non-void Check."      *)
(* The delivery of the collecting call and that of a sweeper both find no   *)
(* membership, and each commits a check of its own                          *)
(* (materializeOrLoadCashierPosOpenCheck).                                  *)
OneCheckPerOrder == Cardinality(Blocking) <= 1
==============================================================================

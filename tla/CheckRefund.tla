----------------------------- MODULE CheckRefund -----------------------------
(***************************************************************************)
(* Refunds of one paid check (applyRefundOnCheck).  A refund is an         *)
(* append-only settlement record: its generation is one above all records  *)
(* of the check, and no two records share one.  The refund that uses up    *)
(* what was collected also turns the order settlement to refunded, and     *)
(* every refund gets the next document number of the restaurant, all in    *)
(* one transaction.                                                        *)
(*                                                                         *)
(* One action per database round trip.  UPDATE and INSERT see, and wait    *)
(* for, the latest rows; a plain SELECT sees the snapshot of its           *)
(* transaction under REPEATABLE READ and the committed rows under READ     *)
(* COMMITTED: the code leaves the choice to the session.                   *)
(***************************************************************************)
EXTENDS Integers, FiniteSetsExt

CONSTANTS
  Calls,        \* calls of checkRefund.applyOnCheck
  Intents,      \* what staff mean to give back, each once
  AmountOf,     \* amount of each intent
  Collected,    \* amount of the original sale
  MaxTries,     \* transactions one call tries (5 in the code)
  MaxFaults,    \* bound on failures
  Isolations,   \* isolation levels sessions may have
  NoIntent, NoView

VARIABLES
  refunds,      \* settlement_records of kind refund
  settlement,   \* status of the order settlement of the check
  lastNumber,   \* refund_document_sequences.lastNumber
  call,         \* call[c]: where it is, what it has read and written
  faults

vars == <<refunds, settlement, lastNumber, call, faults>>

(* The finalization of the check wrote the record of the sale.             *)
SaleGeneration == 1

Refund == [generation: Nat, amount: Nat \ {0}, number: Nat, by: Calls]
Status == {"settled", "refunded"}
View == [refunds: SUBSET Refund, settlement: Status]

ASSUME AmountsAssumption ==
  /\ AmountOf \in [Intents -> Nat \ {0}]
  /\ Collected \in Nat \ {0}
  /\ NoIntent \notin Intents
ASSUME TriesAssumption == MaxTries \in Nat \ {0} /\ MaxFaults \in Nat
ASSUME IsolationAssumption ==
  Isolations \subseteq {"repeatable read", "read committed"} /\ NoView \notin View

(* The statement a call executes next; "start" begins a transaction.       *)
Writing == {"insert", "number", "commit"}
InTransaction == {"records", "status", "decide", "update"} \cup Writing
Stage == {"idle", "start", "done", "failed"} \cup InTransaction

Call ==
  [at: Stage, intent: Intents \cup {NoIntent}, heard: BOOLEAN, tries: 0 .. MaxTries,
   view: View \cup {NoView},   \* the snapshot, if there is one
   read: SUBSET Refund,        \* the refunds it decided on
   status: Status,             \* the order settlement it read
   closes: BOOLEAN,            \* it has turned the order settlement
   new: SUBSET Refund]         \* the record it has inserted

Idle == [at |-> "idle", intent |-> NoIntent, heard |-> TRUE, tries |-> 0,
         view |-> NoView, read |-> {}, status |-> "settled", closes |-> FALSE, new |-> {}]

Init ==
  /\ refunds = {}
  /\ settlement = "settled"
  /\ lastNumber = 0
  /\ call = [c \in Calls |-> Idle]
  /\ faults = 0

-----------------------------------------------------------------------------
Total(R) == SumFunctionOnSet([x \in R |-> x.amount], R)

NextGeneration(R) == Max({SaleGeneration} \cup {x.generation : x \in R}) + 1

Amount(c) == AmountOf[call[c].intent]
GenerationAtInsert(c) == NextGeneration(refunds)
Generation(c) == NextGeneration(call[c].read)
Balance(c) == Collected - Total(call[c].read)
ExhaustsAlone(c) == Amount(c) >= Collected
Exhausts(c) == Amount(c) >= Balance(c)

(* What a plain SELECT of the call sees.                                   *)
Visible(c) ==
  IF call[c].view = NoView THEN [refunds |-> refunds, settlement |-> settlement]
                           ELSE call[c].view

Published(c) == { x \in Visible(c).refunds : x.generation = Generation(c) }

(* The unique key on restaurant, check, kind and generation.               *)
TakenNever(c) == FALSE
Taken(c) == \E x \in refunds : x.generation = Generation(c)

HoldsSettlement(c) == call[c].closes
HoldsGeneration(c, g) == \E x \in call[c].new : x.generation = g
HoldsSequence(c) == call[c].at = "commit" /\ call[c].new # {}

-----------------------------------------------------------------------------
Goto(c, stage) == call' = [call EXCEPT ![c].at = stage]

(* A transaction that ends, either way, lets go of all it holds.           *)
EndedHolding(c, stage) == [call[c] EXCEPT !.at = stage]
Ended(c, stage) == [call[c] EXCEPT !.at = stage, !.view = NoView, !.read = {},
                      !.status = "settled", !.closes = FALSE, !.new = {}]
End(c, stage) == call' = [call EXCEPT ![c] = Ended(c, stage)]

Fail(c) == End(c, "failed")

(* ConcurrentRefundGenerationError: the whole transaction again.           *)
MayRetryAlways(c) == TRUE
MayRetry(c) == call[c].tries < MaxTries
Retry(c) == End(c, IF MayRetry(c) THEN "start" ELSE "failed")

(* Staff ask for a refund, and ask again when they know of no success.     *)
Request(c, i) ==
  /\ call[c].at = "idle"
  /\ \A d \in Calls : call[d].intent = i => call[d].at = "failed" \/ ~call[d].heard
  /\ call' = [call EXCEPT ![c].at = "start", ![c].intent = i]
  /\ UNCHANGED <<refunds, settlement, lastNumber, faults>>

Start(c) ==
  /\ call[c].at = "start"
  /\ \E level \in Isolations :
       call' = [call EXCEPT ![c].at = "records", ![c].tries = @ + 1,
                  ![c].view = IF level = "repeatable read"
                              THEN [refunds |-> refunds, settlement |-> settlement]
                              ELSE NoView]
  /\ UNCHANGED <<refunds, settlement, lastNumber, faults>>

ReadRecords(c) ==
  /\ call[c].at = "records"
  /\ call' = [call EXCEPT ![c].at = "status", ![c].read = Visible(c).refunds]
  /\ UNCHANGED <<refunds, settlement, lastNumber, faults>>

ReadSettlement(c) ==
  /\ call[c].at = "status"
  /\ call' = [call EXCEPT ![c].at = "decide", ![c].status = Visible(c).settlement]
  /\ UNCHANGED <<refunds, settlement, lastNumber, faults>>

(* A record published under the generation meanwhile: the same refund if   *)
(* the amount agrees, else a collision.                                    *)
Meet(c) ==
  \E x \in Published(c) :
    IF x.amount = Amount(c) THEN Goto(c, "commit") ELSE Retry(c)

(* The look for the generation, then executeRefundOnCheck.                 *)
Decide(c) ==
  /\ call[c].at = "decide"
  /\ \/ Meet(c)
     \/ /\ Published(c) = {}
        /\ Amount(c) > Balance(c)
        /\ Fail(c)
     \/ /\ Published(c) = {}
        /\ Amount(c) <= Balance(c)
        /\ Goto(c, IF Exhausts(c) /\ call[c].status = "settled" THEN "update" ELSE "insert")
  /\ UNCHANGED <<refunds, settlement, lastNumber, faults>>

(* UPDATE ... WHERE status = the status read, behind the lock of the row.  *)
UpdateSettlement(c) ==
  /\ call[c].at = "update"
  /\ \A d \in Calls : ~HoldsSettlement(d)
  /\ IF settlement = call[c].status
     THEN call' = [call EXCEPT ![c].at = "insert", ![c].closes = TRUE]
     ELSE Fail(c)
  /\ UNCHANGED <<refunds, settlement, lastNumber, faults>>

(* INSERT waits for a rival that has inserted this generation and has not  *)
(* ended.  A duplicate ends the call, unless the error of the driver is    *)
(* recognized and the look afterwards sees the row of the rival.           *)
InsertRecord(c) ==
  /\ call[c].at = "insert"
  /\ \A d \in Calls : ~HoldsGeneration(d, Generation(c))
  /\ \/ /\ ~Taken(c)
        /\ call' = [call EXCEPT ![c].at = "number",
             ![c].new = {[generation |-> Generation(c), amount |-> Amount(c),
                          number |-> 0, by |-> c]}]
     \/ Taken(c) /\ (Meet(c) \/ Fail(c))
  /\ UNCHANGED <<refunds, settlement, lastNumber, faults>>

(* The number taken on a connection of its own.                            *)
AllocateNumberApart(c) ==
  /\ call[c].at = "number"
  /\ lastNumber' = lastNumber + 1
  /\ call' = [call EXCEPT ![c].at = "commit",
                ![c].new = { [x EXCEPT !.number = lastNumber + 1] : x \in @ }]
  /\ UNCHANGED <<refunds, settlement, faults>>

(* The upsert of the sequence row locks it until the transaction ends.     *)
AllocateNumber(c) ==
  /\ call[c].at = "number"
  /\ \A d \in Calls : ~HoldsSequence(d)
  /\ call' = [call EXCEPT ![c].at = "commit",
                ![c].new = { [x EXCEPT !.number = lastNumber + 1] : x \in @ }]
  /\ UNCHANGED <<refunds, settlement, lastNumber, faults>>

Commit(c) ==
  /\ call[c].at = "commit"
  /\ refunds' = refunds \cup call[c].new
  /\ settlement' = IF call[c].closes THEN "refunded" ELSE settlement
  /\ lastNumber' = IF call[c].new = {} THEN lastNumber ELSE lastNumber + 1
  /\ End(c, "done")
  /\ UNCHANGED faults

(* Any statement fails, or the process dies: the transaction rolls back.   *)
Fault(c) ==
  /\ call[c].at \in InTransaction
  /\ faults < MaxFaults
  /\ faults' = faults + 1
  /\ Fail(c)
  /\ UNCHANGED <<refunds, settlement, lastNumber>>

(* The answer will be lost: the connection of the client is gone.          *)
LoseAnswer(c) ==
  /\ call[c].at \in InTransaction \cup {"start"}
  /\ call[c].heard
  /\ faults < MaxFaults
  /\ faults' = faults + 1
  /\ call' = [call EXCEPT ![c].heard = FALSE]
  /\ UNCHANGED <<refunds, settlement, lastNumber>>

Progress(c) ==
  \/ Start(c) \/ ReadRecords(c) \/ ReadSettlement(c) \/ Decide(c)
  \/ UpdateSettlement(c) \/ InsertRecord(c) \/ AllocateNumber(c) \/ Commit(c)

Next ==
  \/ \E c \in Calls, i \in Intents : Request(c, i)
  \/ \E c \in Calls : Progress(c) \/ Fault(c) \/ LoseAnswer(c)

(* Calls are awaited statement by statement, and the database grants a     *)
(* lock that is free.  Nothing is assumed of staff or of failures.         *)
Fairness == \A c \in Calls : WF_vars(Progress(c))

Spec == Init /\ [][Next]_vars /\ Fairness

-----------------------------------------------------------------------------
(* Shape of the tables and of every call.                                  *)
TypeOK ==
  /\ refunds \subseteq Refund
  /\ settlement \in Status
  /\ lastNumber \in Nat
  /\ call \in [Calls -> Call]
  /\ faults \in 0 .. MaxFaults

(* However many calls read the budget at the same time, at either          *)
(* isolation, no more is given back than was collected                     *)
(* (assertRefundWithinBudget on rows that may be old by then).             *)
RefundsWithinCollected == Total(refunds) <= Collected

(* The reason: a refund whose record is in place was decided on exactly    *)
(* the refunds there are, and stays so until it commits (the generation    *)
(* and its unique key stand in for a lock on the check).                   *)
DecidedOnAll == \A c \in Calls : call[c].new # {} => call[c].read = refunds

(* The order settlement is refunded exactly when nothing is left to give   *)
(* back, whichever calls collided, failed or were answered already_applied *)
(* (executeRefundOnCheck, updateOrderSettlement in the same transaction).  *)
SettlementFollowsBudget ==
  settlement = "refunded" <=> Total(refunds) = Collected

(* Refund document numbers are 1 .. n, one each, also after failures       *)
(* (allocateRefundDocumentNumber).                                         *)
NumbersGapless ==
  /\ {x.number : x \in refunds} = 1 .. lastNumber
  /\ \A x, y \in refunds : x.number = y.number => x = y

(* Every call comes to an answer: no lock of the settlement, of the        *)
(* generation or of the sequence is waited for in vain, and retries end.   *)
EveryCallEnds ==
  \A c \in Calls : call[c].at = "start" ~> call[c].at \in {"done", "failed"}

(* What the comment at applyRefundOnCheck promises of a repeated call:     *)
(* "Same amount at same generation -> already_applied (lost-response       *)
(* safe)": what staff mean to give back once is given back once.           *)
RefundOncePerIntent ==
  \A x, y \in refunds : call[x.by].intent = call[y.by].intent => x = y
=============================================================================

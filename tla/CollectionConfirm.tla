--------------------------- MODULE CollectionConfirm ---------------------------
(***************************************************************************)
(* Paying an order at the cashier.  A confirmation commits, in one         *)
(* database transaction, the next cashier invoice number of the restaurant *)
(* and the Collection Fact that makes the order PAID.  A direct sale also  *)
(* inserts its order there; an incoming order is locked first.             *)
(*                                                                         *)
(* One restaurant (every key of the three tables starts with its id), one  *)
(* action per database round trip of each of several concurrent attempts.  *)
(* Locking statements and unique keys see the latest committed rows; plain *)
(* reads see the snapshot of their transaction, which TiDB takes when the  *)
(* transaction begins and InnoDB at its first plain read.                  *)
(***************************************************************************)
EXTENDS Integers

CONSTANTS
  Attempts,        \* confirmations: calls of cashiers, retries included
  IncomingOrders,  \* placed orders waiting for the cashier
  DirectOrders,    \* ids the database gives to the orders of direct sales
  Keys, Intents,   \* client idempotency keys and payment intents
  Money,           \* what is collected: totals, discount and tenders
  Commands,        \* what the clients may send
  SnapshotPoints,  \* when the database takes the snapshot of a transaction
  NoOrder, NoCommand, NoView, NoFact, NoMoney

VARIABLES
  facts,       \* payment_collection_facts
  invoices,    \* cashier_invoices
  lastNumber,  \* cashier_invoice_sequences.lastNumber
  placed,      \* direct order ids handed out, rolled back ones included
  tx           \* tx[a]: where attempt a is and what it has read and written

vars == <<facts, invoices, lastNumber, placed, tx>>

Orders == IncomingOrders \cup DirectOrders

Command ==
  [kind: {"direct"}, order: {NoOrder}, key: Keys, intent: Intents, money: Money]
  \cup [kind: {"incoming"}, order: IncomingOrders, key: Keys,
        intent: Intents, money: Money]

Fact == [order: Orders, key: Keys, intent: Intents, money: Money]
Invoice == [order: Orders, number: Nat \ {0}]
View == [facts: SUBSET Fact, invoices: SUBSET Invoice]

ASSUME OrdersAssumption ==
  /\ IncomingOrders \cap DirectOrders = {}
  /\ NoOrder \notin Orders
ASSUME CommandsAssumption == Commands \subseteq Command /\ NoCommand \notin Command
ASSUME SnapshotAssumption == SnapshotPoints \subseteq {"begin", "firstRead"}
ASSUME NoValueAssumption == NoView \notin View /\ NoFact \notin Fact /\ NoMoney \notin Money

(* The statement an attempt executes next.                                 *)
Stage == {"idle", "precheck", "open", "lock", "lookup", "invoice", "sequence",
          "bind", "existing", "insert", "commit", "recover", "done"}

(* Stages in which an incoming attempt holds the lock on its order row.    *)
OrderLocked == {"lookup", "invoice", "sequence", "bind", "existing", "insert", "commit"}
InTransaction == OrderLocked \cup {"lock"}

Answer == {"none", "created", "replayed", "conflict", "error"}

Attempt ==
  [at: Stage, command: Command \cup {NoCommand}, order: Orders \cup {NoOrder},
   view: View \cup {NoView}, number: Nat, fact: Fact \cup {NoFact},
   answer: Answer, receipt: Money \cup {NoMoney}]

Idle == [at |-> "idle", command |-> NoCommand, order |-> NoOrder, view |-> NoView,
         number |-> 0, fact |-> NoFact, answer |-> "none", receipt |-> NoMoney]

-----------------------------------------------------------------------------
Incoming(a) == tx[a].command.kind = "incoming"
Committed == [facts |-> facts, invoices |-> invoices]

(* The rows a plain read of attempt a sees.                                *)
Snapshot(a) == IF tx[a].view = NoView THEN Committed ELSE tx[a].view

OfOrder(rows, o) == {x \in rows : x.order = o}
SharesKey(rows, c) == {f \in rows : f.key = c.key \/ f.intent = c.intent}

(* Same fingerprint and identity: the command that wrote the fact again.   *)
SameCollection(f, c, o) == f.order = o /\ f.intent = c.intent /\ f.money = c.money

(* Mutants of HoldsOrder and HoldsSequence: the order row stays locked when *)
(* the attempt is over; the sequence row is let go with the invoice bound.  *)
HoldsOrderForGood(a, o) == tx[a].at \in OrderLocked \cup {"done"} /\ tx[a].order = o
HoldsSequenceUntilBound(a) == tx[a].at = "bind"

HoldsOrder(a, o) == tx[a].at \in OrderLocked /\ tx[a].order = o
HoldsSequence(a) == tx[a].at \in InTransaction /\ tx[a].number # 0

Go(a, stage) == tx' = [tx EXCEPT ![a].at = stage]

(* The transaction, if any, is over and with it the locks.                 *)
Left(t, stage) ==
  [t EXCEPT !.at = stage, !.number = 0, !.view = NoView, !.fact = NoFact]

Finish(a, answer, money) ==
  tx' = [tx EXCEPT ![a] =
           [Left(tx[a], "done") EXCEPT !.answer = answer, !.receipt = money]]

(* A database error: an incoming confirmation looks for a collection of    *)
(* its order before it gives up; a direct sale reports the error.          *)
Fail(a) ==
  IF Incoming(a)
  THEN tx' = [tx EXCEPT ![a] = Left(tx[a], "recover")]
  ELSE Finish(a, "error", NoMoney)

Unstored == UNCHANGED <<facts, invoices, lastNumber, placed>>

-----------------------------------------------------------------------------
(* Mutant of Begin: the order of an incoming command is not passed on.     *)
BeginUnnamed(a, c) ==
  tx[a].at = "idle" /\ tx' = [tx EXCEPT ![a].at = "precheck", ![a].command = c] /\ Unstored

Begin(a, c) ==
  /\ tx[a].at = "idle"
  /\ tx' = [tx EXCEPT ![a].at = "precheck", ![a].command = c, ![a].order = c.order]
  /\ Unstored

(* Before the transaction: a direct sale whose key has already paid, an    *)
(* incoming order already paid.  Their receipts come from the fact.        *)
PreCheck(a) ==
  LET c == tx[a].command
      known == IF Incoming(a) THEN OfOrder(facts, c.order)
                              ELSE {f \in facts : f.key = c.key}
  IN
  /\ tx[a].at = "precheck"
  /\ \/ known = {} /\ Go(a, "open")
     \/ \E f \in known :
          IF Incoming(a) \/ f.money = c.money
          THEN Finish(a, "replayed", f.money)
          ELSE Finish(a, "conflict", NoMoney)
  /\ Unstored

(* START TRANSACTION; a direct sale inserts its order under a new id (all  *)
(* unused ids are alike, so one of them is enough).                        *)
Open(a) ==
  LET o == IF Incoming(a) THEN tx[a].order ELSE CHOOSE d \in DirectOrders \ placed : TRUE IN
  /\ tx[a].at = "open"
  /\ Incoming(a) \/ DirectOrders \ placed # {}
  /\ \E point \in SnapshotPoints :
       tx' = [tx EXCEPT ![a].at = IF Incoming(a) THEN "lock" ELSE "invoice",
                        ![a].order = o,
                        ![a].view = IF point = "begin" THEN Committed ELSE NoView]
  /\ placed' = IF Incoming(a) THEN placed ELSE placed \cup {o}
  /\ UNCHANGED <<facts, invoices, lastNumber>>

(* SELECT ... FOR UPDATE on the order row; waits for its holder.           *)
LockOrder(a) ==
  /\ tx[a].at = "lock"
  /\ \A b \in Attempts \ {a} : ~HoldsOrder(b, tx[a].order)
  /\ Go(a, "lookup")
  /\ Unstored

(* The collection of the locked order, if the snapshot shows one, is the   *)
(* answer; its receipt is built from what this caller wanted to collect.   *)
LookupFact(a) ==
  /\ tx[a].at = "lookup"
  /\ IF OfOrder(Snapshot(a).facts, tx[a].order) # {}
     THEN Finish(a, "replayed", tx[a].command.money)
     ELSE tx' = [tx EXCEPT ![a].at = "invoice", ![a].view = Snapshot(a)]
  /\ Unstored

FindInvoice(a) ==
  /\ tx[a].at = "invoice"
  /\ tx' = [tx EXCEPT ![a].view = Snapshot(a),
                      ![a].at = IF OfOrder(Snapshot(a).invoices, tx[a].order) # {}
                                THEN "existing" ELSE "sequence"]
  /\ Unstored

(* The sequence row stays locked from the increment to the end.            *)
NextNumber(a) ==
  /\ tx[a].at = "sequence"
  /\ \A b \in Attempts \ {a} : ~HoldsSequence(b)
  /\ tx' = [tx EXCEPT ![a].at = "bind", ![a].number = lastNumber + 1]
  /\ Unstored

(* Mutant of BindInvoice: no unique key on the order of an invoice.        *)
BindByNumber(a) ==
  /\ tx[a].at = "bind"
  /\ IF \A i \in invoices : i.number # tx[a].number THEN Go(a, "existing") ELSE Fail(a)
  /\ Unstored

BindInvoice(a) ==
  LET taken == {i \in invoices : i.order = tx[a].order \/ i.number = tx[a].number} IN
  /\ tx[a].at = "bind"
  /\ IF taken = {} \/ OfOrder(tx[a].view.invoices, tx[a].order) # {}
     THEN Go(a, "existing")
     ELSE Fail(a)
  /\ Unstored

(* The fact of this key or, failing that, of this intent.                  *)
FindExisting(a) ==
  LET c == tx[a].command  known == SharesKey(tx[a].view.facts, c) IN
  /\ tx[a].at = "existing"
  /\ \/ known = {} /\ Go(a, "insert")
     \/ /\ known # {}
        /\ IF \E f \in known : f.key = c.key /\ SameCollection(f, c, tx[a].order)
           THEN Finish(a, "replayed", c.money)
           ELSE Finish(a, "conflict", NoMoney)
  /\ Unstored

(* The unique keys on idempotency key and intent see every committed row;  *)
(* the search that follows a duplicate sees the snapshot again.            *)
InsertFact(a) ==
  LET c == tx[a].command
      row == [order |-> tx[a].order, key |-> c.key, intent |-> c.intent, money |-> c.money]
  IN
  /\ tx[a].at = "insert"
  /\ \A b \in Attempts \ {a} : tx[b].fact # NoFact => SharesKey({tx[b].fact}, c) = {}
  /\ IF SharesKey(facts, c) = {}
     THEN tx' = [tx EXCEPT ![a].at = "commit", ![a].fact = row]
     ELSE Finish(a, "error", NoMoney)
  /\ Unstored

Store(a) ==
  /\ facts' = facts \cup {tx[a].fact}
  /\ IF tx[a].number = 0
     THEN UNCHANGED <<invoices, lastNumber>>
     ELSE /\ invoices' = invoices \cup {[order |-> tx[a].order, number |-> tx[a].number]}
          /\ lastNumber' = tx[a].number

(* COMMIT; its acknowledgement may be lost.                                *)
Commit(a) ==
  /\ tx[a].at = "commit"
  /\ Store(a)
  /\ Finish(a, "created", tx[a].command.money) \/ Fail(a)
  /\ UNCHANGED placed

(* An error of a statement, a lost connection or a lock timeout. One that  *)
(* the insert of the fact ends with is reported without the search.        *)
DatabaseError(a) ==
  /\ tx[a].at \in InTransaction
  /\ IF tx[a].at = "insert" THEN Finish(a, "error", NoMoney) ELSE Fail(a)
  /\ Unstored

(* The process dies: nothing is answered, the transaction rolls back.      *)
Crash(a) ==
  /\ tx[a].at \in InTransaction \cup {"precheck", "open", "recover"}
  /\ Finish(a, "none", NoMoney)
  /\ Unstored

(* Mutant of Recover: it looks for the key of the command.                 *)
RecoverByKey(a) ==
  LET known == {f \in facts : f.key = tx[a].command.key} IN
  /\ tx[a].at = "recover"
  /\ \/ known = {} /\ Finish(a, "error", NoMoney)
     \/ \E f \in known : Finish(a, "replayed", f.money)
  /\ Unstored

(* After an error: the collection of the order, read outside.              *)
Recover(a) ==
  LET known == OfOrder(facts, tx[a].order) IN
  /\ tx[a].at = "recover"
  /\ \/ known = {} /\ Finish(a, "error", NoMoney)
     \/ \E f \in known : Finish(a, "replayed", f.money)
  /\ Unstored

Progress(a) ==
  \/ PreCheck(a) \/ Open(a) \/ LockOrder(a) \/ LookupFact(a) \/ FindInvoice(a)
  \/ NextNumber(a) \/ BindInvoice(a) \/ FindExisting(a) \/ InsertFact(a)
  \/ Commit(a) \/ Recover(a)

Init ==
  /\ facts = {} /\ invoices = {} /\ lastNumber = 0 /\ placed = {}
  /\ tx = [a \in Attempts |-> Idle]

Next ==
  \E a \in Attempts :
    \/ \E c \in Commands : Begin(a, c)
    \/ Progress(a)
    \/ DatabaseError(a) \/ Crash(a)

(* The database executes what it is sent and grants a free lock.           *)
Spec == Init /\ [][Next]_vars /\ \A a \in Attempts : WF_vars(Progress(a))

-----------------------------------------------------------------------------
TypeOK ==
  /\ facts \subseteq Fact /\ invoices \subseteq Invoice
  /\ lastNumber \in Nat /\ placed \subseteq DirectOrders
  /\ tx \in [Attempts -> Attempt]

(* An order is collected once, and a key or an intent collects once, though *)
(* no unique key covers the order of a fact (schema, payment_collection_    *)
(* facts) and reads are made from snapshots.                                *)
CollectedOnce ==
  \A f, g \in facts :
    f = g \/ (f.order # g.order /\ f.key # g.key /\ f.intent # g.intent)

(* The invoice book: the orders with an invoice are exactly the collected   *)
(* ones, and the numbers are 1..lastNumber, none twice: an attempt rolled   *)
(* back, whenever it was, leaves no hole (allocateCashierInvoiceForOrder).  *)
GaplessInvoices ==
  /\ {i.number : i \in invoices} = 1..lastNumber
  /\ {i.order : i \in invoices} = {f.order : f \in facts}
  /\ \A i, j \in invoices : i = j \/ (i.order # j.order /\ i.number # j.number)

(* Who is told PAID: an incoming order has a collection; a direct sale has  *)
(* one under its own key for the money it was asked for.                    *)
PaidAnswerIsBacked ==
  \A a \in Attempts :
    tx[a].answer \in {"created", "replayed"} =>
      \E f \in facts :
        IF Incoming(a) THEN f.order = tx[a].order
        ELSE f.key = tx[a].command.key /\ f.money = tx[a].command.money

(* Attempts never wait for each other in a circle of order and sequence     *)
(* locks: every confirmation that begins comes to an end.                   *)
EveryAttemptEnds ==
  \A a \in Attempts : tx[a].at = "precheck" ~> tx[a].at = "done"
=============================================================================

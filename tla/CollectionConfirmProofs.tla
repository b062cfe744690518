------------------------ MODULE CollectionConfirmProofs ------------------------
(***************************************************************************)
(* CollectionConfirm, for any number of attempts, orders and keys and for  *)
(* either moment of the snapshot: an order is collected once and the       *)
(* invoice book has no hole.                                               *)
(*                                                                         *)
(* The argument: from its increment of the sequence row to its end an      *)
(* attempt is alone (NumberedAlone), the unique key on the order of an     *)
(* invoice tells it that no other attempt has paid the order, and the book *)
(* has exactly the collected orders.  The lock on the order row plays no   *)
(* part in it; of a snapshot it matters only that it shows one moment.     *)
(***************************************************************************)
EXTENDS CollectionConfirm, TLAPS

OrdersOf(rows) == {x.order : x \in rows}

Numbered == {"bind", "existing", "insert", "commit"}
Bound == {"existing", "insert", "commit"}

(* What holds of an attempt in record t, under the stored rows.            *)
Commanded(t) ==
  t.at # "idle" =>
    /\ t.command \in Command
    /\ t.command.kind = "incoming" => t.order = t.command.order

OwnOrder(t) ==
  /\ t.at \in {"lock", "lookup"} => t.command.kind = "incoming"
  /\ (t.at \in InTransaction /\ t.command.kind # "incoming")
       => t.order \in placed /\ t.order \notin OrdersOf(facts)

ViewOK(t) ==
  t.view # NoView =>
    /\ t.view.facts \subseteq facts
    /\ OrdersOf(t.view.invoices) = OrdersOf(t.view.facts)

Unseen(t) ==
  /\ (t.at \in {"sequence"} \cup Numbered \/ (t.at = "invoice" /\ t.command.kind = "incoming"))
       => t.view # NoView
  /\ (t.at \in {"invoice", "sequence"} \cup Numbered /\ t.view # NoView)
       => t.order \notin OrdersOf(t.view.facts)

NumberOK(t) == IF t.at \in Numbered THEN t.number = lastNumber + 1 ELSE t.number = 0

BoundOK(t) ==
  /\ t.at \in Bound => t.order \notin OrdersOf(invoices)
  /\ t.at = "commit" =>
       /\ t.fact \in Fact /\ t.fact.order = t.order
       /\ \A f \in facts : f.key # t.fact.key /\ f.intent # t.fact.intent

Good(t) ==
  Commanded(t) /\ OwnOrder(t) /\ ViewOK(t) /\ Unseen(t) /\ NumberOK(t) /\ BoundOK(t)

NumberedAlone ==
  \A a, b \in Attempts : tx[a].at \in Numbered /\ tx[b].at \in Numbered => a = b

DirectApart ==
  \A a, b \in Attempts :
    (/\ tx[a].at \in InTransaction /\ tx[b].at \in InTransaction
     /\ tx[a].command.kind # "incoming" /\ tx[b].command.kind # "incoming"
     /\ tx[a].order = tx[b].order) => a = b

Placed == OrdersOf(facts) \cap DirectOrders \subseteq placed

ConfirmInv ==
  /\ TypeOK /\ CollectedOnce /\ GaplessInvoices /\ Placed
  /\ NumberedAlone /\ DirectApart
  /\ \A a \in Attempts : Good(tx[a])

-----------------------------------------------------------------------------
(* The initial state.                                                      *)
LEMMA ConfirmInit == Init => ConfirmInv
<1> SUFFICES ASSUME Init PROVE ConfirmInv
  OBVIOUS
<1>1. Idle \in Attempt /\ Idle.at = "idle" /\ Idle.view = NoView /\ Idle.number = 0
  BY DEF Idle, Attempt, Stage, Answer
<1>2. \A a \in Attempts : tx[a] = Idle
  BY DEF Init
<1>3. TypeOK
  BY <1>1 DEF Init, TypeOK
<1>4. \A a \in Attempts : Good(tx[a])
  BY <1>1, <1>2 DEF Good, Commanded, OwnOrder, ViewOK, Unseen, NumberOK, BoundOK,
     InTransaction, OrderLocked, Numbered, Bound
<1>5. NumberedAlone /\ DirectApart
  BY <1>1, <1>2 DEF NumberedAlone, DirectApart, Numbered, InTransaction, OrderLocked
<1>6. CollectedOnce /\ GaplessInvoices /\ Placed
  BY DEF Init, CollectedOnce, GaplessInvoices, Placed, OrdersOf
<1> QED BY <1>3, <1>4, <1>5, <1>6 DEF ConfirmInv

(* A step of one attempt that stores nothing keeps the invariant when the  *)
(* attempt is left in a good record and takes no one else's number.        *)
LEMMA LocalStep ==
  ASSUME ConfirmInv, Unstored, NEW a \in Attempts, NEW q \in Attempt,
         tx' = [tx EXCEPT ![a] = q], Good(q),
         q.at \in Numbered => tx[a].at \in Numbered
                              \/ \A b \in Attempts \ {a} : tx[b].at \notin Numbered,
         (q.at \in InTransaction /\ q.command.kind # "incoming")
           => /\ tx[a].at \in InTransaction /\ tx[a].command.kind # "incoming"
              /\ tx[a].order = q.order
  PROVE  ConfirmInv'
<1>1. TypeOK' /\ CollectedOnce' /\ GaplessInvoices' /\ Placed'
  BY DEF ConfirmInv, Unstored, TypeOK, CollectedOnce, GaplessInvoices, Placed, OrdersOf
<1>2. tx'[a] = q /\ \A b \in Attempts \ {a} : tx'[b] = tx[b]
  BY DEF ConfirmInv, TypeOK
<1>3. NumberedAlone'
  BY <1>2 DEF ConfirmInv, NumberedAlone
<1>4. DirectApart'
  BY <1>2 DEF ConfirmInv, DirectApart
<1>5. ASSUME NEW b \in Attempts PROVE Good(tx[b])'
  <2>1. Good(tx'[b])
    BY <1>2 DEF ConfirmInv
  <2> QED BY <2>1 DEF Unstored, Good, Commanded, OwnOrder, ViewOK, Unseen, NumberOK,
             BoundOK, OrdersOf
<1> QED BY <1>1, <1>3, <1>4, <1>5 DEF ConfirmInv

(* An attempt outside its transaction, with no view and no number.         *)
LEMMA GoodOutside ==
  ASSUME NEW q \in Attempt, q.at \notin InTransaction, Commanded(q),
         q.number = 0, q.view = NoView
  PROVE  Good(q)
BY DEF Good, OwnOrder, ViewOK, Unseen, NumberOK, BoundOK, InTransaction, OrderLocked,
   Numbered, Bound

-----------------------------------------------------------------------------
(* An attempt that fails or is answered is outside its transaction.        *)
LEMMA LeftRecord ==
  ASSUME NEW a \in Attempts, tx \in [Attempts -> Attempt],
         \/ Fail(a)
         \/ \E answer \in Answer, money \in Money \cup {NoMoney} : Finish(a, answer, money)
  PROVE  LET q == tx'[a] IN
         /\ tx' = [tx EXCEPT ![a] = q] /\ q \in Attempt
         /\ q.at \notin InTransaction \cup {"idle"}
         /\ q.command = tx[a].command /\ q.order = tx[a].order
         /\ q.number = 0 /\ q.view = NoView
<1>1. ASSUME NEW stage \in {"recover", "done"}
      PROVE  LET t == Left(tx[a], stage) IN
             /\ t \in Attempt /\ t.at = stage
             /\ t.command = tx[a].command /\ t.order = tx[a].order
             /\ t.number = 0 /\ t.view = NoView
  BY DEF Left, Attempt, Stage
<1>2. CASE tx' = [tx EXCEPT ![a] = Left(tx[a], "recover")]
  BY <1>1, <1>2 DEF InTransaction, OrderLocked
<1>3. CASE \E answer \in Answer, money \in Money \cup {NoMoney} : Finish(a, answer, money)
  <2>1. PICK answer \in Answer, money \in Money \cup {NoMoney} : Finish(a, answer, money)
    BY <1>3
  <2> DEFINE t == Left(tx[a], "done")
  <2>2. /\ t \in Attempt /\ t.at = "done"
        /\ t.command = tx[a].command /\ t.order = tx[a].order
        /\ t.number = 0 /\ t.view = NoView
    BY <1>1
  <2>3. tx' = [tx EXCEPT ![a] = [t EXCEPT !.answer = answer, !.receipt = money]]
    BY <2>1 DEF Finish
  <2> HIDE DEF t
  <2> QED BY <2>2, <2>3 DEF Attempt, InTransaction, OrderLocked
<1> QED BY <1>2, <1>3 DEF Fail, Answer

(* Leaving the transaction, answered or not, without storing anything.     *)
LEMMA LeaveStep ==
  ASSUME ConfirmInv, Unstored, NEW a \in Attempts, tx[a].at # "idle",
         \/ Fail(a)
         \/ \E answer \in Answer, money \in Money \cup {NoMoney} : Finish(a, answer, money)
  PROVE  ConfirmInv'
<1> DEFINE q == tx'[a]
<1>1. tx \in [Attempts -> Attempt] /\ Commanded(tx[a])
  BY DEF ConfirmInv, TypeOK, Good
<1>2. /\ tx' = [tx EXCEPT ![a] = q] /\ q \in Attempt
      /\ q.at \notin InTransaction \cup {"idle"}
      /\ q.command = tx[a].command /\ q.order = tx[a].order
      /\ q.number = 0 /\ q.view = NoView
  BY <1>1, LeftRecord
<1> HIDE DEF q
<1>3. Good(q)
  BY <1>1, <1>2, GoodOutside DEF Commanded
<1>4. q.at \notin Numbered
  BY <1>2 DEF Numbered, InTransaction, OrderLocked
<1> QED BY <1>2, <1>3, <1>4, LocalStep

(* One lemma per action.                                                   *)
LEMMA BeginKeeps ==
  ASSUME ConfirmInv, NEW a \in Attempts, NEW c \in Commands, Begin(a, c)
  PROVE  ConfirmInv'
<1> DEFINE q == tx'[a]
<1>1. tx \in [Attempts -> Attempt] /\ tx[a] \in Attempt /\ Good(tx[a])
  BY DEF ConfirmInv, TypeOK
<1>2. c \in Command /\ (c.kind = "incoming" => c.order \in Orders) /\ c.order \in Orders \cup {NoOrder}
  BY CommandsAssumption DEF Command, Orders
<1>3. /\ tx' = [tx EXCEPT ![a] = q] /\ q \in Attempt /\ q.at = "precheck"
      /\ q.command = c /\ q.order = c.order /\ q.number = tx[a].number /\ q.view = tx[a].view
  BY <1>1, <1>2 DEF Begin, Attempt, Stage
<1> HIDE DEF q
<1>4. q.number = 0 /\ ViewOK(q)
  BY <1>1, <1>3 DEF Begin, Good, NumberOK, Numbered, ViewOK
<1>5. Good(q)
  BY <1>2, <1>3, <1>4 DEF Good, Commanded, OwnOrder, Unseen, NumberOK, BoundOK,
     InTransaction, OrderLocked, Numbered, Bound
<1> QED BY <1>3, <1>5, LocalStep DEF Begin, Numbered, InTransaction, OrderLocked

LEMMA PreCheckKeeps ==
  ASSUME ConfirmInv, NEW a \in Attempts, PreCheck(a)
  PROVE  ConfirmInv'
<1>1. tx \in [Attempts -> Attempt] /\ tx[a] \in Attempt /\ Good(tx[a]) /\ facts \subseteq Fact
  BY DEF ConfirmInv, TypeOK
<1>2. CASE Go(a, "open")
  <2> DEFINE q == tx'[a]
  <2>1. /\ tx' = [tx EXCEPT ![a] = q] /\ q \in Attempt /\ q.at = "open"
        /\ q.command = tx[a].command /\ q.order = tx[a].order
        /\ q.number = tx[a].number /\ q.view = tx[a].view
    BY <1>1, <1>2 DEF Go, Attempt, Stage
  <2> HIDE DEF q
  <2>2. Good(q)
    BY <1>1, <2>1 DEF PreCheck, Good, Commanded, OwnOrder, ViewOK, Unseen, NumberOK, BoundOK,
       InTransaction, OrderLocked, Numbered, Bound
  <2> QED BY <2>1, <2>2, LocalStep DEF PreCheck, Numbered, InTransaction, OrderLocked
<1>3. CASE \E answer \in Answer, money \in Money \cup {NoMoney} : Finish(a, answer, money)
  BY <1>3, LeaveStep DEF PreCheck
<1>4. \A f \in facts : f.money \in Money
  BY <1>1 DEF Fact
<1> QED BY <1>2, <1>3, <1>4 DEF PreCheck, OfOrder, Answer

LEMMA OpenKeeps ==
  ASSUME ConfirmInv, NEW a \in Attempts, Open(a)
  PROVE  ConfirmInv'
<1> DEFINE q == tx'[a]
           o == IF Incoming(a) THEN tx[a].order ELSE CHOOSE d \in DirectOrders \ placed : TRUE
<1>1. tx \in [Attempts -> Attempt] /\ tx[a] \in Attempt /\ Good(tx[a]) /\ TypeOK
  BY DEF ConfirmInv, TypeOK
<1>2. /\ o \in Orders
      /\ IF Incoming(a) THEN o = tx[a].order ELSE o \in DirectOrders \ placed
  <2>1. CASE Incoming(a)
    BY <1>1, <2>1 DEF Open, Good, Commanded, Incoming, Command, Orders
  <2>2. CASE ~Incoming(a)
    <3>1. \E d : d \in DirectOrders \ placed
      BY <2>2 DEF Open
    <3> QED BY <2>2, <3>1 DEF Orders
  <2> QED BY <2>1, <2>2
<1>3. /\ tx' = [tx EXCEPT ![a] = q] /\ q \in Attempt
      /\ q.at = (IF Incoming(a) THEN "lock" ELSE "invoice")
      /\ q.command = tx[a].command /\ q.order = o /\ q.number = tx[a].number
      /\ q.view \in {NoView, Committed}
  <2>1. Committed \in View
    BY <1>1 DEF Committed, View, TypeOK
  <2> HIDE DEF o
  <2>2. PICK point \in SnapshotPoints :
          tx' = [tx EXCEPT ![a].at = IF Incoming(a) THEN "lock" ELSE "invoice",
                           ![a].order = o,
                           ![a].view = IF point = "begin" THEN Committed ELSE NoView]
    BY DEF Open, o
  <2> QED BY <1>1, <1>2, <2>1, <2>2 DEF Attempt, Stage
<1>4. UNCHANGED <<facts, invoices, lastNumber>>
      /\ placed' = IF Incoming(a) THEN placed ELSE placed \cup {o}
  BY DEF Open
<1>5. tx'[a] = q /\ \A b \in Attempts \ {a} : tx'[b] = tx[b]
  BY <1>1, <1>3
<1>6. tx[a].at = "open"
  BY DEF Open
<1> HIDE DEF q, o
<1>7. TypeOK' /\ CollectedOnce' /\ GaplessInvoices' /\ Placed'
  <2>1. TypeOK'
    BY <1>1, <1>2, <1>3, <1>4 DEF TypeOK
  <2>2. CollectedOnce' /\ GaplessInvoices'
    BY <1>4 DEF ConfirmInv, CollectedOnce, GaplessInvoices
  <2>3. Placed'
    BY <1>4 DEF ConfirmInv, Placed, OrdersOf
  <2> QED BY <2>1, <2>2, <2>3
<1>8. NumberedAlone'
  BY <1>3, <1>5 DEF ConfirmInv, NumberedAlone, Numbered
<1>9. \A b \in Attempts : Good(tx[b])
  BY DEF ConfirmInv
<1>10. DirectApart'
  BY <1>2, <1>3, <1>5, <1>9 DEF ConfirmInv, DirectApart, Incoming, Good, OwnOrder
<1>11. ASSUME NEW b \in Attempts PROVE Good(tx[b])'
  <2>1. CASE b # a
    BY <1>4, <1>5, <1>9, <2>1 DEF Good, Commanded, OwnOrder, ViewOK, Unseen, NumberOK,
       BoundOK, OrdersOf
  <2>2. CASE b = a
    <3>1. OrdersOf(invoices) = OrdersOf(facts)
      BY DEF ConfirmInv, GaplessInvoices, OrdersOf
    <3>2. o \notin OrdersOf(facts) \/ Incoming(a)
      BY <1>2 DEF ConfirmInv, Placed
    <3>3. Commanded(tx[a])' /\ OwnOrder(tx[a])'
      BY <1>1, <1>2, <1>3, <1>4, <1>5, <1>6, <3>2 DEF Good, Commanded, OwnOrder, Incoming, OrdersOf
    <3>4. ViewOK(tx[a])' /\ Unseen(tx[a])'
      BY <1>3, <1>4, <1>5, <3>1, <3>2 DEF ViewOK, Unseen, Committed, OrdersOf, Numbered, Incoming
    <3>5. NumberOK(tx[a])' /\ BoundOK(tx[a])'
      BY <1>1, <1>3, <1>5, <1>6 DEF Good, NumberOK, BoundOK, Numbered, Bound
    <3> QED BY <2>2, <3>3, <3>4, <3>5 DEF Good
  <2> QED BY <2>1, <2>2
<1> QED BY <1>7, <1>8, <1>10, <1>11 DEF ConfirmInv

LEMMA LockOrderKeeps ==
  ASSUME ConfirmInv, NEW a \in Attempts, LockOrder(a)
  PROVE  ConfirmInv'
<1> DEFINE q == tx'[a]
<1>1. tx \in [Attempts -> Attempt] /\ tx[a] \in Attempt /\ Good(tx[a])
  BY DEF ConfirmInv, TypeOK
<1>2. /\ tx' = [tx EXCEPT ![a] = q] /\ q \in Attempt /\ q.at = "lookup"
      /\ q.command = tx[a].command /\ q.order = tx[a].order
      /\ q.number = tx[a].number /\ q.view = tx[a].view
  BY <1>1 DEF LockOrder, Go, Attempt, Stage
<1> HIDE DEF q
<1>3. tx[a].at = "lock" /\ tx[a].command.kind = "incoming"
  BY <1>1 DEF LockOrder, Good, OwnOrder
<1>4. Good(q)
  BY <1>1, <1>2, <1>3 DEF Good, Commanded, OwnOrder, ViewOK, Unseen, NumberOK, BoundOK,
     Numbered, Bound
<1> QED BY <1>2, <1>3, <1>4, LocalStep DEF LockOrder, Numbered

(* A snapshot read leaves a view whose invoices are its collected orders.  *)
LEMMA SnapshotOK ==
  ASSUME ConfirmInv, NEW a \in Attempts
  PROVE  /\ Snapshot(a) \in View /\ Snapshot(a).facts \subseteq facts
         /\ OrdersOf(Snapshot(a).invoices) = OrdersOf(Snapshot(a).facts)
<1>1. CASE tx[a].view = NoView
  BY <1>1 DEF ConfirmInv, TypeOK, GaplessInvoices, Snapshot, Committed, View, OrdersOf
<1>2. CASE tx[a].view # NoView
  BY <1>2 DEF ConfirmInv, TypeOK, Attempt, Good, ViewOK, Snapshot
<1> QED BY <1>1, <1>2

LEMMA LookupFactKeeps ==
  ASSUME ConfirmInv, NEW a \in Attempts, LookupFact(a)
  PROVE  ConfirmInv'
<1> DEFINE q == tx'[a]
<1>1. tx \in [Attempts -> Attempt] /\ tx[a] \in Attempt /\ Good(tx[a])
  BY DEF ConfirmInv, TypeOK
<1>2. CASE OfOrder(Snapshot(a).facts, tx[a].order) = {}
  <2>1. /\ tx' = [tx EXCEPT ![a] = q] /\ q \in Attempt /\ q.at = "invoice"
        /\ q.command = tx[a].command /\ q.order = tx[a].order
        /\ q.number = tx[a].number /\ q.view = Snapshot(a)
    BY <1>1, <1>2, SnapshotOK DEF LookupFact, Attempt, Stage
  <2> HIDE DEF q
  <2>2. tx[a].at = "lookup" /\ tx[a].command.kind = "incoming"
    BY <1>1 DEF LookupFact, Good, OwnOrder
  <2>3. Commanded(q) /\ OwnOrder(q) /\ NumberOK(q) /\ BoundOK(q)
    BY <1>1, <2>1, <2>2 DEF Good, Commanded, OwnOrder, NumberOK, BoundOK, Numbered, Bound
  <2>4. ViewOK(q) /\ Unseen(q)
    <3>1. Snapshot(a) # NoView
      BY SnapshotOK, NoValueAssumption
    <3> QED BY <1>2, <2>1, <3>1, SnapshotOK DEF ViewOK, Unseen, OfOrder, OrdersOf, Numbered
  <2> QED BY <2>1, <2>2, <2>3, <2>4, LocalStep DEF LookupFact, Good, Numbered
<1>3. CASE OfOrder(Snapshot(a).facts, tx[a].order) # {}
  <2>1. tx[a].command.money \in Money
    BY <1>1 DEF LookupFact, Good, Commanded, Command
  <2> QED BY <1>3, <2>1, LeaveStep DEF LookupFact, Answer
<1> QED BY <1>2, <1>3

(* The order has no invoice in the view: it would have a collection there. *)
LEMMA FindInvoiceKeeps ==
  ASSUME ConfirmInv, NEW a \in Attempts, FindInvoice(a)
  PROVE  ConfirmInv'
<1> DEFINE q == tx'[a]
<1>1. tx \in [Attempts -> Attempt] /\ tx[a] \in Attempt /\ Good(tx[a]) /\ tx[a].at = "invoice"
  BY DEF ConfirmInv, TypeOK, FindInvoice
<1>2. tx[a].order \notin OrdersOf(Snapshot(a).facts)
  <2>1. CASE tx[a].view = NoView
    BY <1>1, <2>1 DEF Snapshot, Committed, Good, Unseen, OwnOrder, InTransaction, OrderLocked
  <2>2. CASE tx[a].view # NoView
    BY <1>1, <2>2 DEF Snapshot, Good, Unseen
  <2> QED BY <2>1, <2>2
<1>3. tx[a].order \notin OrdersOf(Snapshot(a).invoices)
  BY <1>2, SnapshotOK
<1>4. /\ tx' = [tx EXCEPT ![a] = q] /\ q \in Attempt /\ q.at = "sequence"
      /\ q.command = tx[a].command /\ q.order = tx[a].order
      /\ q.number = tx[a].number /\ q.view = Snapshot(a)
  BY <1>1, <1>3, SnapshotOK DEF FindInvoice, Attempt, Stage, OfOrder, OrdersOf
<1> HIDE DEF q
<1>5. Commanded(q) /\ OwnOrder(q) /\ NumberOK(q) /\ BoundOK(q)
  BY <1>1, <1>4 DEF Good, Commanded, OwnOrder, NumberOK, BoundOK, Numbered, Bound,
     InTransaction, OrderLocked
<1>6. ViewOK(q) /\ Unseen(q)
  <2>1. Snapshot(a) # NoView
    BY SnapshotOK, NoValueAssumption
  <2> QED BY <1>2, <1>4, <2>1, SnapshotOK DEF ViewOK, Unseen, Numbered
<1> QED BY <1>1, <1>4, <1>5, <1>6, LocalStep DEF FindInvoice, Good, Numbered,
           InTransaction, OrderLocked

LEMMA NextNumberKeeps ==
  ASSUME ConfirmInv, NEW a \in Attempts, NextNumber(a)
  PROVE  ConfirmInv'
<1> DEFINE q == tx'[a]
<1>1. /\ tx \in [Attempts -> Attempt] /\ tx[a] \in Attempt /\ Good(tx[a])
      /\ tx[a].at = "sequence" /\ lastNumber \in Nat
  BY DEF ConfirmInv, TypeOK, NextNumber
<1>2. /\ tx' = [tx EXCEPT ![a] = q] /\ q \in Attempt /\ q.at = "bind"
      /\ q.command = tx[a].command /\ q.order = tx[a].order
      /\ q.number = lastNumber + 1 /\ q.view = tx[a].view
  <2>1. lastNumber + 1 \in Nat
    BY <1>1
  <2>2. tx' = [tx EXCEPT ![a].at = "bind", ![a].number = lastNumber + 1]
    BY DEF NextNumber
  <2> QED BY <1>1, <2>1, <2>2 DEF Attempt, Stage
<1> HIDE DEF q
<1>3. Good(q)
  BY <1>1, <1>2 DEF Good, Commanded, OwnOrder, ViewOK, Unseen, NumberOK, BoundOK,
     Numbered, Bound, InTransaction, OrderLocked
<1>4. \A b \in Attempts \ {a} : tx[b].at \notin Numbered
  <2> SUFFICES ASSUME NEW b \in Attempts \ {a}, tx[b].at \in Numbered PROVE FALSE
    OBVIOUS
  <2>1. tx[b].number = lastNumber + 1
    BY DEF ConfirmInv, Good, NumberOK
  <2> QED BY <1>1, <2>1 DEF NextNumber, HoldsSequence, Numbered, InTransaction, OrderLocked
<1> QED BY <1>1, <1>2, <1>3, <1>4, LocalStep DEF NextNumber, InTransaction, OrderLocked

(* A step within the numbered stages that keeps everything but the stage   *)
(* and the fact.                                                           *)
LEMMA NumberedStep ==
  ASSUME ConfirmInv, Unstored, NEW a \in Attempts, NEW q \in Attempt,
         tx[a].at \in Numbered, q.at \in Bound,
         tx' = [tx EXCEPT ![a] = q],
         q.command = tx[a].command, q.order = tx[a].order,
         q.number = tx[a].number, q.view = tx[a].view, BoundOK(q)
  PROVE  ConfirmInv'
<1>1. Good(tx[a])
  BY DEF ConfirmInv
<1>2. Good(q)
  BY <1>1 DEF Good, Commanded, OwnOrder, ViewOK, Unseen, NumberOK,
     Numbered, Bound, InTransaction, OrderLocked
<1> QED BY <1>2, LocalStep DEF Numbered, InTransaction, OrderLocked

LEMMA BindInvoiceKeeps ==
  ASSUME ConfirmInv, NEW a \in Attempts, BindInvoice(a)
  PROVE  ConfirmInv'
<1> DEFINE q == tx'[a]
<1>1. /\ tx \in [Attempts -> Attempt] /\ tx[a] \in Attempt /\ Good(tx[a])
      /\ tx[a].at = "bind"
  BY DEF ConfirmInv, TypeOK, BindInvoice
<1>2. OfOrder(tx[a].view.invoices, tx[a].order) = {}
  BY <1>1 DEF Good, ViewOK, Unseen, OfOrder, OrdersOf, Numbered
<1>3. CASE {i \in invoices : i.order = tx[a].order \/ i.number = tx[a].number} = {}
  <2>1. /\ tx' = [tx EXCEPT ![a] = q] /\ q \in Attempt /\ q.at = "existing"
        /\ q.command = tx[a].command /\ q.order = tx[a].order
        /\ q.number = tx[a].number /\ q.view = tx[a].view
    BY <1>1, <1>3 DEF BindInvoice, Go, Attempt, Stage
  <2> HIDE DEF q
  <2>2. BoundOK(q)
    BY <1>3, <2>1 DEF BoundOK, OrdersOf
  <2> QED BY <1>1, <2>1, <2>2, NumberedStep DEF BindInvoice, Numbered, Bound
<1>4. CASE Fail(a)
  BY <1>1, <1>4, LeaveStep DEF BindInvoice
<1> QED BY <1>2, <1>3, <1>4 DEF BindInvoice

LEMMA FindExistingKeeps ==
  ASSUME ConfirmInv, NEW a \in Attempts, FindExisting(a)
  PROVE  ConfirmInv'
<1> DEFINE q == tx'[a]
<1>1. /\ tx \in [Attempts -> Attempt] /\ tx[a] \in Attempt /\ Good(tx[a])
      /\ tx[a].at = "existing"
  BY DEF ConfirmInv, TypeOK, FindExisting
<1>2. CASE Go(a, "insert")
  <2>1. /\ tx' = [tx EXCEPT ![a] = q] /\ q \in Attempt /\ q.at = "insert"
        /\ q.command = tx[a].command /\ q.order = tx[a].order
        /\ q.number = tx[a].number /\ q.view = tx[a].view
    BY <1>1, <1>2 DEF Go, Attempt, Stage
  <2> HIDE DEF q
  <2>2. BoundOK(q)
    BY <1>1, <2>1 DEF Good, BoundOK, Bound
  <2> QED BY <1>1, <2>1, <2>2, NumberedStep DEF FindExisting, Numbered, Bound
<1>3. tx[a].command.money \in Money
  BY <1>1 DEF Good, Commanded, Command
<1>4. CASE \E answer \in Answer, money \in Money \cup {NoMoney} : Finish(a, answer, money)
  BY <1>1, <1>4, LeaveStep DEF FindExisting
<1> QED BY <1>2, <1>3, <1>4 DEF FindExisting, Answer

LEMMA InsertFactKeeps ==
  ASSUME ConfirmInv, NEW a \in Attempts, InsertFact(a)
  PROVE  ConfirmInv'
<1> DEFINE q == tx'[a]
           c == tx[a].command
           row == [order |-> tx[a].order, key |-> c.key, intent |-> c.intent, money |-> c.money]
<1>1. /\ tx \in [Attempts -> Attempt] /\ tx[a] \in Attempt /\ Good(tx[a])
      /\ tx[a].at = "insert"
  BY DEF ConfirmInv, TypeOK, InsertFact
<1>2. CASE SharesKey(facts, c) = {}
  <2>1. row \in Fact
    <3>1. c \in Command /\ (c.kind = "incoming" => tx[a].order = c.order)
      BY <1>1 DEF Good, Commanded
    <3>2. c.key \in Keys /\ c.intent \in Intents /\ c.money \in Money
      BY <3>1 DEF Command
    <3>3. tx[a].order \in Orders
      <4>1. CASE c.kind = "incoming"
        BY <3>1, <4>1 DEF Command, Orders
      <4>2. CASE c.kind # "incoming"
        BY <1>1, <4>2 DEF Good, OwnOrder, InTransaction, OrderLocked, ConfirmInv, TypeOK, Orders
      <4> QED BY <4>1, <4>2
    <3> QED BY <3>2, <3>3 DEF Fact
  <2>2. row.order = tx[a].order /\ row.key = c.key /\ row.intent = c.intent
    OBVIOUS
  <2>3. tx' = [tx EXCEPT ![a].at = "commit", ![a].fact = row]
    BY <1>2 DEF InsertFact
  <2> HIDE DEF row
  <2>4. /\ tx' = [tx EXCEPT ![a] = q] /\ q \in Attempt /\ q.at = "commit"
        /\ q.command = tx[a].command /\ q.order = tx[a].order /\ q.fact = row
        /\ q.number = tx[a].number /\ q.view = tx[a].view
    BY <1>1, <2>1, <2>3 DEF Attempt, Stage
  <2> HIDE DEF q
  <2>5. BoundOK(q)
    BY <1>1, <1>2, <2>1, <2>2, <2>4 DEF Good, BoundOK, Bound, SharesKey
  <2> QED BY <1>1, <2>4, <2>5, NumberedStep DEF InsertFact, Numbered, Bound
<1>3. CASE SharesKey(facts, c) # {}
  BY <1>1, <1>3, LeaveStep DEF InsertFact, Answer
<1> QED BY <1>2, <1>3

(* What a commit stores: the next invoice, for an order that had none.     *)
LEMMA StoreKeeps ==
  ASSUME ConfirmInv, NEW a \in Attempts, tx[a].at = "commit", Store(a)
  PROVE  /\ facts' \subseteq Fact /\ invoices' \subseteq Invoice /\ lastNumber' \in Nat
         /\ facts \subseteq facts'
         /\ OrdersOf(facts') = OrdersOf(facts) \cup {tx[a].order}
         /\ CollectedOnce' /\ GaplessInvoices'
<1>1. /\ facts \subseteq Fact /\ invoices \subseteq Invoice /\ lastNumber \in Nat
      /\ tx[a] \in Attempt
  BY DEF ConfirmInv, TypeOK
<1> DEFINE i == [order |-> tx[a].order, number |-> lastNumber + 1]
           f == tx[a].fact
<1>2. /\ tx[a].number = lastNumber + 1 /\ tx[a].order \notin OrdersOf(invoices)
      /\ f \in Fact /\ f.order = tx[a].order
      /\ \A g \in facts : g.key # f.key /\ g.intent # f.intent
  BY DEF ConfirmInv, Good, NumberOK, BoundOK, Numbered, Bound
<1>3. facts' = facts \cup {f} /\ invoices' = invoices \cup {i} /\ lastNumber' = lastNumber + 1
  BY <1>1, <1>2 DEF Store
<1>4. i \in Invoice /\ i.order = tx[a].order /\ i.number = lastNumber + 1
  BY <1>1, <1>2 DEF Invoice, Fact
<1> HIDE DEF f, i
<1>5. GaplessInvoices
  BY DEF ConfirmInv
<1>6. {j.number : j \in invoices'} = 1..lastNumber'
  <2>1. {j.number : j \in invoices'} = {j.number : j \in invoices} \cup {lastNumber + 1}
    BY <1>3, <1>4
  <2> QED BY <1>1, <1>3, <1>5, <2>1 DEF GaplessInvoices
<1>7. {j.order : j \in invoices'} = {g.order : g \in facts'}
  <2>1. {j.order : j \in invoices'} = {j.order : j \in invoices} \cup {tx[a].order}
    BY <1>3, <1>4
  <2>2. {g.order : g \in facts'} = {g.order : g \in facts} \cup {tx[a].order}
    BY <1>2, <1>3
  <2> QED BY <1>5, <2>1, <2>2 DEF GaplessInvoices
<1>8. \A j \in invoices : j.order # i.order /\ j.number # i.number
  BY <1>1, <1>2, <1>4, <1>5 DEF OrdersOf, GaplessInvoices
<1>9. GaplessInvoices'
  BY <1>3, <1>5, <1>6, <1>7, <1>8 DEF GaplessInvoices
<1>10. \A g \in facts : g.order # f.order
  BY <1>2, <1>5 DEF GaplessInvoices, OrdersOf
<1>11. CollectedOnce'
  BY <1>2, <1>3, <1>10 DEF ConfirmInv, CollectedOnce
<1>12. OrdersOf(facts') = OrdersOf(facts) \cup {tx[a].order}
  BY <1>2, <1>3 DEF OrdersOf
<1>13. facts' \subseteq Fact /\ facts \subseteq facts' /\ invoices' \subseteq Invoice
  BY <1>1, <1>2, <1>3, <1>4
<1>14. lastNumber' \in Nat
  BY <1>1, <1>3
<1> QED BY <1>9, <1>11, <1>12, <1>13, <1>14

(* The other attempts are outside the numbered stages, so the next number  *)
(* and the book they rely on are not theirs; their orders are not paid.    *)
LEMMA CommitKeeps ==
  ASSUME ConfirmInv, NEW a \in Attempts, Commit(a)
  PROVE  ConfirmInv'
<1> DEFINE q == tx'[a]
<1>1. /\ tx \in [Attempts -> Attempt] /\ tx[a] \in Attempt /\ TypeOK /\ Good(tx[a])
      /\ tx[a].at = "commit" /\ Store(a) /\ placed' = placed
  BY DEF ConfirmInv, TypeOK, Commit
<1>2. /\ tx' = [tx EXCEPT ![a] = q] /\ q \in Attempt
      /\ q.at \notin InTransaction \cup {"idle"}
      /\ q.command = tx[a].command /\ q.order = tx[a].order
      /\ q.number = 0 /\ q.view = NoView
  <2>1. tx[a].command.money \in Money
    BY <1>1 DEF Good, Commanded, Command
  <2>2. \/ Fail(a)
        \/ \E answer \in Answer, money \in Money \cup {NoMoney} : Finish(a, answer, money)
    BY <2>1 DEF Commit, Answer
  <2> QED BY <1>1, <2>2, LeftRecord
<1>3. tx'[a] = q /\ \A b \in Attempts \ {a} : tx'[b] = tx[b]
  BY <1>1, <1>2
<1> HIDE DEF q
<1>4. /\ facts' \subseteq Fact /\ invoices' \subseteq Invoice /\ lastNumber' \in Nat
      /\ facts \subseteq facts'
      /\ OrdersOf(facts') = OrdersOf(facts) \cup {tx[a].order}
      /\ CollectedOnce' /\ GaplessInvoices'
  BY <1>1, StoreKeeps
<1>5. TypeOK'
  BY <1>1, <1>2, <1>4 DEF TypeOK
<1>6. tx[a].command.kind = "incoming" => tx[a].order \in IncomingOrders
  BY <1>1 DEF Good, Commanded, Command
<1>7. tx[a].command.kind # "incoming" => tx[a].order \in placed
  BY <1>1 DEF Good, OwnOrder, InTransaction, OrderLocked
<1>8. Placed'
  <2>1. OrdersOf(facts)' \cap DirectOrders \subseteq placed
    BY <1>4, <1>6, <1>7, OrdersAssumption DEF ConfirmInv, Placed, OrdersOf
  <2> QED BY <1>1, <2>1 DEF Placed
<1>9. NumberedAlone' /\ DirectApart'
  BY <1>2, <1>3 DEF ConfirmInv, NumberedAlone, DirectApart, Numbered, InTransaction, OrderLocked
<1>10. ASSUME NEW b \in Attempts PROVE Good(tx[b])'
  <2>1. CASE b = a
    <3>1. Commanded(tx[a]')
      BY <1>1, <1>2, <1>3 DEF Good, Commanded
    <3> QED BY <1>2, <1>3, <2>1, <3>1 DEF Good, Commanded, OwnOrder, ViewOK, Unseen, NumberOK,
               BoundOK, InTransaction, OrderLocked, Numbered, Bound
  <2>2. CASE b # a
    <3>1. tx'[b] = tx[b] /\ Good(tx[b]) /\ tx[b].at \notin Numbered
      BY <1>1, <1>3, <2>2 DEF ConfirmInv, NumberedAlone, Numbered
    <3>2. (tx[b].at \in InTransaction /\ tx[b].command.kind # "incoming")
            => tx[b].order # tx[a].order
      <4>1. CASE tx[a].command.kind = "incoming"
        BY <1>1, <1>6, <3>1, <4>1, OrdersAssumption DEF Good, OwnOrder, TypeOK
      <4>2. CASE tx[a].command.kind # "incoming"
        BY <1>1, <2>2, <4>2 DEF ConfirmInv, DirectApart, InTransaction, OrderLocked
      <4> QED BY <4>1, <4>2
    <3>3. OwnOrder(tx[b])'
      BY <1>1, <1>4, <3>1, <3>2 DEF Good, OwnOrder, OrdersOf
    <3>4. ViewOK(tx[b])'
      BY <1>4, <3>1 DEF Good, ViewOK, OrdersOf
    <3>5. (Commanded(tx[b]) /\ Unseen(tx[b]) /\ NumberOK(tx[b]) /\ BoundOK(tx[b]))'
      BY <3>1 DEF Good, Commanded, Unseen, NumberOK, BoundOK, OrdersOf, Numbered, Bound
    <3> QED BY <3>3, <3>4, <3>5 DEF Good
  <2> QED BY <2>1, <2>2
<1> QED BY <1>4, <1>5, <1>8, <1>9, <1>10 DEF ConfirmInv

LEMMA RecoverKeeps ==
  ASSUME ConfirmInv, NEW a \in Attempts, Recover(a)
  PROVE  ConfirmInv'
<1>1. \A f \in facts : f.money \in Money
  BY DEF ConfirmInv, TypeOK, Fact
<1> QED BY <1>1, LeaveStep DEF Recover, OfOrder, Answer

(* Every step of the specification keeps the invariant.                    *)
LEMMA ConfirmStep == ConfirmInv /\ [Next]_vars => ConfirmInv'
<1> SUFFICES ASSUME ConfirmInv, [Next]_vars PROVE ConfirmInv'
  OBVIOUS
<1>1. CASE UNCHANGED vars
  BY <1>1 DEF vars, ConfirmInv, TypeOK, CollectedOnce, GaplessInvoices, Placed, NumberedAlone,
     DirectApart, Good, Commanded, OwnOrder, ViewOK, Unseen, NumberOK, BoundOK, OrdersOf
<1>2. ASSUME NEW a \in Attempts, NEW c \in Commands, Begin(a, c) PROVE ConfirmInv'
  BY <1>2, BeginKeeps
<1>3. ASSUME NEW a \in Attempts, Progress(a) PROVE ConfirmInv'
  BY <1>3, PreCheckKeeps, OpenKeeps, LockOrderKeeps, LookupFactKeeps, FindInvoiceKeeps,
     NextNumberKeeps, BindInvoiceKeeps, FindExistingKeeps, InsertFactKeeps, CommitKeeps,
     RecoverKeeps DEF Progress
<1>4. ASSUME NEW a \in Attempts, DatabaseError(a) \/ Crash(a) PROVE ConfirmInv'
  BY <1>4, LeaveStep DEF DatabaseError, Crash, InTransaction, OrderLocked, Answer
<1> QED BY <1>1, <1>2, <1>3, <1>4 DEF Next

(* Who holds which lock, and what the numbers and facts in flight may be,  *)
(* in every stage of every confirmation.                                   *)
THEOREM ConfirmInvariant == Spec => []ConfirmInv
BY ConfirmInit, ConfirmStep, PTL DEF Spec

(* The variables of confirmations keep their types.                        *)
THEOREM ConfirmTypes == Spec => []TypeOK
<1>1. ConfirmInv => TypeOK
  BY DEF ConfirmInv
<1> QED BY <1>1, ConfirmInvariant, PTL

(* No order is collected twice, and no key or intent collects twice, for   *)
(* any number of concurrent, failing and retried confirmations: the lack   *)
(* of a unique key on the order of a Collection Fact is made up for by the *)
(* invoice inserted before it (runIncomingCashierCollectionFactTransaction *)
(* and the Direct Place transaction).                                      *)
THEOREM CollectionsAreUnique == Spec => []CollectedOnce
<1>1. ConfirmInv => CollectedOnce
  BY DEF ConfirmInv
<1> QED BY <1>1, ConfirmInvariant, PTL

(* The invoice numbers of a restaurant are 1..lastNumber, one for each     *)
(* collected order (allocateCashierInvoiceForOrder), rollbacks or not.     *)
THEOREM InvoicesAreGapless == Spec => []GaplessInvoices
<1>1. ConfirmInv => GaplessInvoices
  BY DEF ConfirmInv
<1> QED BY <1>1, ConfirmInvariant, PTL

-----------------------------------------------------------------------------
(* Who is told PAID.  Besides ConfirmInv: no answer before the end, only an *)
(* incoming attempt looks for a collection after an error, and the fact an  *)
(* attempt commits is the one its command asks for.                         *)
Backs(t, f) ==
  IF t.command.kind = "incoming" THEN f.order = t.order
  ELSE f.key = t.command.key /\ f.money = t.command.money

Answered(t, rows) ==
  /\ t.at # "done" => t.answer = "none"
  /\ t.at = "recover" => t.command.kind = "incoming"
  /\ t.at = "commit" => Backs(t, t.fact)
  /\ t.answer \in {"created", "replayed"} => \E f \in rows : Backs(t, f)

AnswerInv == \A a \in Attempts : Answered(tx[a], facts)

(* Finish gives the answer and leaves the command and the order.           *)
LEMMA FinishIs ==
  ASSUME TypeOK, NEW a \in Attempts, NEW answer, NEW money, Finish(a, answer, money)
  PROVE  /\ tx'[a].at = "done" /\ tx'[a].answer = answer
         /\ tx'[a].command = tx[a].command /\ tx'[a].order = tx[a].order
<1> DEFINE t == Left(tx[a], "done")
<1>1. t \in Attempt /\ t.at = "done" /\ t.command = tx[a].command /\ t.order = tx[a].order
  BY DEF TypeOK, Left, Attempt, Stage
<1>2. tx'[a] = [t EXCEPT !.answer = answer, !.receipt = money]
  BY DEF TypeOK, Finish
<1> HIDE DEF t
<1> QED BY <1>1, <1>2 DEF Attempt

(* An answer other than a failure needs its fact in place.                 *)
LEMMA FinishAnswered ==
  ASSUME TypeOK, NEW a \in Attempts, NEW answer, NEW money, Finish(a, answer, money),
         answer \in {"created", "replayed"} => \E f \in facts' : Backs(tx[a], f)
  PROVE  Answered(tx'[a], facts')
BY FinishIs DEF Answered, Backs

(* An error answers nothing but the failure.                               *)
LEMMA FailAnswered ==
  ASSUME TypeOK, NEW a \in Attempts, Answered(tx[a], facts), tx[a].at # "done", Fail(a)
  PROVE  Answered(tx'[a], facts')
<1>1. CASE Incoming(a)
  <2>1. tx'[a] = Left(tx[a], "recover")
    BY <1>1 DEF Fail, TypeOK
  <2>2. /\ tx'[a].at = "recover" /\ tx'[a].answer = tx[a].answer
        /\ tx'[a].command = tx[a].command
    BY <2>1 DEF Left, TypeOK, Attempt
  <2> QED BY <1>1, <2>2 DEF Answered, Incoming
<1>2. CASE ~Incoming(a)
  BY <1>2, FinishAnswered DEF Fail
<1> QED BY <1>1, <1>2

(* An attempt that goes on has no answer yet.                              *)
LEMMA OnwardAnswered ==
  ASSUME NEW a \in Attempts, Answered(tx[a], facts), tx[a].at # "done",
         tx'[a].at \notin {"done", "recover", "commit"}, tx'[a].answer = tx[a].answer
  PROVE  Answered(tx'[a], facts')
BY DEF Answered

(* Whatever an attempt does next, its answer stays backed.                 *)
LEMMA AnsweredStep ==
  ASSUME ConfirmInv, NEW a \in Attempts, Answered(tx[a], facts),
         (\E c \in Commands : Begin(a, c)) \/ Progress(a) \/ DatabaseError(a) \/ Crash(a)
  PROVE  /\ Answered(tx'[a], facts')
         /\ facts \subseteq facts'
         /\ \A b \in Attempts \ {a} : tx'[b] = tx[b]
<1>1. TypeOK /\ Good(tx[a]) /\ tx[a] \in Attempt
  BY DEF ConfirmInv, TypeOK
<1>2. facts \subseteq facts'
  BY DEF Begin, Progress, DatabaseError, Crash, PreCheck, Open, LockOrder, LookupFact,
     FindInvoice, NextNumber, BindInvoice, FindExisting, InsertFact, Commit, Store, Recover, Unstored
<1>3. \A b \in Attempts \ {a} : tx'[b] = tx[b]
  BY <1>1 DEF TypeOK, Begin, Progress, DatabaseError, Crash, PreCheck, Open, LockOrder,
     LookupFact, FindInvoice, NextNumber, BindInvoice, FindExisting, InsertFact, Commit,
     Recover, Go, Fail, Finish
<1> SUFFICES Answered(tx'[a], facts')
  BY <1>2, <1>3
<1>4. tx[a].at # "done"
  BY DEF Begin, Progress, DatabaseError, Crash, PreCheck, Open, LockOrder, LookupFact,
     FindInvoice, NextNumber, BindInvoice, FindExisting, InsertFact, Commit, Recover,
     InTransaction, OrderLocked
<1>5. ASSUME NEW stage \in Stage \ {"done", "recover", "commit"}, Go(a, stage)
      PROVE  Answered(tx'[a], facts')
  <2>1. tx'[a].at = stage /\ tx'[a].answer = tx[a].answer
    BY <1>1, <1>5 DEF Go, TypeOK, Attempt
  <2> QED BY <1>4, <2>1, OnwardAnswered
<1>6. CASE \E c \in Commands : Begin(a, c)
  <2> PICK c \in Commands : Begin(a, c)
    BY <1>6
  <2> DEFINE t == [tx[a] EXCEPT !.at = "precheck", !.command = c, !.order = c.order]
  <2>0. t.at = "precheck" /\ t.answer = tx[a].answer
    BY <1>1 DEF Attempt
  <2>1. tx'[a].at = "precheck" /\ tx'[a].answer = tx[a].answer
    BY <1>1, <2>0 DEF Begin, TypeOK
  <2> QED BY <1>4, <2>1, OnwardAnswered
<1>7. CASE PreCheck(a)
  <2>1. CASE Go(a, "open")
    BY <1>5, <2>1 DEF Stage
  <2>2. CASE ~Go(a, "open")
    <3> DEFINE c == tx[a].command
               known == IF Incoming(a) THEN OfOrder(facts, c.order)
                                       ELSE {f \in facts : f.key = c.key}
    <3>1. PICK f \in known : IF Incoming(a) \/ f.money = c.money
                             THEN Finish(a, "replayed", f.money)
                             ELSE Finish(a, "conflict", NoMoney)
      BY <1>7, <2>2 DEF PreCheck
    <3>2. Incoming(a) => tx[a].order = c.order
      BY <1>1, <1>7 DEF PreCheck, Good, Commanded, Incoming
    <3>3. f \in facts /\ (Incoming(a) \/ f.money = c.money => Backs(tx[a], f))
      BY <3>2 DEF OfOrder, Backs, Incoming
    <3> QED BY <1>1, <1>2, <3>1, <3>3, FinishAnswered
  <2> QED BY <2>1, <2>2
<1>8. CASE Open(a)
  <2> DEFINE o == IF Incoming(a) THEN tx[a].order ELSE CHOOSE d \in DirectOrders \ placed : TRUE
  <2> HIDE DEF o
  <2>1. PICK point \in SnapshotPoints :
          tx' = [tx EXCEPT ![a].at = IF Incoming(a) THEN "lock" ELSE "invoice",
                           ![a].order = o,
                           ![a].view = IF point = "begin" THEN Committed ELSE NoView]
    BY <1>8 DEF Open, o
  <2>2. tx'[a].at \in {"lock", "invoice"} /\ tx'[a].answer = tx[a].answer
    BY <1>1, <2>1 DEF TypeOK, Attempt
  <2> QED BY <1>4, <2>2, OnwardAnswered
<1>9. CASE LockOrder(a)
  BY <1>5, <1>9 DEF LockOrder, Stage
<1>10. CASE LookupFact(a)
  <2>1. CASE OfOrder(Snapshot(a).facts, tx[a].order) # {}
    <3>1. PICK f \in facts : f.order = tx[a].order
      BY <2>1, SnapshotOK DEF OfOrder
    <3>2. tx[a].command.kind = "incoming"
      BY <1>1, <1>10 DEF LookupFact, Good, OwnOrder
    <3> QED BY <1>1, <1>2, <1>10, <2>1, <3>1, <3>2, FinishAnswered DEF LookupFact, Backs
  <2>2. CASE OfOrder(Snapshot(a).facts, tx[a].order) = {}
    <3>1. tx'[a].at = "invoice" /\ tx'[a].answer = tx[a].answer
      BY <1>1, <1>10, <2>2 DEF LookupFact, TypeOK, Attempt
    <3> QED BY <1>4, <3>1, OnwardAnswered
  <2> QED BY <2>1, <2>2
<1>11. CASE FindInvoice(a)
  <2>1. tx'[a].at \in {"existing", "sequence"} /\ tx'[a].answer = tx[a].answer
    BY <1>1, <1>11 DEF FindInvoice, TypeOK, Attempt
  <2> QED BY <1>4, <2>1, OnwardAnswered
<1>12. CASE NextNumber(a)
  <2>1. tx'[a].at = "bind" /\ tx'[a].answer = tx[a].answer
    BY <1>1, <1>12 DEF NextNumber, TypeOK, Attempt
  <2> QED BY <1>4, <2>1, OnwardAnswered
<1>13. CASE BindInvoice(a)
  BY <1>1, <1>4, <1>5, <1>13, FailAnswered DEF BindInvoice, Stage
<1>14. CASE FindExisting(a)
  <2> DEFINE c == tx[a].command
             known == SharesKey(tx[a].view.facts, c)
  <2>1. CASE Go(a, "insert")
    BY <1>5, <2>1 DEF Stage
  <2>2. CASE /\ \E f \in known : f.key = c.key /\ SameCollection(f, c, tx[a].order)
             /\ Finish(a, "replayed", c.money)
    <3>1. PICK f \in known : f.key = c.key /\ SameCollection(f, c, tx[a].order)
      BY <2>2
    <3>2. f \in facts
      <4>1. tx[a].view # NoView
        BY <1>1, <1>14 DEF FindExisting, Good, Unseen, Numbered
      <4> QED BY <1>1, <4>1 DEF Good, ViewOK, SharesKey
    <3>3. Backs(tx[a], f)
      BY <3>1 DEF SameCollection, Backs
    <3> QED BY <1>1, <1>2, <2>2, <3>2, <3>3, FinishAnswered
  <2>3. CASE Finish(a, "conflict", NoMoney)
    BY <1>1, <2>3, FinishAnswered
  <2> QED BY <1>14, <2>1, <2>2, <2>3 DEF FindExisting
<1>15. CASE InsertFact(a)
  <2> DEFINE c == tx[a].command
             row == [order |-> tx[a].order, key |-> c.key, intent |-> c.intent,
                     money |-> c.money]
  <2>1. CASE SharesKey(facts, c) # {}
    BY <1>1, <1>15, <2>1, FinishAnswered DEF InsertFact
  <2>2. CASE SharesKey(facts, c) = {}
    <3>1. Backs(tx[a], row)
      BY DEF Backs
    <3>2. tx' = [tx EXCEPT ![a].at = "commit", ![a].fact = row]
      BY <1>15, <2>2 DEF InsertFact
    <3> HIDE DEF row
    <3>3. /\ tx'[a].at = "commit" /\ tx'[a].answer = tx[a].answer /\ tx'[a].fact = row
          /\ tx'[a].command = tx[a].command /\ tx'[a].order = tx[a].order
      BY <1>1, <3>2 DEF TypeOK, Attempt
    <3> QED BY <1>4, <3>1, <3>3 DEF Answered, Backs
  <2> QED BY <2>1, <2>2
<1>16. CASE Commit(a)
  <2>1. Backs(tx[a], tx[a].fact) /\ tx[a].fact \in facts'
    BY <1>16 DEF Commit, Store, Answered
  <2>2. Fail(a) \/ Finish(a, "created", tx[a].command.money)
    BY <1>16 DEF Commit
  <2> QED BY <1>1, <1>4, <2>1, <2>2, FailAnswered, FinishAnswered
<1>17. CASE Recover(a)
  <2>1. CASE Finish(a, "error", NoMoney)
    BY <1>1, <2>1, FinishAnswered
  <2>2. CASE \E f \in OfOrder(facts, tx[a].order) : Finish(a, "replayed", f.money)
    <3>1. PICK f \in OfOrder(facts, tx[a].order) : Finish(a, "replayed", f.money)
      BY <2>2
    <3>2. f \in facts /\ Backs(tx[a], f)
      BY <1>17 DEF Recover, Answered, OfOrder, Backs
    <3> QED BY <1>1, <1>2, <3>1, <3>2, FinishAnswered
  <2> QED BY <1>17, <2>1, <2>2 DEF Recover
<1>18. CASE DatabaseError(a) \/ Crash(a)
  BY <1>1, <1>4, <1>18, FailAnswered, FinishAnswered DEF DatabaseError, Crash
<1> QED BY <1>6, <1>7, <1>8, <1>9, <1>10, <1>11, <1>12, <1>13, <1>14, <1>15,
           <1>16, <1>17, <1>18 DEF Progress

(* Facts are never removed, so the answers of the others stay backed, too. *)
LEMMA AnswerStep == ConfirmInv /\ AnswerInv /\ [Next]_vars => AnswerInv'
<1> SUFFICES ASSUME ConfirmInv, AnswerInv, [Next]_vars PROVE AnswerInv'
  OBVIOUS
<1>1. CASE UNCHANGED vars
  BY <1>1 DEF vars, AnswerInv
<1>2. CASE Next
  <2>1. PICK a \in Attempts :
          (\E c \in Commands : Begin(a, c)) \/ Progress(a) \/ DatabaseError(a) \/ Crash(a)
    BY <1>2 DEF Next
  <2>2. /\ Answered(tx'[a], facts') /\ facts \subseteq facts'
        /\ \A b \in Attempts \ {a} : tx'[b] = tx[b]
    BY <2>1, AnsweredStep DEF AnswerInv
  <2>3. \A b \in Attempts \ {a} : Answered(tx'[b], facts')
    BY <2>2 DEF AnswerInv, Answered
  <2> QED BY <2>2, <2>3 DEF AnswerInv
<1> QED BY <1>1, <1>2

(* Whoever is told that an order is paid, directly, by a replay or by the  *)
(* recovery after a lost answer, there is a committed collection for it:   *)
(* of that order, or of that key and that money for a direct sale          *)
(* (confirmIncomingCashierCollection, placeDirectCashierOrder).            *)
THEOREM PaidAnswersAreBacked == Spec => []PaidAnswerIsBacked
<1>1. Init => AnswerInv
  <2>1. Idle.at = "idle" /\ Idle.answer = "none"
    BY DEF Idle
  <2>2. Answered(Idle, facts)
    BY <2>1 DEF Answered
  <2>3. Init => \A a \in Attempts : tx[a] = Idle
    BY DEF Init
  <2> QED BY <2>2, <2>3 DEF AnswerInv
<1>2. AnswerInv => PaidAnswerIsBacked
  BY DEF AnswerInv, Answered, Backs, PaidAnswerIsBacked, Incoming
<1> QED BY <1>1, <1>2, AnswerStep, ConfirmInvariant, PTL DEF Spec
=============================================================================

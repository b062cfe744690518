-------------------------- MODULE CheckRefundProofs --------------------------
(***************************************************************************)
(* For any number of calls, intents and retries, at either isolation       *)
(* level: the tables stay well typed, a refund that is in place was        *)
(* decided on every refund before it, document numbers have no gap, no     *)
(* more is given back than was collected, and the settlement says when     *)
(* all is.                                                                 *)
(***************************************************************************)
EXTENDS CheckRefund, SumLemmas, TLAPS

(* Refunds whose generations follow that of the sale without a gap.        *)
Chain(R, n) ==
  /\ n \in Nat \ {0}
  /\ {x.generation : x \in R} = 2 .. n
  /\ \A x, y \in R : x.generation = y.generation => x = y

IsChain(R) == \E n \in Nat : Chain(R, n)

(* R holds the first refunds of S.                                         *)
First(R, S) ==
  /\ R \subseteq S
  /\ \A y \in R, x \in S \ R : y.generation < x.generation

(* What a call may rely on in each of its stages.                          *)
Sound(k, R, last) ==
  /\ k.at = "idle" => k.tries = 0
  /\ k.at # "idle" => k.intent \in Intents
  /\ k.at = "start" => k.tries < MaxTries
  /\ First(k.read, R) /\ IsChain(k.read)
  /\ k.view # NoView => First(k.view.refunds, R) /\ IsChain(k.view.refunds)
  /\ k.new # {} => k.at \in {"number", "commit"} /\ k.read = R
  /\ \A x \in k.new : x.generation = NextGeneration(k.read)
  /\ \A x, y \in k.new : x = y
  /\ k.at = "commit" => \A x \in k.new : x.number = last + 1

(* The key on the generation leaves one call at a time with a record in    *)
(* place.                                                                  *)
OneWriter == \A c, d \in Calls : call[c].new # {} /\ call[d].new # {} => c = d

RefundInv ==
  /\ TypeOK
  /\ IsChain(refunds)
  /\ NumbersGapless
  /\ OneWriter
  /\ \A c \in Calls : Sound(call[c], refunds, lastNumber)

-----------------------------------------------------------------------------
(* The next generation after a chain of n is n + 1.                        *)
LEMMA NextOfChain ==
  ASSUME NEW R, NEW n, Chain(R, n)
  PROVE  NextGeneration(R) = n + 1
<1>1. {SaleGeneration} \cup {x.generation : x \in R} = 1 .. n
  BY DEF Chain, SaleGeneration
<1>2. Max(1 .. n) = n
  <2>1. n \in Nat \ {0}
    BY DEF Chain
  <2>2. n \in 1 .. n /\ \A y \in 1 .. n : n >= y
    BY <2>1
  <2>3. \A z \in 1 .. n : (\A y \in 1 .. n : z >= y) => z = n
    BY <2>1
  <2> QED BY <2>2, <2>3 DEF Max
<1> QED BY <1>1, <1>2 DEF NextGeneration

LEMMA NextIsNat ==
  ASSUME NEW R, IsChain(R)
  PROVE  NextGeneration(R) \in Nat \ {0, 1}
<1>1. PICK n \in Nat : Chain(R, n)
  BY DEF IsChain
<1>2. n \in Nat \ {0}
  BY <1>1 DEF Chain
<1> QED BY <1>1, <1>2, NextOfChain

(* A chain and the refunds it starts: while the generation after them is   *)
(* free, they are all there are.                                           *)
LEMMA FreeMeansAll ==
  ASSUME NEW R, NEW S, IsChain(R), IsChain(S), First(R, S),
         \A x \in S : x.generation # NextGeneration(R)
  PROVE  R = S
<1>1. PICK n \in Nat : Chain(R, n)
  BY DEF IsChain
<1>2. PICK m \in Nat : Chain(S, m)
  BY DEF IsChain
<1>3. NextGeneration(R) = n + 1
  BY <1>1, NextOfChain
<1>4. n \in Nat \ {0} /\ m \in Nat \ {0}
  BY <1>1, <1>2 DEF Chain
<1>5. SUFFICES ASSUME NEW x \in S \ R
               PROVE  FALSE
  BY DEF First
<1>6. x.generation \in 2 .. m
  BY <1>2 DEF Chain
<1>7. x.generation >= n + 1
  <2>1. CASE n = 1
    BY <2>1, <1>6
  <2>2. CASE n >= 2
    <3>1. PICK y \in R : y.generation = n
      <4>1. n \in 2 .. n
        BY <2>2, <1>4
      <4> QED BY <4>1, <1>1 DEF Chain
    <3>2. n < x.generation
      BY <3>1 DEF First
    <3> QED BY <3>2, <1>4, <1>6
  <2> QED BY <2>1, <2>2, <1>4
<1>8. n + 1 \in 2 .. m
  BY <1>4, <1>6, <1>7
<1>9. PICK z \in S : z.generation = n + 1
  BY <1>8, <1>2 DEF Chain
<1> QED BY <1>9, <1>3

(* A record of the next generation prolongs a chain.                       *)
LEMMA ChainGrows ==
  ASSUME NEW R, IsChain(R), NEW x, x.generation = NextGeneration(R)
  PROVE  /\ IsChain(R \cup {x})
         /\ \A Q : First(Q, R) => First(Q, R \cup {x})
<1>1. PICK n \in Nat : Chain(R, n)
  BY DEF IsChain
<1>2. n \in Nat \ {0} /\ x.generation = n + 1
  BY <1>1, NextOfChain DEF Chain
<1>3. \A y \in R : y.generation \in 2 .. n
  BY <1>1 DEF Chain
<1>4. Chain(R \cup {x}, n + 1)
  <2>1. {y.generation : y \in R \cup {x}} = {y.generation : y \in R} \cup {n + 1}
    BY <1>2
  <2>2. (2 .. n) \cup {n + 1} = 2 .. (n + 1)
    BY <1>2
  <2>3. \A y, z \in R \cup {x} : y.generation = z.generation => y = z
    BY <1>1, <1>2, <1>3 DEF Chain
  <2> QED BY <1>1, <1>2, <2>1, <2>2, <2>3 DEF Chain
<1>5. \A Q : First(Q, R) => First(Q, R \cup {x})
  <2> SUFFICES ASSUME NEW Q, First(Q, R)
               PROVE  First(Q, R \cup {x})
    OBVIOUS
  <2>1. \A y \in Q : y.generation < x.generation
    BY <1>2, <1>3 DEF First
  <2> QED BY <2>1 DEF First
<1> QED BY <1>2, <1>4, <1>5 DEF IsChain

LEMMA EmptyChain == IsChain({}) /\ \A R : First({}, R)
<1>1. Chain({}, 1)
  BY DEF Chain
<1> QED BY <1>1 DEF IsChain, First

LEMMA FirstOfItself == \A R : First(R, R)
BY DEF First

-----------------------------------------------------------------------------
(* A step that changes one call and no table.                              *)
LEMMA CallStep ==
  ASSUME RefundInv, NEW c \in Calls, NEW k \in Call,
         UNCHANGED <<refunds, settlement, lastNumber>>, faults' \in 0 .. MaxFaults,
         call' = [call EXCEPT ![c] = k],
         Sound(k, refunds, lastNumber),
         k.new # {} => \A d \in Calls \ {c} : call[d].new = {}
  PROVE  RefundInv'
<1>1. /\ TypeOK
      /\ IsChain(refunds)
      /\ NumbersGapless
      /\ OneWriter
      /\ \A d \in Calls : Sound(call[d], refunds, lastNumber)
  BY DEF RefundInv
<1>2. call \in [Calls -> Call]
  BY <1>1 DEF TypeOK
<1>3. call' \in [Calls -> Call] /\ call'[c] = k /\ \A d \in Calls \ {c} : call'[d] = call[d]
  BY <1>2
<1>4. TypeOK'
  BY <1>1, <1>3 DEF TypeOK
<1>5. OneWriter'
  BY <1>1, <1>3 DEF OneWriter
<1>6. \A d \in Calls : Sound(call'[d], refunds, lastNumber)
  BY <1>1, <1>3
<1>7. (\A d \in Calls : Sound(call[d], refunds, lastNumber))'
  BY <1>6
<1>8. NumbersGapless' /\ IsChain(refunds)'
  BY <1>1 DEF NumbersGapless
<1> QED BY <1>4, <1>5, <1>7, <1>8 DEF RefundInv

(* A transaction that ends and publishes nothing.                          *)
LEMMA EndStep ==
  ASSUME RefundInv, NEW c \in Calls, NEW stage \in {"start", "failed"},
         call[c].at # "idle", stage = "start" => call[c].tries < MaxTries,
         UNCHANGED <<refunds, settlement, lastNumber>>, faults' \in 0 .. MaxFaults,
         End(c, stage)
  PROVE  RefundInv'
<1> DEFINE k == Ended(c, stage)
<1>1. call[c] \in Call /\ Sound(call[c], refunds, lastNumber)
  BY DEF RefundInv, TypeOK
<1>2. k \in Call
  BY <1>1 DEF Ended, Call, Stage, Status
<1>3. /\ k.at = stage /\ k.intent = call[c].intent /\ k.tries = call[c].tries
      /\ k.view = NoView /\ k.read = {} /\ k.new = {}
  BY <1>1 DEF Ended, Call
<1>4. Sound(k, refunds, lastNumber)
  BY <1>1, <1>3, EmptyChain DEF Sound
<1> HIDE DEF k
<1>5. call' = [call EXCEPT ![c] = k]
  BY DEF End, k
<1> QED BY <1>2, <1>3, <1>4, <1>5, CallStep

(* A step to another stage that reads and writes nothing.                  *)
LEMMA GotoStep ==
  ASSUME RefundInv, NEW c \in Calls, NEW stage \in {"update", "insert", "commit"},
         call[c].at # "idle", call[c].new = {},
         UNCHANGED <<refunds, settlement, lastNumber, faults>>,
         Goto(c, stage)
  PROVE  RefundInv'
<1> DEFINE k == [call[c] EXCEPT !.at = stage]
<1>1. call[c] \in Call /\ Sound(call[c], refunds, lastNumber) /\ faults \in 0 .. MaxFaults
  BY DEF RefundInv, TypeOK
<1>2. k \in Call
  BY <1>1 DEF Call, Stage, InTransaction, Writing
<1>3. /\ k.at = stage /\ k.intent = call[c].intent /\ k.tries = call[c].tries
      /\ k.view = call[c].view /\ k.read = call[c].read /\ k.new = {}
  BY <1>1 DEF Call
<1>4. Sound(k, refunds, lastNumber)
  BY <1>1, <1>3 DEF Sound
<1> HIDE DEF k
<1>5. call' = [call EXCEPT ![c] = k]
  BY DEF Goto, k
<1> QED BY <1>1, <1>2, <1>3, <1>4, <1>5, CallStep

(* Retry and Meet are such steps.                                          *)
LEMMA RetryStep ==
  ASSUME RefundInv, NEW c \in Calls, call[c].at # "idle",
         UNCHANGED <<refunds, settlement, lastNumber, faults>>, Retry(c)
  PROVE  RefundInv'
<1>1. faults' \in 0 .. MaxFaults
  BY DEF RefundInv, TypeOK
<1>2. CASE MayRetry(c)
  BY <1>1, <1>2, EndStep DEF Retry, MayRetry
<1>3. CASE ~MayRetry(c)
  BY <1>1, <1>3, EndStep DEF Retry
<1> QED BY <1>2, <1>3

LEMMA MeetStep ==
  ASSUME RefundInv, NEW c \in Calls, call[c].at # "idle", call[c].new = {},
         UNCHANGED <<refunds, settlement, lastNumber, faults>>, Meet(c)
  PROVE  RefundInv'
<1>1. Goto(c, "commit") \/ Retry(c)
  BY DEF Meet
<1> QED BY <1>1, GotoStep, RetryStep

(* A plain read sees the first refunds of the chain.                       *)
LEMMA VisibleIsFirst ==
  ASSUME RefundInv, NEW c \in Calls
  PROVE  /\ First(Visible(c).refunds, refunds)
         /\ IsChain(Visible(c).refunds)
         /\ Visible(c) \in View
<1>1. /\ call[c] \in Call /\ Sound(call[c], refunds, lastNumber)
      /\ refunds \subseteq Refund /\ settlement \in Status /\ IsChain(refunds)
  BY DEF RefundInv, TypeOK
<1>2. CASE call[c].view = NoView
  BY <1>1, <1>2, FirstOfItself DEF Visible, View
<1>3. CASE call[c].view # NoView
  BY <1>1, <1>3 DEF Visible, Sound, Call
<1> QED BY <1>2, <1>3

-----------------------------------------------------------------------------
LEMMA RequestKeeps ==
  ASSUME RefundInv, NEW c \in Calls, NEW i \in Intents, Request(c, i)
  PROVE  RefundInv'
<1> DEFINE k == [call[c] EXCEPT !.at = "start", !.intent = i]
<1>1. /\ call[c] \in Call /\ Sound(call[c], refunds, lastNumber)
      /\ call \in [Calls -> Call] /\ faults \in 0 .. MaxFaults
  BY DEF RefundInv, TypeOK
<1>2. k \in Call
  BY <1>1 DEF Call, Stage
<1>3. /\ k.at = "start" /\ k.intent = i /\ k.tries = call[c].tries
      /\ k.view = call[c].view /\ k.read = call[c].read /\ k.new = call[c].new
  BY <1>1 DEF Call
<1>4. call[c].at = "idle" /\ call[c].new = {} /\ call[c].tries = 0
  BY <1>1 DEF Request, Sound
<1>5. Sound(k, refunds, lastNumber)
  BY <1>1, <1>3, <1>4, TriesAssumption DEF Sound
<1>6. call' = [call EXCEPT ![c] = k]
  BY <1>1 DEF Request
<1> HIDE DEF k
<1> QED BY <1>1, <1>2, <1>3, <1>4, <1>5, <1>6, CallStep DEF Request

LEMMA StartKeeps ==
  ASSUME RefundInv, NEW c \in Calls, Start(c)
  PROVE  RefundInv'
<1> DEFINE V == [refunds |-> refunds, settlement |-> settlement]
<1>1. /\ call[c] \in Call /\ Sound(call[c], refunds, lastNumber) /\ IsChain(refunds)
      /\ call \in [Calls -> Call] /\ faults \in 0 .. MaxFaults /\ V \in View
  BY DEF RefundInv, TypeOK, View
<1>2. PICK v \in {V, NoView} :
        call' = [call EXCEPT ![c].at = "records", ![c].tries = @ + 1, ![c].view = v]
  BY DEF Start
<1> DEFINE k == [call[c] EXCEPT !.at = "records", !.tries = call[c].tries + 1, !.view = v]
<1>3. call[c].at = "start" /\ call[c].tries < MaxTries /\ call[c].new = {}
  BY <1>1 DEF Start, Sound
<1>4. call[c].tries \in 0 .. MaxTries
  BY <1>1 DEF Call
<1>5. call[c].tries + 1 \in 0 .. MaxTries
  BY <1>3, <1>4, TriesAssumption
<1>6. k \in Call
  BY <1>1, <1>2, <1>5 DEF Call, Stage, InTransaction
<1>7. /\ k.at = "records" /\ k.intent = call[c].intent
      /\ k.view = v /\ k.read = call[c].read /\ k.new = {}
  BY <1>1, <1>3 DEF Call
<1>8. v # NoView => First(v.refunds, refunds) /\ IsChain(v.refunds)
  BY <1>1, <1>2, FirstOfItself
<1>9. Sound(k, refunds, lastNumber)
  BY <1>1, <1>3, <1>7, <1>8 DEF Sound
<1>10. call' = [call EXCEPT ![c] = k]
  BY <1>1, <1>2
<1> HIDE DEF k
<1> QED BY <1>1, <1>6, <1>7, <1>9, <1>10, CallStep DEF Start

LEMMA ReadRecordsKeeps ==
  ASSUME RefundInv, NEW c \in Calls, ReadRecords(c)
  PROVE  RefundInv'
<1> DEFINE k == [call[c] EXCEPT !.at = "status", !.read = Visible(c).refunds]
<1>1. /\ call[c] \in Call /\ Sound(call[c], refunds, lastNumber)
      /\ call \in [Calls -> Call] /\ faults \in 0 .. MaxFaults
  BY DEF RefundInv, TypeOK
<1>2. Visible(c).refunds \subseteq Refund
  BY VisibleIsFirst DEF View
<1>3. k \in Call
  BY <1>1, <1>2 DEF Call, Stage, InTransaction
<1>4. call[c].at = "records" /\ call[c].new = {}
  BY <1>1 DEF ReadRecords, Sound
<1>5. /\ k.at = "status" /\ k.intent = call[c].intent /\ k.tries = call[c].tries
      /\ k.view = call[c].view /\ k.read = Visible(c).refunds /\ k.new = {}
  BY <1>1, <1>4 DEF Call
<1>6. Sound(k, refunds, lastNumber)
  BY <1>1, <1>4, <1>5, VisibleIsFirst DEF Sound
<1>7. call' = [call EXCEPT ![c] = k]
  BY <1>1 DEF ReadRecords
<1> HIDE DEF k
<1> QED BY <1>1, <1>3, <1>5, <1>6, <1>7, CallStep DEF ReadRecords

LEMMA ReadSettlementKeeps ==
  ASSUME RefundInv, NEW c \in Calls, ReadSettlement(c)
  PROVE  RefundInv'
<1> DEFINE k == [call[c] EXCEPT !.at = "decide", !.status = Visible(c).settlement]
<1>1. /\ call[c] \in Call /\ Sound(call[c], refunds, lastNumber)
      /\ call \in [Calls -> Call] /\ faults \in 0 .. MaxFaults
  BY DEF RefundInv, TypeOK
<1>2. Visible(c).settlement \in Status
  BY VisibleIsFirst DEF View
<1>3. k \in Call
  BY <1>1, <1>2 DEF Call, Stage, InTransaction
<1>4. call[c].at = "status" /\ call[c].new = {}
  BY <1>1 DEF ReadSettlement, Sound
<1>5. /\ k.at = "decide" /\ k.intent = call[c].intent /\ k.tries = call[c].tries
      /\ k.view = call[c].view /\ k.read = call[c].read /\ k.new = {}
  BY <1>1, <1>4 DEF Call
<1>6. Sound(k, refunds, lastNumber)
  BY <1>1, <1>4, <1>5 DEF Sound
<1>7. call' = [call EXCEPT ![c] = k]
  BY <1>1 DEF ReadSettlement
<1> HIDE DEF k
<1> QED BY <1>1, <1>3, <1>5, <1>6, <1>7, CallStep DEF ReadSettlement

LEMMA DecideKeeps ==
  ASSUME RefundInv, NEW c \in Calls, Decide(c)
  PROVE  RefundInv'
<1>1. Sound(call[c], refunds, lastNumber) /\ faults' \in 0 .. MaxFaults
  BY DEF RefundInv, TypeOK, Decide
<1>2. call[c].at = "decide" /\ call[c].new = {}
  BY <1>1 DEF Decide, Sound
<1>3. CASE Meet(c)
  BY <1>2, <1>3, MeetStep DEF Decide
<1>4. CASE Fail(c)
  BY <1>1, <1>2, <1>4, EndStep DEF Decide, Fail
<1>5. CASE Goto(c, "update")
  BY <1>2, <1>5, GotoStep DEF Decide
<1>6. CASE Goto(c, "insert")
  BY <1>2, <1>6, GotoStep DEF Decide
<1> QED BY <1>3, <1>4, <1>5, <1>6 DEF Decide

LEMMA UpdateSettlementKeeps ==
  ASSUME RefundInv, NEW c \in Calls, UpdateSettlement(c)
  PROVE  RefundInv'
<1> DEFINE k == [call[c] EXCEPT !.at = "insert", !.closes = TRUE]
<1>1. /\ call[c] \in Call /\ Sound(call[c], refunds, lastNumber)
      /\ call \in [Calls -> Call] /\ faults \in 0 .. MaxFaults
  BY DEF RefundInv, TypeOK
<1>2. call[c].at = "update" /\ call[c].new = {}
  BY <1>1 DEF UpdateSettlement, Sound
<1>3. CASE Fail(c)
  BY <1>1, <1>2, <1>3, EndStep DEF UpdateSettlement, Fail
<1>4. CASE call' = [call EXCEPT ![c].at = "insert", ![c].closes = TRUE]
  <2>1. k \in Call
    BY <1>1 DEF Call, Stage, InTransaction, Writing
  <2>2. /\ k.at = "insert" /\ k.intent = call[c].intent /\ k.tries = call[c].tries
        /\ k.view = call[c].view /\ k.read = call[c].read /\ k.new = {}
    BY <1>1, <1>2 DEF Call
  <2>3. Sound(k, refunds, lastNumber)
    BY <1>1, <1>2, <2>2 DEF Sound
  <2>4. call' = [call EXCEPT ![c] = k]
    BY <1>1, <1>4
  <2> HIDE DEF k
  <2> QED BY <1>1, <2>1, <2>2, <2>3, <2>4, CallStep DEF UpdateSettlement
<1> QED BY <1>3, <1>4 DEF UpdateSettlement

(* The record goes in only behind all there are, and only when no other    *)
(* call has one in place.                                                  *)
LEMMA InsertRecordKeeps ==
  ASSUME RefundInv, NEW c \in Calls, InsertRecord(c)
  PROVE  RefundInv'
<1> DEFINE x == [generation |-> Generation(c), amount |-> Amount(c), number |-> 0, by |-> c]
           k == [call[c] EXCEPT !.at = "number", !.new = {x}]
<1>1. /\ call[c] \in Call /\ Sound(call[c], refunds, lastNumber) /\ IsChain(refunds)
      /\ call \in [Calls -> Call] /\ faults \in 0 .. MaxFaults
      /\ \A d \in Calls : Sound(call[d], refunds, lastNumber)
  BY DEF RefundInv, TypeOK
<1>2. call[c].at = "insert" /\ call[c].new = {} /\ call[c].intent \in Intents
  BY <1>1 DEF InsertRecord, Sound
<1>3. CASE Meet(c)
  BY <1>2, <1>3, MeetStep DEF InsertRecord
<1>4. CASE Fail(c)
  BY <1>1, <1>2, <1>4, EndStep DEF InsertRecord, Fail
<1>5. CASE ~Taken(c) /\ call' = [call EXCEPT ![c].at = "number", ![c].new = {x}]
  <2>1. call[c].read = refunds
    <3>1. \A y \in refunds : y.generation # NextGeneration(call[c].read)
      BY <1>5 DEF Taken, Generation
    <3>2. First(call[c].read, refunds) /\ IsChain(call[c].read)
      BY <1>1 DEF Sound
    <3> QED BY <1>1, <3>1, <3>2, FreeMeansAll
  <2>2. \A d \in Calls \ {c} : call[d].new = {}
    <3> SUFFICES ASSUME NEW d \in Calls \ {c}, NEW y \in call[d].new
                 PROVE  FALSE
      OBVIOUS
    <3>1. call[d].read = refunds /\ y.generation = NextGeneration(call[d].read)
      BY <1>1 DEF Sound
    <3>2. ~HoldsGeneration(d, Generation(c))
      BY DEF InsertRecord
    <3> QED BY <2>1, <3>1, <3>2 DEF HoldsGeneration, Generation
  <2>3. x \in Refund
    <3>1. Generation(c) \in Nat
      BY <1>1, <2>1, NextIsNat DEF Generation
    <3>2. Amount(c) \in Nat \ {0}
      BY <1>2, AmountsAssumption DEF Amount
    <3> QED BY <3>1, <3>2 DEF Refund
  <2>4. k \in Call
    BY <1>1, <2>3 DEF Call, Stage, InTransaction, Writing
  <2>5. /\ k.at = "number" /\ k.intent = call[c].intent /\ k.tries = call[c].tries
        /\ k.view = call[c].view /\ k.read = call[c].read /\ k.new = {x}
        /\ x.generation = NextGeneration(call[c].read)
    BY <1>1 DEF Call, Generation
  <2>6. Sound(k, refunds, lastNumber)
    <3> HIDE DEF x, k
    <3> QED BY <1>1, <1>2, <2>1, <2>5 DEF Sound
  <2>7. call' = [call EXCEPT ![c] = k]
    BY <1>1, <1>5
  <2> HIDE DEF k, x
  <2> QED BY <1>1, <2>2, <2>4, <2>5, <2>6, <2>7, CallStep DEF InsertRecord
<1> QED BY <1>3, <1>4, <1>5 DEF InsertRecord

LEMMA AllocateNumberKeeps ==
  ASSUME RefundInv, NEW c \in Calls, AllocateNumber(c)
  PROVE  RefundInv'
<1> DEFINE Numbered(x) == [x EXCEPT !.number = lastNumber + 1]
           k == [call[c] EXCEPT !.at = "commit", !.new = {Numbered(x) : x \in call[c].new}]
<1>1. /\ call[c] \in Call /\ Sound(call[c], refunds, lastNumber) /\ OneWriter
      /\ call \in [Calls -> Call] /\ faults \in 0 .. MaxFaults /\ lastNumber \in Nat
  BY DEF RefundInv, TypeOK
<1>2. call[c].at = "number"
  BY DEF AllocateNumber
<1>3. \A x \in call[c].new : /\ x \in Refund
                             /\ Numbered(x) \in Refund
                             /\ Numbered(x).generation = x.generation
                             /\ Numbered(x).number = lastNumber + 1
  BY <1>1 DEF Call, Refund
<1>4. k \in Call
  <2> DEFINE N == {Numbered(x) : x \in call[c].new}
  <2>1. N \in SUBSET Refund
    BY <1>3
  <2> HIDE DEF N
  <2>2. [call[c] EXCEPT !.at = "commit", !.new = N] \in Call
    BY <1>1, <2>1 DEF Call, Stage, InTransaction, Writing
  <2> QED BY <2>2 DEF N
<1>5. /\ k.at = "commit" /\ k.intent = call[c].intent /\ k.tries = call[c].tries
      /\ k.view = call[c].view /\ k.read = call[c].read
      /\ k.new = {Numbered(x) : x \in call[c].new}
  BY <1>1 DEF Call
<1>6. /\ \A x \in k.new : x.generation = NextGeneration(k.read) /\ x.number = lastNumber + 1
      /\ \A x, y \in k.new : x = y
      /\ k.new # {} => call[c].new # {}
  BY <1>1, <1>3, <1>5 DEF Sound
<1>7. Sound(k, refunds, lastNumber)
  <2> HIDE DEF k
  <2> QED BY <1>1, <1>2, <1>5, <1>6 DEF Sound
<1>8. call' = [call EXCEPT ![c] = k]
  BY <1>1 DEF AllocateNumber
<1>9. k.new # {} => \A d \in Calls \ {c} : call[d].new = {}
  BY <1>1, <1>6 DEF OneWriter
<1> HIDE DEF k
<1> QED BY <1>1, <1>4, <1>7, <1>8, <1>9, CallStep DEF AllocateNumber

LEMMA CommitKeeps ==
  ASSUME RefundInv, NEW c \in Calls, Commit(c)
  PROVE  RefundInv'
<1> DEFINE k == Ended(c, "done")
<1>1. /\ call[c] \in Call /\ Sound(call[c], refunds, lastNumber) /\ IsChain(refunds)
      /\ call \in [Calls -> Call] /\ faults \in 0 .. MaxFaults /\ lastNumber \in Nat
      /\ refunds \subseteq Refund /\ settlement \in Status /\ NumbersGapless /\ OneWriter
      /\ \A d \in Calls : Sound(call[d], refunds, lastNumber)
  BY DEF RefundInv, TypeOK
<1>2. call[c].at = "commit" /\ call[c].new \subseteq Refund
  BY <1>1 DEF Commit, Call
<1>3. k \in Call
  BY <1>1 DEF Ended, Call, Stage, Status
<1>4. /\ k.at = "done" /\ k.intent = call[c].intent /\ k.tries = call[c].tries
      /\ k.view = NoView /\ k.read = {} /\ k.new = {}
  BY <1>1 DEF Ended, Call
<1>5. \A R, n : Sound(k, R, n)
  BY <1>1, <1>2, <1>4, EmptyChain DEF Sound
<1>6. /\ call' \in [Calls -> Call] /\ call'[c] = k
      /\ \A d \in Calls \ {c} : call'[d] = call[d]
  BY <1>1, <1>3 DEF Commit, End
<1> HIDE DEF k
<1>7. TypeOK'
  <2>1. refunds' \subseteq Refund
    BY <1>1, <1>2 DEF Commit
  <2>2. settlement' \in Status /\ lastNumber' \in Nat /\ faults' \in 0 .. MaxFaults
    BY <1>1 DEF Commit, Status
  <2> QED BY <1>6, <2>1, <2>2 DEF TypeOK
<1>8. OneWriter'
  BY <1>1, <1>4, <1>6 DEF OneWriter
<1>9. CASE call[c].new = {}
  <2>1. refunds' = refunds /\ lastNumber' = lastNumber
    BY <1>9 DEF Commit
  <2>2. \A d \in Calls : Sound(call'[d], refunds, lastNumber)
    BY <1>1, <1>5, <1>6
  <2>3. (\A d \in Calls : Sound(call[d], refunds, lastNumber))'
    BY <2>1, <2>2
  <2>4. NumbersGapless' /\ IsChain(refunds)'
    BY <1>1, <2>1 DEF NumbersGapless
  <2> QED BY <1>7, <1>8, <2>3, <2>4 DEF RefundInv
<1>10. CASE call[c].new # {}
  <2>1. PICK x \in Refund : call[c].new = {x}
    BY <1>1, <1>2, <1>10 DEF Sound
  <2>2. /\ call[c].read = refunds /\ x.generation = NextGeneration(refunds)
        /\ x.number = lastNumber + 1
    BY <1>1, <1>2, <2>1 DEF Sound
  <2>3. refunds' = refunds \cup {x} /\ lastNumber' = lastNumber + 1
    BY <2>1 DEF Commit
  <2>4. IsChain(refunds')
    BY <1>1, <2>2, <2>3, ChainGrows
  <2>5. \A Q : First(Q, refunds) => First(Q, refunds')
    BY <1>1, <2>2, <2>3, ChainGrows
  <2>6. NumbersGapless'
    <3>1. {y.number : y \in refunds'} = {y.number : y \in refunds} \cup {lastNumber + 1}
      BY <2>2, <2>3
    <3>2. (1 .. lastNumber) \cup {lastNumber + 1} = 1 .. (lastNumber + 1)
      BY <1>1
    <3>3. \A y \in refunds : y.number \in 1 .. lastNumber
      BY <1>1 DEF NumbersGapless
    <3>4. \A y, z \in refunds' : y.number = z.number => y = z
      BY <1>1, <2>2, <2>3, <3>3 DEF NumbersGapless
    <3> QED BY <1>1, <2>3, <3>1, <3>2, <3>4 DEF NumbersGapless
  <2>7. ASSUME NEW d \in Calls PROVE Sound(call'[d], refunds', lastNumber')
    <3>1. CASE d = c
      BY <3>1, <1>5, <1>6
    <3>2. CASE d # c
      <4>1. call'[d] = call[d] /\ call[d].new = {}
        BY <1>1, <1>6, <1>10, <3>2 DEF OneWriter
      <4>2. Sound(call[d], refunds', lastNumber')
        BY <1>1, <2>5, <4>1 DEF Sound
      <4> QED BY <4>1, <4>2
    <3> QED BY <3>1, <3>2
  <2>8. (\A d \in Calls : Sound(call[d], refunds, lastNumber))'
    BY <2>7
  <2> QED BY <1>7, <1>8, <2>4, <2>6, <2>8 DEF RefundInv
<1> QED BY <1>9, <1>10

LEMMA FaultKeeps ==
  ASSUME RefundInv, NEW c \in Calls, Fault(c)
  PROVE  RefundInv'
<1>1. faults \in 0 .. MaxFaults
  BY DEF RefundInv, TypeOK
<1>2. faults' \in 0 .. MaxFaults
  BY <1>1, TriesAssumption DEF Fault
<1>3. call[c].at # "idle"
  BY DEF Fault, InTransaction, Writing
<1> QED BY <1>2, <1>3, EndStep DEF Fault, Fail

LEMMA LoseAnswerKeeps ==
  ASSUME RefundInv, NEW c \in Calls, LoseAnswer(c)
  PROVE  RefundInv'
<1> DEFINE k == [call[c] EXCEPT !.heard = FALSE]
<1>1. /\ call[c] \in Call /\ Sound(call[c], refunds, lastNumber) /\ OneWriter
      /\ call \in [Calls -> Call] /\ faults \in 0 .. MaxFaults
  BY DEF RefundInv, TypeOK
<1>2. faults' \in 0 .. MaxFaults
  BY <1>1, TriesAssumption DEF LoseAnswer
<1>3. k \in Call
  BY <1>1 DEF Call
<1>4. /\ k.at = call[c].at /\ k.intent = call[c].intent /\ k.tries = call[c].tries
      /\ k.view = call[c].view /\ k.read = call[c].read /\ k.new = call[c].new
  BY <1>1 DEF Call
<1>5. Sound(k, refunds, lastNumber)
  <2> HIDE DEF k
  <2> QED BY <1>1, <1>4 DEF Sound
<1>6. call' = [call EXCEPT ![c] = k]
  BY <1>1 DEF LoseAnswer
<1>7. k.new # {} => \A d \in Calls \ {c} : call[d].new = {}
  BY <1>1, <1>4 DEF OneWriter
<1> HIDE DEF k
<1> QED BY <1>2, <1>3, <1>5, <1>6, <1>7, CallStep DEF LoseAnswer

-----------------------------------------------------------------------------
LEMMA InvInit == Init => RefundInv
<1> SUFFICES ASSUME Init PROVE RefundInv
  OBVIOUS
<1>1. Idle \in Call
  BY TriesAssumption DEF Idle, Call, Stage, Status
<1>2. \A c \in Calls : call[c] = Idle
  BY DEF Init
<1>3. TypeOK
  BY <1>1, TriesAssumption DEF Init, TypeOK, Status
<1>4. Sound(Idle, refunds, lastNumber)
  BY EmptyChain DEF Idle, Sound
<1>5. OneWriter
  BY <1>2 DEF OneWriter, Idle
<1>6. NumbersGapless /\ IsChain(refunds)
  BY EmptyChain DEF Init, NumbersGapless
<1> QED BY <1>2, <1>3, <1>4, <1>5, <1>6 DEF RefundInv

LEMMA InvNext == RefundInv /\ [Next]_vars => RefundInv'
<1> SUFFICES ASSUME RefundInv, [Next]_vars PROVE RefundInv'
  OBVIOUS
<1>1. CASE \E c \in Calls, i \in Intents : Request(c, i)
  BY <1>1, RequestKeeps
<1>2. ASSUME NEW c \in Calls, Progress(c) PROVE RefundInv'
  BY <1>2, StartKeeps, ReadRecordsKeeps, ReadSettlementKeeps, DecideKeeps,
     UpdateSettlementKeeps, InsertRecordKeeps, AllocateNumberKeeps, CommitKeeps DEF Progress
<1>3. ASSUME NEW c \in Calls, Fault(c) PROVE RefundInv'
  BY <1>3, FaultKeeps
<1>4. ASSUME NEW c \in Calls, LoseAnswer(c) PROVE RefundInv'
  BY <1>4, LoseAnswerKeeps
<1>5. CASE UNCHANGED vars
  <2>1. /\ refunds' = refunds /\ settlement' = settlement /\ lastNumber' = lastNumber
        /\ call' = call /\ faults' = faults
    BY <1>5 DEF vars
  <2> QED BY <2>1 DEF RefundInv, TypeOK, NumbersGapless, OneWriter
<1> QED BY <1>1, <1>2, <1>3, <1>4, <1>5 DEF Next

-----------------------------------------------------------------------------
(* The inductive invariant of refunds.                                     *)
THEOREM RefundInvariant == Spec => []RefundInv
<1>1. Init => RefundInv
  BY InvInit
<1>2. RefundInv /\ [Next]_vars => RefundInv'
  BY InvNext
<1> QED BY <1>1, <1>2, PTL DEF Spec

(* Refunds, numbers and calls stay well typed (settlementRecords,          *)
(* refundDocumentSequences).                                               *)
THEOREM RefundTypeCorrect == Spec => []TypeOK
<1>1. RefundInv => TypeOK
  BY DEF RefundInv
<1> QED BY <1>1, RefundInvariant, PTL

(* Whoever reads the budget at the same time, and whatever the isolation   *)
(* level: a record in place was decided on all refunds there are           *)
(* (attemptApplyRefundOnCheck and the unique key of settlement_records).   *)
THEOREM RefundDecidedOnAll == Spec => []DecidedOnAll
<1>1. RefundInv => DecidedOnAll
  BY DEF RefundInv, DecidedOnAll, Sound
<1> QED BY <1>1, RefundInvariant, PTL

(* Document numbers are 1 .. n, one each (allocateRefundDocumentNumber).   *)
THEOREM RefundNumbersGapless == Spec => []NumbersGapless
<1>1. RefundInv => NumbersGapless
  BY DEF RefundInv
<1> QED BY <1>1, RefundInvariant, PTL
-----------------------------------------------------------------------------
(* What a call means the refunds to amount to when it is through.          *)
Planned(k) == AmountOf[k.intent] + Total(k.read)

(* How the stage of a call goes with the budget and the settlement s.      *)
Budgeted(k, s) ==
  /\ k.at \in {"update", "insert"} \/ k.new # {} => Planned(k) <= Collected
  /\ k.at = "update" => Planned(k) = Collected /\ k.status = "settled"
  /\ k.closes => k.at \in Writing /\ Planned(k) = Collected /\ s = "settled"
  /\ k.at = "insert" /\ Planned(k) = Collected /\ ~k.closes => s = "refunded"
  /\ k.new # {} /\ ~k.closes => Planned(k) < Collected
  /\ \A x \in k.new : x.amount = AmountOf[k.intent]
  /\ k.at = "number" \/ (k.at = "commit" /\ k.closes) => k.new # {}
  /\ k.status = "refunded" => s = "refunded"
  /\ k.view # NoView => (k.view.settlement = "refunded" => s = "refunded")

(* The lock of the settlement row leaves one call that has turned it.      *)
OneCloser == \A c, d \in Calls : call[c].closes /\ call[d].closes => c = d

BudgetInv ==
  /\ IsFiniteSet(refunds)
  /\ RefundsWithinCollected
  /\ SettlementFollowsBudget
  /\ OneCloser
  /\ \A c \in Calls : Budgeted(call[c], settlement)

(* Totals of finite sets of refunds.                                       *)
LEMMA TotalAdds ==
  ASSUME NEW R \in SUBSET Refund, IsFiniteSet(R), NEW x \in Refund, x \notin R
  PROVE  Total(R \cup {x}) = x.amount + Total(R)
<1> DEFINE f == [y \in R \cup {x} |-> y.amount]
           g == [y \in R |-> y.amount]
<1>1. \A y \in R \cup {x} : f[y] \in Int
  BY DEF Refund
<1>2. \A y \in R : f[y] = g[y]
  OBVIOUS
<1>3. f[x] = x.amount
  OBVIOUS
<1>4. Total(R \cup {x}) = SumFunctionOnSet(f, R \cup {x}) /\ Total(R) = SumFunctionOnSet(g, R)
  BY DEF Total
<1> HIDE DEF f, g
<1>5. SumFunctionOnSet(f, R \cup {x}) = f[x] + SumFunctionOnSet(f, R)
  BY <1>1, SumAdds
<1>6. SumFunctionOnSet(f, R) = SumFunctionOnSet(g, R)
  BY <1>2, SumsAgree
<1> QED BY <1>3, <1>4, <1>5, <1>6

(* The total of finitely many refunds is an integer.                       *)
LEMMA TotalIsInteger ==
  ASSUME NEW R \in SUBSET Refund, IsFiniteSet(R)
  PROVE  Total(R) \in Int
<1> DEFINE g == [y \in R |-> y.amount]
<1>1. \A y \in R : g[y] \in Int
  BY DEF Refund
<1> HIDE DEF g
<1>2. SumFunctionOnSet(g, R) \in Int
  BY <1>1, SumIsInteger
<1> QED BY <1>2 DEF Total, g

(* Without refunds nothing was given back.                                 *)
LEMMA TotalOfNothing == Total({}) = 0
BY SumOfNothing DEF Total

(* A part of the refunds amounts to no more than all of them.              *)
LEMMA TotalGrows ==
  ASSUME NEW S \in SUBSET Refund, IsFiniteSet(S), NEW R \in SUBSET S
  PROVE  Total(R) <= Total(S)
<1> DEFINE f == [y \in S |-> y.amount]
           g == [y \in R |-> y.amount]
<1>1. (\A y \in S : f[y] \in Nat) /\ (\A y \in R : f[y] = g[y])
  BY DEF Refund
<1>2. Total(S) = SumFunctionOnSet(f, S) /\ Total(R) = SumFunctionOnSet(g, R)
  BY DEF Total
<1> HIDE DEF f, g
<1>3. SumFunctionOnSet(f, R) <= SumFunctionOnSet(f, S)
  BY <1>1, SumGrows
<1>4. IsFiniteSet(R)
  BY FS_Subset
<1>5. SumFunctionOnSet(f, R) = SumFunctionOnSet(g, R)
  BY <1>1, <1>4, SumsAgree
<1> QED BY <1>2, <1>3, <1>5

(* What a call has read, and what it plans with an intent.                 *)
LEMMA ReadIsFinite ==
  ASSUME RefundInv, BudgetInv, NEW c \in Calls
  PROVE  /\ call[c].read \in SUBSET refunds /\ refunds \in SUBSET Refund
         /\ IsFiniteSet(call[c].read) /\ IsFiniteSet(refunds)
         /\ Total(call[c].read) \in Int /\ Total(refunds) \in Int
<1>1. First(call[c].read, refunds) /\ refunds \subseteq Refund /\ IsFiniteSet(refunds)
  BY DEF RefundInv, TypeOK, BudgetInv, Sound
<1>2. call[c].read \subseteq refunds
  BY <1>1 DEF First
<1>3. IsFiniteSet(call[c].read)
  BY <1>1, <1>2, FS_Subset
<1> QED BY <1>1, <1>2, <1>3, TotalIsInteger

-----------------------------------------------------------------------------
(* A step that changes one call and no table.                              *)
LEMMA BudgetStep ==
  ASSUME RefundInv, BudgetInv, NEW c \in Calls, NEW k,
         UNCHANGED <<refunds, settlement>>,
         call' = [call EXCEPT ![c] = k],
         Budgeted(k, settlement),
         k.closes => \A d \in Calls \ {c} : ~call[d].closes
  PROVE  BudgetInv'
<1>1. call'[c] = k /\ \A d \in Calls \ {c} : call'[d] = call[d]
  BY DEF RefundInv, TypeOK
<1>2. OneCloser'
  BY <1>1 DEF OneCloser, BudgetInv
<1>3. \A d \in Calls : Budgeted(call'[d], settlement)
  BY <1>1 DEF BudgetInv
<1>4. (\A d \in Calls : Budgeted(call[d], settlement))'
  BY <1>3
<1>5. IsFiniteSet(refunds)' /\ RefundsWithinCollected' /\ SettlementFollowsBudget'
  BY DEF BudgetInv, RefundsWithinCollected, SettlementFollowsBudget
<1> QED BY <1>2, <1>4, <1>5 DEF BudgetInv

(* A call that ends or starts over takes nothing along.                    *)
LEMMA EndBudget ==
  ASSUME RefundInv, BudgetInv, NEW c \in Calls, NEW stage \in {"start", "failed"},
         UNCHANGED <<refunds, settlement>>, End(c, stage)
  PROVE  BudgetInv'
<1> DEFINE k == Ended(c, stage)
<1>1. call[c] \in Call
  BY DEF RefundInv, TypeOK
<1>2. k.at = stage /\ k.view = NoView /\ k.status = "settled" /\ k.closes = FALSE /\ k.new = {}
  BY <1>1 DEF Ended, Call
<1>3. call' = [call EXCEPT ![c] = k]
  BY DEF End
<1> HIDE DEF k
<1>4. Budgeted(k, settlement)
  BY <1>2 DEF Budgeted, Writing
<1> QED BY <1>2, <1>3, <1>4, BudgetStep

(* So does one that meets a taken generation.                              *)
LEMMA RetryBudget ==
  ASSUME RefundInv, BudgetInv, NEW c \in Calls, UNCHANGED <<refunds, settlement>>, Retry(c)
  PROVE  BudgetInv'
<1>1. End(c, "start") \/ End(c, "failed")
  BY DEF Retry
<1> QED BY <1>1, EndBudget

(* A call that has turned the settlement never meets a refund of its own   *)
(* amount: with it all would have been given back already.                 *)
LEMMA CloserMeetsNone ==
  ASSUME RefundInv, BudgetInv, NEW c \in Calls, call[c].closes,
         NEW x \in Published(c), x.amount = Amount(c)
  PROVE  FALSE
<1> DEFINE R == call[c].read
<1>1. /\ R \in SUBSET refunds /\ refunds \in SUBSET Refund
      /\ IsFiniteSet(R) /\ IsFiniteSet(refunds)
      /\ Total(R) \in Int /\ Total(refunds) \in Int
  BY ReadIsFinite
<1>2. Budgeted(call[c], settlement) /\ RefundsWithinCollected /\ SettlementFollowsBudget
  BY DEF BudgetInv
<1>3. Planned(call[c]) = Collected /\ settlement = "settled"
  BY <1>2 DEF Budgeted
<1>4. x \in refunds /\ x.generation = NextGeneration(R)
  BY VisibleIsFirst DEF Published, First, Generation
<1>5. x \notin R
  <2>1. PICK n \in Nat : Chain(R, n)
    BY DEF RefundInv, Sound, IsChain
  <2>2. NextGeneration(R) = n + 1
    BY <2>1, NextOfChain
  <2>3. \A y \in R : y.generation \in 2 .. n
    BY <2>1 DEF Chain
  <2>4. n + 1 \notin 2 .. n
    BY <2>1
  <2> QED BY <1>4, <2>2, <2>3, <2>4
<1>6. Total(R \cup {x}) = x.amount + Total(R)
  <2> HIDE DEF R
  <2>1. R \in SUBSET Refund /\ x \in Refund
    BY <1>1, <1>4
  <2> QED BY <1>1, <1>5, <2>1, TotalAdds
<1>7. Total(R \cup {x}) <= Total(refunds)
  <2> HIDE DEF R
  <2>1. R \cup {x} \in SUBSET refunds
    BY <1>1, <1>4
  <2> QED BY <1>1, <2>1, TotalGrows
<1>8. Collected <= Total(refunds)
  BY <1>3, <1>6, <1>7 DEF Planned, Amount
<1>9. Total(refunds) = Collected
  BY <1>1, <1>2, <1>8, AmountsAssumption DEF RefundsWithinCollected
<1> QED BY <1>2, <1>3, <1>9 DEF SettlementFollowsBudget

(* A record under a call's generation answers it when the amount is its    *)
(* own, and starts it over otherwise.                                      *)
LEMMA MeetBudget ==
  ASSUME RefundInv, BudgetInv, NEW c \in Calls, call[c].new = {},
         UNCHANGED <<refunds, settlement>>, Meet(c)
  PROVE  BudgetInv'
<1>1. PICK x \in Published(c) :
        IF x.amount = Amount(c) THEN Goto(c, "commit") ELSE Retry(c)
  BY DEF Meet
<1>2. CASE x.amount # Amount(c)
  BY <1>1, <1>2, RetryBudget
<1>3. CASE x.amount = Amount(c)
  <2> DEFINE k == [call[c] EXCEPT !.at = "commit"]
  <2>1. call[c] \in Call /\ Budgeted(call[c], settlement)
    BY DEF RefundInv, TypeOK, BudgetInv
  <2>2. ~call[c].closes
    BY <1>3, CloserMeetsNone
  <2>3. /\ k.at = "commit" /\ k.view = call[c].view /\ k.status = call[c].status
        /\ k.closes = call[c].closes /\ k.new = {}
    BY <2>1 DEF Call
  <2>4. call' = [call EXCEPT ![c] = k]
    BY <1>1, <1>3 DEF Goto
  <2> HIDE DEF k
  <2>5. Budgeted(k, settlement)
    BY <2>1, <2>2, <2>3 DEF Budgeted, Writing
  <2> QED BY <2>2, <2>3, <2>4, <2>5, BudgetStep
<1> QED BY <1>2, <1>3

-----------------------------------------------------------------------------
LEMMA RequestBudget ==
  ASSUME RefundInv, BudgetInv, NEW c \in Calls, NEW i \in Intents, Request(c, i)
  PROVE  BudgetInv'
<1> DEFINE k == [call[c] EXCEPT !.at = "start", !.intent = i]
<1>1. call[c] \in Call /\ Budgeted(call[c], settlement) /\ Sound(call[c], refunds, lastNumber)
  BY DEF RefundInv, TypeOK, BudgetInv
<1>2. call[c].new = {} /\ ~call[c].closes
  BY <1>1 DEF Request, Sound, Budgeted, Writing
<1>3. /\ k.at = "start" /\ k.view = call[c].view /\ k.status = call[c].status
      /\ k.closes = call[c].closes /\ k.new = call[c].new
  BY <1>1 DEF Call
<1>4. call' = [call EXCEPT ![c] = k]
  BY DEF Request, RefundInv, TypeOK
<1> HIDE DEF k
<1>5. Budgeted(k, settlement)
  BY <1>1, <1>2, <1>3 DEF Budgeted
<1> QED BY <1>2, <1>3, <1>4, <1>5, BudgetStep DEF Request

LEMMA StartBudget ==
  ASSUME RefundInv, BudgetInv, NEW c \in Calls, Start(c)
  PROVE  BudgetInv'
<1> DEFINE V == [refunds |-> refunds, settlement |-> settlement]
<1>1. call[c] \in Call /\ Budgeted(call[c], settlement) /\ Sound(call[c], refunds, lastNumber)
  BY DEF RefundInv, TypeOK, BudgetInv
<1>2. PICK v \in {V, NoView} :
        call' = [call EXCEPT ![c].at = "records", ![c].tries = @ + 1, ![c].view = v]
  BY DEF Start
<1> DEFINE k == [call[c] EXCEPT !.at = "records", !.tries = call[c].tries + 1, !.view = v]
<1>3. call[c].new = {} /\ ~call[c].closes
  BY <1>1 DEF Start, Sound, Budgeted, Writing
<1>4. /\ k.at = "records" /\ k.view = v /\ k.status = call[c].status
      /\ k.closes = call[c].closes /\ k.new = call[c].new
  BY <1>1 DEF Call
<1>5. call' = [call EXCEPT ![c] = k]
  BY <1>2 DEF RefundInv, TypeOK
<1>6. v # NoView => v.settlement = settlement
  BY <1>2
<1> HIDE DEF k
<1>7. Budgeted(k, settlement)
  BY <1>1, <1>3, <1>4, <1>6 DEF Budgeted
<1> QED BY <1>3, <1>4, <1>5, <1>7, BudgetStep DEF Start

LEMMA ReadRecordsBudget ==
  ASSUME RefundInv, BudgetInv, NEW c \in Calls, ReadRecords(c)
  PROVE  BudgetInv'
<1> DEFINE k == [call[c] EXCEPT !.at = "status", !.read = Visible(c).refunds]
<1>1. call[c] \in Call /\ Budgeted(call[c], settlement) /\ Sound(call[c], refunds, lastNumber)
  BY DEF RefundInv, TypeOK, BudgetInv
<1>2. call[c].new = {} /\ ~call[c].closes
  BY <1>1 DEF ReadRecords, Sound, Budgeted, Writing
<1>3. /\ k.at = "status" /\ k.view = call[c].view /\ k.status = call[c].status
      /\ k.closes = call[c].closes /\ k.new = call[c].new
  BY <1>1 DEF Call
<1>4. call' = [call EXCEPT ![c] = k]
  BY DEF ReadRecords, RefundInv, TypeOK
<1> HIDE DEF k
<1>5. Budgeted(k, settlement)
  BY <1>1, <1>2, <1>3 DEF Budgeted
<1> QED BY <1>2, <1>3, <1>4, <1>5, BudgetStep DEF ReadRecords

LEMMA ReadSettlementBudget ==
  ASSUME RefundInv, BudgetInv, NEW c \in Calls, ReadSettlement(c)
  PROVE  BudgetInv'
<1> DEFINE k == [call[c] EXCEPT !.at = "decide", !.status = Visible(c).settlement]
<1>1. call[c] \in Call /\ Budgeted(call[c], settlement) /\ Sound(call[c], refunds, lastNumber)
  BY DEF RefundInv, TypeOK, BudgetInv
<1>2. call[c].new = {} /\ ~call[c].closes
  BY <1>1 DEF ReadSettlement, Sound, Budgeted, Writing
<1>3. /\ k.at = "decide" /\ k.view = call[c].view /\ k.status = Visible(c).settlement
      /\ k.closes = call[c].closes /\ k.new = call[c].new
  BY <1>1 DEF Call
<1>4. call' = [call EXCEPT ![c] = k]
  BY DEF ReadSettlement, RefundInv, TypeOK
<1>5. Visible(c).settlement = "refunded" => settlement = "refunded"
  BY <1>1 DEF Visible, Budgeted
<1> HIDE DEF k
<1>6. Budgeted(k, settlement)
  BY <1>1, <1>2, <1>3, <1>5 DEF Budgeted
<1> QED BY <1>2, <1>3, <1>4, <1>6, BudgetStep DEF ReadSettlement

(* A plan of just the balance goes by way of the settlement unless that    *)
(* says already that all is given back.                                    *)
LEMMA DecideBudget ==
  ASSUME RefundInv, BudgetInv, NEW c \in Calls, Decide(c)
  PROVE  BudgetInv'
<1>1. call[c] \in Call /\ Budgeted(call[c], settlement) /\ Sound(call[c], refunds, lastNumber)
  BY DEF RefundInv, TypeOK, BudgetInv
<1>2. call[c].at = "decide" /\ call[c].new = {} /\ ~call[c].closes /\ call[c].intent \in Intents
  BY <1>1 DEF Decide, Sound, Budgeted, Writing
<1>3. UNCHANGED <<refunds, settlement>>
  BY DEF Decide
<1>4. CASE Meet(c)
  BY <1>2, <1>3, <1>4, MeetBudget
<1>5. CASE Fail(c)
  BY <1>3, <1>5, EndBudget DEF Fail
<1>6. ASSUME Amount(c) <= Balance(c),
             Goto(c, IF Exhausts(c) /\ call[c].status = "settled" THEN "update" ELSE "insert")
      PROVE  BudgetInv'
  <2> DEFINE s == IF Exhausts(c) /\ call[c].status = "settled" THEN "update" ELSE "insert"
             k == [call[c] EXCEPT !.at = s]
  <2>1. /\ k.at = s /\ k.view = call[c].view /\ k.status = call[c].status
        /\ k.read = call[c].read /\ k.intent = call[c].intent
        /\ k.closes = call[c].closes /\ k.new = call[c].new
    BY <1>1 DEF Call
  <2>2. call' = [call EXCEPT ![c] = k]
    BY <1>6 DEF Goto
  <2>3. Total(call[c].read) \in Int /\ Amount(c) \in Int /\ Collected \in Int
    BY <1>2, ReadIsFinite, AmountsAssumption DEF Amount
  <2> HIDE DEF k
  <2>4. Planned(k) = Amount(c) + Total(call[c].read)
    BY <2>1 DEF Planned, Amount
  <2>5. Planned(k) <= Collected
    BY <1>6, <2>3, <2>4 DEF Balance
  <2>6. Exhausts(c) <=> Planned(k) = Collected
    BY <1>6, <2>3, <2>4 DEF Balance, Exhausts
  <2>7. call[c].status \in Status
    BY <1>1 DEF Call
  <2>8. Budgeted(k, settlement)
    BY <1>1, <1>2, <2>1, <2>5, <2>6, <2>7 DEF Budgeted, Status
  <2> QED BY <1>2, <1>3, <2>1, <2>2, <2>8, BudgetStep
<1> QED BY <1>4, <1>5, <1>6 DEF Decide

LEMMA UpdateSettlementBudget ==
  ASSUME RefundInv, BudgetInv, NEW c \in Calls, UpdateSettlement(c)
  PROVE  BudgetInv'
<1>1. call[c] \in Call /\ Budgeted(call[c], settlement) /\ Sound(call[c], refunds, lastNumber)
  BY DEF RefundInv, TypeOK, BudgetInv
<1>2. call[c].at = "update" /\ call[c].new = {}
  BY <1>1 DEF UpdateSettlement, Sound
<1>3. CASE settlement # call[c].status
  BY <1>3, EndBudget DEF UpdateSettlement, Fail
<1>4. CASE settlement = call[c].status
  <2> DEFINE k == [call[c] EXCEPT !.at = "insert", !.closes = TRUE]
  <2>1. /\ k.at = "insert" /\ k.view = call[c].view /\ k.status = call[c].status
        /\ k.read = call[c].read /\ k.intent = call[c].intent
        /\ k.closes = TRUE /\ k.new = {}
    BY <1>1, <1>2 DEF Call
  <2>2. call' = [call EXCEPT ![c] = k]
    BY <1>4 DEF UpdateSettlement, RefundInv, TypeOK
  <2>3. \A d \in Calls \ {c} : ~call[d].closes
    BY DEF UpdateSettlement, HoldsSettlement
  <2> HIDE DEF k
  <2>4. Planned(k) = Planned(call[c])
    BY <2>1 DEF Planned
  <2>5. Budgeted(k, settlement)
    BY <1>1, <1>2, <1>4, <2>1, <2>4 DEF Budgeted, Writing
  <2> QED BY <2>2, <2>3, <2>5, BudgetStep DEF UpdateSettlement
<1> QED BY <1>3, <1>4

(* A record put in place without the settlement leaves something to give   *)
(* back: decided on all refunds, it cannot be the last one.                *)
LEMMA InsertRecordBudget ==
  ASSUME RefundInv, BudgetInv, NEW c \in Calls, InsertRecord(c)
  PROVE  BudgetInv'
<1> DEFINE x == [generation |-> Generation(c), amount |-> Amount(c), number |-> 0, by |-> c]
           k == [call[c] EXCEPT !.at = "number", !.new = {x}]
<1>1. call[c] \in Call /\ Budgeted(call[c], settlement) /\ Sound(call[c], refunds, lastNumber)
  BY DEF RefundInv, TypeOK, BudgetInv
<1>2. call[c].at = "insert" /\ call[c].new = {} /\ call[c].intent \in Intents
  BY <1>1 DEF InsertRecord, Sound
<1>3. UNCHANGED <<refunds, settlement>>
  BY DEF InsertRecord
<1>4. CASE Meet(c)
  BY <1>2, <1>3, <1>4, MeetBudget
<1>5. CASE Fail(c)
  BY <1>3, <1>5, EndBudget DEF Fail
<1>6. CASE ~Taken(c) /\ call' = [call EXCEPT ![c].at = "number", ![c].new = {x}]
  <2>1. call[c].read = refunds
    <3>1. \A y \in refunds : y.generation # NextGeneration(call[c].read)
      BY <1>6 DEF Taken, Generation
    <3>2. First(call[c].read, refunds) /\ IsChain(call[c].read) /\ IsChain(refunds)
      BY <1>1 DEF Sound, RefundInv
    <3> QED BY <3>1, <3>2, FreeMeansAll
  <2>2. /\ k.at = "number" /\ k.view = call[c].view /\ k.status = call[c].status
        /\ k.read = call[c].read /\ k.intent = call[c].intent
        /\ k.closes = call[c].closes /\ k.new = {x}
    BY <1>1 DEF Call
  <2>3. x.amount = AmountOf[call[c].intent]
    BY DEF Amount
  <2>4. call' = [call EXCEPT ![c] = k]
    BY <1>6 DEF RefundInv, TypeOK
  <2> HIDE DEF k, x
  <2>5. Planned(k) = Planned(call[c])
    BY <2>2 DEF Planned
  <2>6. Planned(call[c]) # Total(refunds) /\ Planned(call[c]) \in Int
    <3>1. Total(refunds) \in Int
      BY ReadIsFinite
    <3>2. AmountOf[call[c].intent] \in Nat \ {0}
      BY <1>2, AmountsAssumption
    <3>3. Planned(call[c]) = AmountOf[call[c].intent] + Total(refunds)
      BY <2>1 DEF Planned
    <3>4. \A a \in Nat \ {0}, t \in Int : a + t # t /\ a + t \in Int
      OBVIOUS
    <3> QED BY <3>1, <3>2, <3>3, <3>4
  <2>7. ~call[c].closes => Planned(call[c]) < Collected
    <3>1. Planned(call[c]) = Collected => settlement = "settled"
      <4>1. SettlementFollowsBudget /\ settlement \in Status
        BY DEF BudgetInv, RefundInv, TypeOK
      <4> QED BY <2>6, <4>1 DEF SettlementFollowsBudget, Status
    <3>2. Planned(call[c]) <= Collected
      BY <1>1, <1>2 DEF Budgeted
    <3>3. ~call[c].closes => Planned(call[c]) # Collected
      BY <1>1, <1>2, <3>1 DEF Budgeted
    <3> QED BY <2>6, <3>2, <3>3, AmountsAssumption
  <2>8. Planned(call[c]) <= Collected
    BY <1>1, <1>2 DEF Budgeted
  <2>9. Budgeted(k, settlement)
    BY <1>1, <1>2, <2>2, <2>3, <2>5, <2>7, <2>8 DEF Budgeted, Writing
  <2>10. k.closes => \A d \in Calls \ {c} : ~call[d].closes
    BY <2>2 DEF BudgetInv, OneCloser
  <2> QED BY <1>3, <2>4, <2>9, <2>10, BudgetStep
<1> QED BY <1>4, <1>5, <1>6 DEF InsertRecord

LEMMA AllocateNumberBudget ==
  ASSUME RefundInv, BudgetInv, NEW c \in Calls, AllocateNumber(c)
  PROVE  BudgetInv'
<1> DEFINE Numbered(x) == [x EXCEPT !.number = lastNumber + 1]
           N == {Numbered(x) : x \in call[c].new}
           k == [call[c] EXCEPT !.at = "commit", !.new = N]
<1>1. call[c] \in Call /\ Budgeted(call[c], settlement)
  BY DEF RefundInv, TypeOK, BudgetInv
<1>2. call[c].at = "number" /\ call[c].new # {}
  BY <1>1 DEF AllocateNumber, Budgeted
<1>3. /\ N # {}
      /\ \A x \in N : x.amount = AmountOf[call[c].intent]
  <2>1. \A x \in call[c].new : Numbered(x).amount = x.amount
    BY <1>1 DEF Call, Refund
  <2> QED BY <1>1, <1>2, <2>1 DEF Budgeted
<1> HIDE DEF N
<1>4. /\ k.at = "commit" /\ k.view = call[c].view /\ k.status = call[c].status
      /\ k.read = call[c].read /\ k.intent = call[c].intent
      /\ k.closes = call[c].closes /\ k.new = N
  BY <1>1 DEF Call
<1>5. call' = [call EXCEPT ![c] = k]
  BY DEF AllocateNumber, RefundInv, TypeOK, N
<1> HIDE DEF k
<1>6. Planned(k) = Planned(call[c])
  BY <1>4 DEF Planned
<1>7. Budgeted(k, settlement)
  BY <1>1, <1>2, <1>3, <1>4, <1>6 DEF Budgeted, Writing
<1>8. k.closes => \A d \in Calls \ {c} : ~call[d].closes
  BY <1>4 DEF BudgetInv, OneCloser
<1> QED BY <1>5, <1>7, <1>8, BudgetStep DEF AllocateNumber

LEMMA CommitBudget ==
  ASSUME RefundInv, BudgetInv, NEW c \in Calls, Commit(c)
  PROVE  BudgetInv'
<1> DEFINE k == Ended(c, "done")
<1>1. /\ call[c] \in Call /\ Budgeted(call[c], settlement)
      /\ Sound(call[c], refunds, lastNumber)
      /\ settlement \in Status
      /\ RefundsWithinCollected /\ SettlementFollowsBudget /\ OneCloser
      /\ \A d \in Calls : Budgeted(call[d], settlement)
  BY DEF RefundInv, TypeOK, BudgetInv
<1>2. k.at = "done" /\ k.view = NoView /\ k.status = "settled" /\ k.closes = FALSE /\ k.new = {}
  BY <1>1 DEF Ended, Call
<1>3. call'[c] = k /\ \A d \in Calls \ {c} : call'[d] = call[d]
  BY DEF Commit, End, RefundInv, TypeOK
<1> HIDE DEF k
<1>4. \A s : Budgeted(k, s)
  BY <1>2 DEF Budgeted, Writing
<1>5. OneCloser'
  BY <1>1, <1>2, <1>3 DEF OneCloser
<1>6. ASSUME NEW d \in Calls PROVE Budgeted(call'[d], settlement')
  <2>1. CASE d = c
    BY <2>1, <1>3, <1>4
  <2>2. CASE d # c
    <3>1. call'[d] = call[d]
      BY <1>3, <2>2
    <3>2. settlement' = settlement \/ (settlement' = "refunded" /\ ~call[d].closes)
      BY <1>1, <2>2 DEF Commit, OneCloser
    <3>3. Budgeted(call[d], settlement')
      BY <1>1, <3>2 DEF Budgeted
    <3> QED BY <3>1, <3>3
  <2> QED BY <2>1, <2>2
<1>7. (\A d \in Calls : Budgeted(call[d], settlement))'
  BY <1>6
<1>8. CASE call[c].new = {}
  <2>1. call[c].at = "commit"
    BY DEF Commit
  <2>2. ~call[c].closes
    BY <1>1, <1>8, <2>1 DEF Budgeted
  <2>3. refunds' = refunds /\ settlement' = settlement
    BY <1>8, <2>2 DEF Commit
  <2>4. IsFiniteSet(refunds)' /\ RefundsWithinCollected' /\ SettlementFollowsBudget'
    BY <2>3 DEF BudgetInv, RefundsWithinCollected, SettlementFollowsBudget
  <2> QED BY <1>5, <1>7, <2>4 DEF BudgetInv
<1>9. CASE call[c].new # {}
  <2>1. PICK x \in Refund : call[c].new = {x}
    BY <1>1, <1>9 DEF Sound, Call
  <2>2. /\ call[c].read = refunds /\ x.generation = NextGeneration(refunds)
        /\ x.amount = AmountOf[call[c].intent]
    BY <1>1, <2>1 DEF Sound, Budgeted
  <2>3. refunds' = refunds \cup {x}
    BY <2>1 DEF Commit
  <2>4. /\ refunds \in SUBSET Refund /\ IsFiniteSet(refunds) /\ Total(refunds) \in Int
    BY ReadIsFinite
  <2>5. x \notin refunds
    <3>1. PICK n \in Nat : Chain(refunds, n)
      BY DEF RefundInv, IsChain
    <3>2. NextGeneration(refunds) = n + 1
      BY <3>1, NextOfChain
    <3>3. \A y \in refunds : y.generation \in 2 .. n
      BY <3>1 DEF Chain
    <3>4. n + 1 \notin 2 .. n
      BY <3>1
    <3> QED BY <2>2, <3>2, <3>3, <3>4
  <2>6. Total(refunds') = Planned(call[c])
    <3>1. Total(refunds \cup {x}) = x.amount + Total(refunds)
      BY <2>4, <2>5, TotalAdds
    <3> QED BY <2>2, <2>3, <3>1 DEF Planned
  <2>7. x.amount \in Nat \ {0}
    BY DEF Refund
  <2>8. Planned(call[c]) = x.amount + Total(refunds)
    BY <2>2 DEF Planned
  <2>9. Planned(call[c]) <= Collected
    BY <1>1, <1>9 DEF Budgeted
  <2>10. RefundsWithinCollected'
    BY <2>6, <2>9 DEF RefundsWithinCollected
  <2>11. SettlementFollowsBudget'
    <3>1. CASE call[c].closes
      <4>1. settlement' = "refunded" /\ Planned(call[c]) = Collected
        BY <1>1, <3>1 DEF Commit, Budgeted
      <4> QED BY <2>6, <4>1 DEF SettlementFollowsBudget
    <3>2. CASE ~call[c].closes
      <4>1. settlement' = settlement /\ Planned(call[c]) < Collected
        BY <1>1, <1>9, <3>2 DEF Commit, Budgeted
      <4>2. Total(refunds) # Collected /\ Planned(call[c]) # Collected
        BY <2>4, <2>7, <2>8, <4>1, AmountsAssumption
      <4> QED BY <1>1, <2>6, <4>1, <4>2 DEF SettlementFollowsBudget
    <3> QED BY <3>1, <3>2
  <2>12. IsFiniteSet(refunds)'
    BY <2>3, <2>4, FS_AddElement
  <2> QED BY <1>5, <1>7, <2>10, <2>11, <2>12 DEF BudgetInv
<1> QED BY <1>8, <1>9

LEMMA LoseAnswerBudget ==
  ASSUME RefundInv, BudgetInv, NEW c \in Calls, LoseAnswer(c)
  PROVE  BudgetInv'
<1> DEFINE k == [call[c] EXCEPT !.heard = FALSE]
<1>1. call[c] \in Call /\ Budgeted(call[c], settlement)
  BY DEF RefundInv, TypeOK, BudgetInv
<1>2. /\ k.at = call[c].at /\ k.view = call[c].view /\ k.status = call[c].status
      /\ k.read = call[c].read /\ k.intent = call[c].intent
      /\ k.closes = call[c].closes /\ k.new = call[c].new
  BY <1>1 DEF Call
<1>3. call' = [call EXCEPT ![c] = k]
  BY DEF LoseAnswer, RefundInv, TypeOK
<1> HIDE DEF k
<1>4. Planned(k) = Planned(call[c])
  BY <1>2 DEF Planned
<1>5. Budgeted(k, settlement)
  BY <1>1, <1>2, <1>4 DEF Budgeted
<1>6. k.closes => \A d \in Calls \ {c} : ~call[d].closes
  BY <1>2 DEF BudgetInv, OneCloser
<1> QED BY <1>3, <1>5, <1>6, BudgetStep DEF LoseAnswer

LEMMA BudgetInit == Init => BudgetInv
<1> SUFFICES ASSUME Init PROVE BudgetInv
  OBVIOUS
<1>1. refunds = {} /\ settlement = "settled" /\ \A c \in Calls : call[c] = Idle
  BY DEF Init
<1>2. Total(refunds) = 0 /\ IsFiniteSet(refunds)
  BY <1>1, TotalOfNothing, FS_EmptySet
<1>3. RefundsWithinCollected /\ SettlementFollowsBudget
  BY <1>1, <1>2, AmountsAssumption DEF RefundsWithinCollected, SettlementFollowsBudget
<1>4. Budgeted(Idle, settlement) /\ OneCloser
  BY <1>1 DEF Budgeted, Idle, OneCloser, Writing
<1> QED BY <1>1, <1>2, <1>3, <1>4 DEF BudgetInv

LEMMA BudgetNext == RefundInv /\ BudgetInv /\ [Next]_vars => BudgetInv'
<1> SUFFICES ASSUME RefundInv, BudgetInv, [Next]_vars PROVE BudgetInv'
  OBVIOUS
<1>1. ASSUME NEW c \in Calls, NEW i \in Intents, Request(c, i) PROVE BudgetInv'
  BY <1>1, RequestBudget
<1>2. ASSUME NEW c \in Calls, Progress(c) PROVE BudgetInv'
  BY <1>2, StartBudget, ReadRecordsBudget, ReadSettlementBudget, DecideBudget,
     UpdateSettlementBudget, InsertRecordBudget, AllocateNumberBudget, CommitBudget
     DEF Progress
<1>3. ASSUME NEW c \in Calls, Fault(c) PROVE BudgetInv'
  BY <1>3, EndBudget DEF Fault, Fail
<1>4. ASSUME NEW c \in Calls, LoseAnswer(c) PROVE BudgetInv'
  BY <1>4, LoseAnswerBudget
<1>5. CASE UNCHANGED vars
  <2>1. refunds' = refunds /\ settlement' = settlement /\ call' = call
    BY <1>5 DEF vars
  <2> QED BY <2>1 DEF BudgetInv, RefundsWithinCollected, SettlementFollowsBudget, OneCloser
<1> QED BY <1>1, <1>2, <1>3, <1>4, <1>5 DEF Next

-----------------------------------------------------------------------------
(* The inductive invariant of the budget, on top of RefundInv.             *)
THEOREM BudgetInvariant == Spec => []BudgetInv
<1>1. Init => BudgetInv
  BY BudgetInit
<1>2. RefundInv /\ BudgetInv /\ [Next]_vars => BudgetInv'
  BY BudgetNext
<1> QED BY <1>1, <1>2, RefundInvariant, PTL DEF Spec

(* Any number of calls, reading the budget at the same time and at either  *)
(* isolation, give back no more than was collected                         *)
(* (assertRefundWithinBudget on rows that may be old by then).             *)
THEOREM RefundsStayWithinCollected == Spec => []RefundsWithinCollected
<1>1. BudgetInv => RefundsWithinCollected
  BY DEF BudgetInv
<1> QED BY <1>1, BudgetInvariant, PTL

(* The order settlement says "refunded" exactly when nothing is left to    *)
(* give back (executeRefundOnCheck, updateOrderSettlement).                *)
THEOREM RefundSettlementFollows == Spec => []SettlementFollowsBudget
<1>1. BudgetInv => SettlementFollowsBudget
  BY DEF BudgetInv
<1> QED BY <1>1, BudgetInvariant, PTL
=============================================================================

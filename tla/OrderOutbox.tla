----------------------------- MODULE OrderOutbox -----------------------------
(***************************************************************************)
(* Events of orders on their way from the outbox to the read models and to *)
(* consumers with side effects.                                            *)
(*                                                                         *)
(* An event is committed together with the change of its order.  Batches   *)
(* of relays in several processes fetch pending rows without claiming      *)
(* them, hand each event to the consumers in process, and mark the row.    *)
(* The n-th event of an order tells of its n-th change; each event has a   *)
(* side effect of its own, taken under a durable claim.  Persons, payloads *)
(* and instants are left out: a row whose retry is scheduled is not due.   *)
(***************************************************************************)
EXTENDS Naturals, FiniteSets, TLC

CONSTANTS
  Orders,
  MaxChanges,    \* bound: changes of one order
  Poison,        \* events whose payload does not parse
  Relays,        \* batches that may run at the same time
  BatchSize,     \* rows of one batch
  MaxAttempts,   \* failed attempts after which a row is set aside
  MaxFaults,     \* bound: crashes, failures and lost answers
  NoEvent,       \* what an idle relay is working on
  NoRow          \* an event that is not in the outbox

Events == Orders \X (1 .. MaxChanges)
Consumers == {"integration", "projection"}

ASSUME BoundsAssumption ==
  /\ MaxChanges \in Nat \ {0}
  /\ MaxAttempts \in Nat \ {0}
  /\ BatchSize \in Nat \ {0}
  /\ MaxFaults \in Nat
ASSUME PoisonAssumption == Poison \subseteq Events
ASSUME NoEventAssumption == NoEvent \notin Events

Row == [status: {"pending", "published", "failed"}, attempts: Nat,
        poison: BOOLEAN, due: BOOLEAN]

ASSUME NoRowAssumption == NoRow \notin Row

VARIABLES
  changes,    \* changes[o]: committed changes of an order
  outbox,     \* outbox[e]: row of an event
  processed,  \* <<consumer, event>>: handled, and marked so
  claims,     \* events whose side effect has been claimed
  effects,    \* effects[e]: how often the side effect of e happened
  view,       \* view[o]: the change the read model of an order shows
  reached,    \* reached[o]: the latest change it has ever shown
  relay,      \* relay[r]: a batch in progress
  faults      \* failures so far

vars == <<changes, outbox, processed, claims, effects, view, reached, relay, faults>>
tables == <<changes, outbox, processed, claims, effects, view, reached>>

(* Where a relay is: the call it makes next.                               *)
Stage == {"idle", "integrate", "claim", "effect", "handled",
          "project", "load", "write", "projected", "publish", "failed"}

Idle == [at |-> "idle", batch |-> <<>>, event |-> NoEvent, seen |-> 0]

Appended(e) == outbox[e] # NoRow
Pending(e) == Appended(e) /\ outbox[e].status = "pending"
Published(e) == Appended(e) /\ outbox[e].status = "published"
Due == {e \in Events : Pending(e) /\ outbox[e].due}

-----------------------------------------------------------------------------
(* The rows of outbox[e] that each statement writes.                       *)
NewRow == [status |-> "pending", attempts |-> 0, poison |-> FALSE, due |-> TRUE]

(* The failed row counts the attempt in the database, and gives up by the  *)
(* attempts the relay had read.  It is updated by id alone.                *)
FailedRow(row, read, poison) ==
  LET giveUp == poison \/ read + 1 >= MaxAttempts
  IN [status |-> IF giveUp THEN "failed" ELSE "pending",
      attempts |-> row.attempts + 1, poison |-> poison, due |-> giveUp]

(* Mutants of Requeueable: rows that used up their attempts stay aside;    *)
(* the reason of the failure is not asked.                                 *)
RequeueableYoung(e) ==
  /\ outbox[e].status = "failed"
  /\ outbox[e].attempts < MaxAttempts

RequeueableAnyway(e) == outbox[e].status = "failed"

Requeueable(e) == outbox[e].status = "failed" /\ ~outbox[e].poison

(* The relay order: fewer attempts first, then by sequence in an order.    *)
Before(e, f, attempts) ==
  \/ attempts[e] < attempts[f]
  \/ attempts[e] = attempts[f] /\ e[1] = f[1] /\ e[2] < f[2]

First(attempts) ==
  {e \in DOMAIN attempts : \A f \in DOMAIN attempts : ~Before(f, e, attempts)}

Batches ==
  LET read == [e \in Due |-> outbox[e].attempts]
  IN {[e \in E |-> read[e]] : E \in
        {E \in SUBSET Due :
          /\ E # {}
          /\ IF Cardinality(Due) <= BatchSize THEN E = Due
             ELSE Cardinality(E) = BatchSize
          /\ \A e \in E, f \in Due \ E : ~Before(f, e, read)}}

-----------------------------------------------------------------------------
Init ==
  /\ changes = [o \in Orders |-> 0]
  /\ outbox = [e \in Events |-> NoRow]
  /\ processed = {}
  /\ claims = {}
  /\ effects = [e \in Events |-> 0]
  /\ view = [o \in Orders |-> 0]
  /\ reached = [o \in Orders |-> 0]
  /\ relay = [r \in Relays |-> Idle]
  /\ faults = 0

At(r, stage) == relay[r].at = stage
Go(r, stage) == relay' = [relay EXCEPT ![r].at = stage]

(* Mutant of WorkOn: the payload is not parsed before it is published.     *)
WorkOnUnparsed(r, batch) ==
  IF batch = <<>> THEN relay' = [relay EXCEPT ![r] = Idle]
  ELSE \E e \in First(batch) :
         relay' = [relay EXCEPT ![r] =
           [batch |-> batch, event |-> e, seen |-> 0, at |-> "integrate"]]

(* Work on the next record of a batch, whose payload is parsed first.      *)
WorkOn(r, batch) ==
  IF batch = <<>> THEN relay' = [relay EXCEPT ![r] = Idle]
  ELSE \E e \in First(batch) :
         relay' = [relay EXCEPT ![r] =
           [batch |-> batch, event |-> e, seen |-> 0,
            at |-> IF e \in Poison THEN "failed" ELSE "integrate"]]

(* Mutant of NextRecord: the record at hand is not advanced.               *)
NextRecordSame(r) ==
  LET rest == DOMAIN relay[r].batch \ {relay[r].event}
  IN relay' = [relay EXCEPT ![r].at = "integrate",
                            ![r].batch = [e \in rest |-> relay[r].batch[e]]]

NextRecord(r) ==
  LET rest == DOMAIN relay[r].batch \ {relay[r].event}
  IN WorkOn(r, [e \in rest |-> relay[r].batch[e]])

(* An order is saved and its event appended, in one transaction.           *)
Change(o) ==
  /\ changes[o] < MaxChanges
  /\ changes' = [changes EXCEPT ![o] = @ + 1]
  /\ outbox' = [outbox EXCEPT ![<<o, changes[o] + 1>>] = NewRow]
  /\ UNCHANGED <<processed, claims, effects, view, reached, relay, faults>>

(* The time of the next retry has come.                                    *)
BecomeDue(e) ==
  /\ Pending(e) /\ ~outbox[e].due
  /\ outbox' = [outbox EXCEPT ![e].due = TRUE]
  /\ UNCHANGED <<changes, processed, claims, effects, view, reached, relay, faults>>

(* A recovery cycle puts a failed row back, to be retried later.           *)
Requeue(e) ==
  /\ Appended(e) /\ Requeueable(e)
  /\ outbox' = [outbox EXCEPT ![e].status = "pending", ![e].due = FALSE]
  /\ UNCHANGED <<changes, processed, claims, effects, view, reached, relay, faults>>

Fetch(r) ==
  /\ At(r, "idle")
  /\ \E B \in Batches : WorkOn(r, B)
  /\ UNCHANGED <<tables, faults>>

(* Each registry asks first whether its consumer has handled the event.    *)
AskIntegration(r) ==
  /\ At(r, "integrate")
  /\ Go(r, IF <<"integration", relay[r].event>> \in processed
           THEN "project" ELSE "claim")
  /\ UNCHANGED <<tables, faults>>

(* Mutant of FreeToClaim: the claim is looked up, not inserted.            *)
FreeToClaimBySight(e) == effects[e] = 0

FreeToClaim(e) == e \notin claims

Claim(r) ==
  LET e == relay[r].event
  IN /\ At(r, "claim")
     /\ Go(r, IF FreeToClaim(e) THEN "effect" ELSE "handled")
     /\ claims' = claims \cup {e}
     /\ UNCHANGED <<changes, outbox, processed, effects, view, reached, faults>>

Effect(r) ==
  /\ At(r, "effect")
  /\ effects' = [effects EXCEPT ![relay[r].event] = @ + 1]
  /\ Go(r, "handled")
  /\ UNCHANGED <<changes, outbox, processed, claims, view, reached, faults>>

MarkHandled(r) ==
  /\ At(r, "handled")
  /\ processed' = processed \cup {<<"integration", relay[r].event>>}
  /\ Go(r, "project")
  /\ UNCHANGED <<changes, outbox, claims, effects, view, reached, faults>>

AskProjection(r) ==
  /\ At(r, "project")
  /\ Go(r, IF <<"projection", relay[r].event>> \in processed
           THEN "publish" ELSE "load")
  /\ UNCHANGED <<tables, faults>>

(* The read model is rebuilt from the order as it stands now ...           *)
Load(r) ==
  /\ At(r, "load")
  /\ relay' = [relay EXCEPT ![r].at = "write",
                            ![r].seen = changes[relay[r].event[1]]]
  /\ UNCHANGED <<tables, faults>>

(* ... and written over whatever it shows.                                 *)
Write(r) ==
  LET o == relay[r].event[1]
      n == relay[r].seen
  IN /\ At(r, "write")
     /\ view' = [view EXCEPT ![o] = n]
     /\ reached' = [reached EXCEPT ![o] = IF n > @ THEN n ELSE @]
     /\ relay' = [relay EXCEPT ![r].at = "projected", ![r].seen = 0]
     /\ UNCHANGED <<changes, outbox, processed, claims, effects, faults>>

MarkProjected(r) ==
  /\ At(r, "projected")
  /\ processed' = processed \cup {<<"projection", relay[r].event>>}
  /\ Go(r, "publish")
  /\ UNCHANGED <<changes, outbox, claims, effects, view, reached, faults>>

(* Only a row that is still pending is marked published.                   *)
PublishedRow(row) ==
  IF row.status = "pending" THEN [row EXCEPT !.status = "published", !.poison = FALSE]
  ELSE row

MarkPublished(r) ==
  /\ At(r, "publish")
  /\ outbox' = [outbox EXCEPT ![relay[r].event] = PublishedRow(@)]
  /\ NextRecord(r)
  /\ UNCHANGED <<changes, processed, claims, effects, view, reached, faults>>

MarkFailed(r) ==
  LET e == relay[r].event
  IN /\ At(r, "failed")
     /\ outbox' = [outbox EXCEPT ![e] =
                     FailedRow(@, relay[r].batch[e], e \in Poison)]
     /\ NextRecord(r)
     /\ UNCHANGED <<changes, processed, claims, effects, view, reached, faults>>

Step(r) ==
  \/ Fetch(r) \/ AskIntegration(r) \/ Claim(r) \/ Effect(r)
  \/ MarkHandled(r) \/ AskProjection(r) \/ Load(r) \/ Write(r)
  \/ MarkProjected(r) \/ MarkPublished(r) \/ MarkFailed(r)

-----------------------------------------------------------------------------
(* Faults.  A process stops, or a batch is given up: its relay starts over.*)
Crash(r) ==
  /\ ~At(r, "idle")
  /\ relay' = [relay EXCEPT ![r] = Idle]
  /\ UNCHANGED tables

(* A claim fails for any reason: the consumer takes it for a duplicate,    *)
(* whether the row was inserted or not.                                    *)
ClaimFails(r) ==
  /\ At(r, "claim")
  /\ Go(r, "handled")
  /\ claims' \in {claims, claims \cup {relay[r].event}}
  /\ UNCHANGED <<changes, outbox, processed, effects, view, reached>>

(* A consumer that fails is not marked, and the event goes on without it;  *)
(* one that catches its own error is marked all the same.                  *)
EffectFails(r) ==
  /\ At(r, "effect")
  /\ \/ Go(r, "handled") \/ Go(r, "project")
  /\ UNCHANGED tables

(* The insert of a mark fails unnoticed.                                   *)
MarkFails(r) ==
  /\ \/ At(r, "handled") /\ Go(r, "project")
     \/ At(r, "projected") /\ Go(r, "publish")
  /\ UNCHANGED tables

(* Where a projection that failed goes: its failure fails the event.       *)
(* Mutant of AfterProjectionFailure: failures of projections are isolated  *)
(* like those of the integration consumers.                                *)
AfterProjectionIsolated == "publish"

AfterProjectionFailure == "failed"

ProjectionFails(r) ==
  /\ relay[r].at \in {"project", "load", "write"}
  /\ Go(r, AfterProjectionFailure)
  /\ UNCHANGED tables

LookupFails(r) ==
  /\ At(r, "integrate")
  /\ Go(r, "failed")
  /\ UNCHANGED tables

(* The answer of markPublished is lost, after or before it was done.       *)
PublishFails(r) ==
  /\ At(r, "publish")
  /\ \/ outbox' = outbox
     \/ outbox' = [outbox EXCEPT ![relay[r].event] = PublishedRow(@)]
  /\ Go(r, "failed")
  /\ UNCHANGED <<changes, processed, claims, effects, view, reached>>

Fault(r) ==
  /\ faults < MaxFaults
  /\ faults' = faults + 1
  /\ \/ Crash(r) \/ ClaimFails(r) \/ EffectFails(r) \/ MarkFails(r)
     \/ ProjectionFails(r) \/ LookupFails(r) \/ PublishFails(r)

-----------------------------------------------------------------------------
Next ==
  \/ \E o \in Orders : Change(o)
  \/ \E e \in Events : BecomeDue(e) \/ Requeue(e)
  \/ \E r \in Relays : Step(r) \/ Fault(r)

(* Every process runs a recovery cycle again and again, and the clock goes *)
(* on; a batch in progress is carried on by the event loop.                *)
Fairness ==
  /\ \A r \in Relays : WF_vars(Step(r))
  /\ \A e \in Events : WF_vars(BecomeDue(e)) /\ WF_vars(Requeue(e))

Spec == Init /\ [][Next]_vars /\ Fairness
-----------------------------------------------------------------------------
(* A relay works on a row of the batch it has read.                        *)
Batch(q) ==
  LET read == DOMAIN q.batch
  IN /\ read \subseteq Events
     /\ q \in [at: Stage, batch: [read -> Nat], seen: Nat, event: read \cup {NoEvent}]

TypeOK ==
  /\ changes \in [Orders -> 0 .. MaxChanges]
  /\ outbox \in [Events -> Row \cup {NoRow}]
  /\ processed \subseteq Consumers \X Events
  /\ claims \subseteq Events
  /\ effects \in [Events -> Nat]
  /\ view \in [Orders -> Nat]
  /\ reached \in [Orders -> Nat]
  /\ relay = [r \in Relays |-> relay[r]]
  /\ \A r \in Relays : Batch(relay[r])
  /\ faults \in 0 .. MaxFaults

(* The outbox as OrderDelivery sees it.                                     *)
Delivered(e) == reached[e[1]] >= e[2]

Delivery == INSTANCE OrderDelivery WITH
  sent <- {e \in Events : Appended(e)},
  delivered <- {e \in Events : Delivered(e)},
  acked <- {e \in Events : Published(e)}

(* Whatever relays race, crash or lose: no side effect happens twice, only  *)
(* what was committed is delivered, and a row is marked published only      *)
(* after a read model has shown its change (tryClaim, the registries,       *)
(* CompositeEventDispatchDelegate, markPublished).                          *)
DeliverySpec == Delivery!Spec

(* A side effect that happened is claimed for good, and while a relay is    *)
(* about to cause one nobody else is and it has not happened: the claim is  *)
(* taken before the effect (DurableBusinessClaimStore.tryClaim).            *)
EffectAtMostOnce ==
  /\ \A e \in Events : effects[e] <= 1
  /\ \A r, q \in Relays :
       At(r, "effect") /\ At(q, "effect") /\ relay[r].event = relay[q].event
         => r = q

(* An event counts as published only when the read model of its order has   *)
(* shown that change, or a later one (CompositeEventDispatchDelegate: a     *)
(* failed projection fails the event).                                      *)
PublishedWasShown == \A e \in Events : Published(e) => Delivered(e)

(* However often a relay fails late and takes a published row back, gives   *)
(* up on it or dies: every event that parses is published in the end and    *)
(* stays so (OrderEventRelay, requeueFailedBatch, the recovery cycle).      *)
EventuallyPublished ==
  \A e \in Events \ Poison : Appended(e) ~> [](Published(e))

(* A row set aside because its payload does not parse is never relayed or   *)
(* published again (requeueFailedBatch excludes POISON errors).             *)
PoisonStaysAside ==
  [][\A e \in Poison : Appended(e) /\ outbox[e].status = "failed"
       => outbox'[e].status = "failed"]_vars
==============================================================================

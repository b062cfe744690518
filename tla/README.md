# MineuQR: formal models of cash custody, payment, orders and refunds

MineuQR is a restaurant platform (TypeScript server on a MySQL-compatible
database, TiDB in production): orders, payment at the cashier, cash registers
and their shifts, POS terminals, screens, printing and subscriptions. This
directory holds TLA+ models of the parts where money, capacity and the progress of
orders depend on concurrent requests, the TLC configurations that check them on
small instances, and proofs for TLAPS.

The server keeps nothing of importance in memory. A request is an async function
that makes a sequence of database round trips; other requests, in the same
process or in another, run between any two of them, and the process may die
there. The models therefore have **one action per round trip** (or per
transaction, where the code opens one), and what a request has read so far is
part of the state.

## 1. Inventory

| component (source) | state | operations | hard behaviour | what makes it correct |
|---|---|---|---|---|
| Financial Shift aggregate (`shared/crmp/financialShift`) | a shift graph: header (status, version, close reason, float), movements, counts, handover, attributions | open, suspend, resume, beginClose, abortClose, close, cancelOpen, archive, movement, interim and final count, attribution, initiate / accept / reject handover | long sequences of legal commands; replays of known ids; frozen expected amounts | custody never lost, ended shifts frozen and accounted for, payouts covered, one fact in one drawer |
| Register commands (`shared/crmp/register`) | catalog status, duty, archived flag, version | provision, activate, deactivate, archive, open / close / suspend / resume duty, assign operators and devices | decisions on an old row and on an old list of active shifts | life cycle; how far openings that race can go, and who may take an active shift's register off duty |
| CRMP services and repository (`server/crmp`) | the rows of the two above | read header, read children, decide, write under a version | torn reads, lost updates, retries after a version conflict, two transactions in one handover, crashes | every commit is one domain command on the current shift |
| Cashier confirmation (`server/operational-session/payment/collection-fact`, `server/pos`) | `payment_collection_facts`, `cashier_invoices`, `cashier_invoice_sequences`, orders | confirm a direct sale, confirm an incoming order | snapshot reads behind locks, unique keys, rollbacks, lost acknowledgements, retries with the same key | one collection per order, key and intent; a gapless invoice book; PAID only with a fact |
| Attribution and settlement recovery (`server/operational-session/payment/recover*.ts`) | permanent parks, facts without attribution, facts without a paid check | discover a page, attribute, settle, park | races with the sale's own attribution and delivery; parking for good what is only temporarily impossible | every collected fact reaches a paid check, and a drawer or a park with a lasting reason |
| Orders (`server/order/application`, `server/order/infrastructure/persistence`) | order status, checks and memberships of an order | advance, walk to served, cancel, collect, settle, place | cancel against pay; two deliveries of one payment; an optimistic check on a timestamp in seconds | served or settled only when collected; collected money ends up on a paid check; outcomes are final |
| Order outbox and relay (`server/order/infrastructure/events`, `server/order/read`) | outbox rows, attempts, durable claims, processed marks, read models | append, fetch a batch, dispatch, claim, rematerialize, mark published / failed, requeue | relays without a lock between them, late failures, lost marks, lost claims, crashes | every event that parses is published in the end, after a read model showed it; effects at most once |
| Check aggregate (`server/operational-session/check`) | checks, settlement records, order settlements, the refund document sequence, allocations, charges | open, finalize, void, refund; allocate, pay a part, charge | budgets over several records, unlocked; retries after a lost answer | never more refunded than collected; the settlement follows; gapless documents |
| POS terminals (`server/pos/services/PosTerminalService.ts`, `server/subscription-runtime/commercialLimitOccupancy.ts`) | `pos_terminals.lifecycle`, an occupancy lock row per restaurant | register, activate, deactivate, replace | count and write behind a lock, decision to go there in front of it | the plan's cap, up to what activations outside the lock add |
| Dining sessions, realtime platform, connectors and printing, subscriptions, accounts, compliance, web client | see `PROJECT.json` | | | not modelled |

How they interact: a cashier confirmation writes the Collection Fact and, after
its commit, the sale attributes the fact to the shift of the register (an
`attribution` command of the shift aggregate). A recovery sweeper makes the same
call later for facts whose own attribution was lost; it is one more concurrent
request in `CashCustody`. The Collection Fact also settles the check and the
order downstream (`OrderSettlement`), and the check may later be refunded
(`CheckRefund`). Each change of an order places an event in the outbox, which a
relay hands to consumers (`OrderOutbox`); those feed the screens' read models,
notifications, printing, and the check of an order that is not from the cashier.
The cycle that relays and recovers runs in every process every 30 seconds and after
every confirmation (`postConfirmOperationalRecovery.ts`, `posRouter.ts:434`).
Entitlements of the subscription runtime give the cap that `PosTerminals` takes as
a constant.

## 2. Modules

```
FinancialShift          pure commands of the aggregate (Outcome)
  ShiftLedger           abstract specification: commands applied atomically
    CashCustody         the services over the database; implements ShiftLedger
      MCCashCustody       custody, handover, duties, race_open
    MCShiftLedger         ledger
  ShiftLedgerProofs > CashCustodyProofs
CollectionConfirm       paying at the cashier
  MCCollectionConfirm     confirm
  CollectionConfirmProofs
OrderSettlement         one order, its payment and its checks
  MCOrderSettlement       orders, two_checks
  OrderSettlementProofs
CheckRefund             refunds of one paid check
  MCCheckRefund           refunds, refund_again
  CheckRefundProofs
OrderDelivery           abstract specification: what the outbox promises
  OrderOutbox           rows, relays, consumers; implements OrderDelivery
    MCOrderOutbox         outbox
  OrderOutboxProofs
PosTerminals            terminals under a commercial cap
  MCPosTerminals          slots
  PosTerminalsProofs
SumLemmas               sums over finite sets, for ShiftLedgerProofs and CheckRefundProofs
```

**FinancialShift** (`financialShiftCommands.ts`, `financialShiftLifecycle.ts`,
`expectedCash.ts`). A shift graph is a record; a command is a record with its
inputs. `Outcome(c, g)` is the set of graphs the command may hand back: empty
when the code throws, `{g}` for a replay that finds its effect already there, the
new graph one version up otherwise. Every command of the aggregate is an operator
with the name of its function. Persons, devices, instants, currencies and reason
texts decide nothing here and are left out. A movement or attribution is
identified by its id; a count keeps the *sets* of movements and attributions it
summed, of which the code stores the sum. That is finer than the amount and lets
a property say which cash a count covers.

**ShiftLedger** says what the store promises: `Insert` a new shift, or `Apply` one
command to the shift *as it stands*, under the unique indexes of the schema
(`KeysFree`: fact and movement ids belong to one shift). The properties of custody
are stated here, once, and hold of everything that implements it.

**CashCustody** is what the code does instead (`FinancialShiftDomainService.ts`,
`RegisterDomainService.ts`, `DrizzleCrmpRepository.ts`). `req[r]` is one service
call: the stage it is in, the command, the version the client sent (0 for none),
the header and children read so far, the register row, the active shift found.

| action | code |
|---|---|
| `Begin` | a client calls, with no version or the version it last saw |
| `LookupAttribution` | `findAttributionBySettlementRecordId` / `...CollectionFactId` |
| `ReadHeader`, `ReadChild` | `shifts.findById`, then `loadShiftGraph`: four queries in any order, no transaction |
| `Decide` | the pure command; error, nothing to write, or on to the next round trip |
| `ReadRegister`, `ReadActive` | `registers.findById`, `findActiveByRegister` |
| `CommitShift` | `persistShiftGraph`: compare-and-set on the version, children replaced; one retry of a movement sent without a version |
| `CommitOpen` | `commitOpenShift` |
| `CommitCorridor` | `commitCloseCorridor`: final count, close and duty close in one transaction |
| `CommitHandover`, `CommitSuccessor` | the two transactions of `acceptHandover` |
| `CommitRegister` | `registers.insert`, `persistRegisterUpdate` |
| `Crash` | the process serving the call stops between two round trips |

The variable `shift` is that of `ShiftLedger`, which the module extends, so the
refinement mapping is the identity on it and `LedgerSpec` is the property. No call
is assumed to be alone: openings, handovers, closes and duty changes overlap as the
code lets them.

**CollectionConfirm** (`commitCashierProductionCollectionFact.ts`,
`CollectionFactService.ts`, `cashierInvoiceRepository.ts`,
`PosSettlementInitiateService.ts`, ...) follows a confirmation through its
statements: check before the transaction, begin (a direct sale inserts its order),
`SELECT ... FOR UPDATE` on an incoming order, lookup of its fact, lookup of an
invoice, increment of the sequence row, insert of the invoice, lookup by key and
intent, insert of the fact, commit, and the search for a fact after an error.
Locking statements and unique keys see the latest committed rows; plain reads see
the snapshot of the transaction. When that snapshot is taken is the constant
`SnapshotPoints`: TiDB takes it at the begin, InnoDB at the first plain read. Row
locks are not variables of their own: an attempt holds a lock exactly in the
stages `HoldsOrder`, `HoldsSequence` name. Rows an attempt has written but not
committed are in `tx[a]`; `Store` publishes them.

**OrderSettlement** is one order outside a dining session. `call[c]` is a request of
staff, the consumer of `OrderCreated`, or a settlement sweeper. The transaction of
`CollectionConfirm` is one action here (`Collect`): that module shows it collects
once. `checks[k]` is a check with its outcome and whether the order is an active
member of it.

| action | code |
|---|---|
| `Ask`, `AssertSettled`, `LoadWalk` | serving an order of the cashier: status asked, settlement asserted, walk on the row loaded |
| `Load`, `GuardServed`, `Compare`, `Write` | `AdvanceOrderStatusService.execute`, `DrizzleOrderRepository.updateTransactional` |
| `AskMembership`, `AskAccepted`, `Void` | `cancelCounterPickupUnpaid`, which then goes on with `Load` |
| `AskEligible`, `Collect` | the confirmation |
| `Deliver`, `Create`, `Finalize` | `materializeOrLoadCashierPosOpenCheck`, `completeCashierOperationalSettlementAfterCollectionFact` |
| `AskEnsure`, `OpenCheck`, `AskEnrolled`, `Join` | `ensureCheckForOrder`, `enrollOrderInCheck` |
| `Discover` | `recoverCashierPosDownstreamSettlements` |
| `Crash` | the process stops or a transaction fails |

The code compares `updatedAt`, stored in seconds, before it writes by id. The model
keeps of it one flag per call, `fresh`: a write by another call makes rows loaded
before it stale, or does not, when it falls into the same second.

**CheckRefund** (`checkRefundIntegration.ts`, `refundCommands.ts`, `refundBudget.ts`,
`refundDocumentNumberRepository.ts`, ...) follows `applyRefundOnCheck` statement by
statement: `ReadRecords` and `ReadSettlement`, `Decide` (the look for the
generation, then the budget), `UpdateSettlement` when the refund uses the budget up,
`InsertRecord` under the unique key of the generation, `AllocateNumber` on the
sequence row, `Commit`. A collision of generations starts the transaction over
(`Retry`) or ends the call. A transaction has a snapshot or none, by the isolation of its session,
which the code does not set: both are in. `Fault` rolls a transaction back;
`LoseAnswer` lets it go on without its client, who then asks again (`Request`).

**OrderOutbox** (`DrizzleOutboxRepository.ts`, `OrderEventRelay.ts`, the two consumer
registries, `DurableBusinessClaimStore.ts`, `OrderReadProjectionMaterializer.ts`).
Relays fetch a batch of pending rows without claiming them. `relay[r]` is a batch in
progress: the attempts it read per row, the event at hand, the call made next.

| action | code |
|---|---|
| `Change` | an order is saved and its event appended in one transaction |
| `Fetch`, `BecomeDue`, `Requeue` | `fetchPendingBatch` in relay order, the retry schedule, `requeueFailedBatch` |
| `AskIntegration`, `Claim`, `Effect`, `MarkHandled` | a consumer with a side effect under a durable claim |
| `AskProjection`, `Load`, `Write`, `MarkProjected` | the read model rebuilt from the order as it stands |
| `MarkPublished`, `MarkFailed` | the row marked, the failed one by id alone |
| `Fault` | a crash, a claim taken for a duplicate, a consumer or projection that fails, a lost mark, a lost answer |

**OrderDelivery** is what that amounts to: events are sent, delivered any number of
times, have their effect at most once and are acknowledged after a delivery; an
acknowledgement may be withdrawn, because a relay that fails late takes a published
row back. `reached`, the latest change a read model ever showed, is a history
variable of the mapping: what a screen shows *now* may be older (section 3).

**PosTerminals** (`PosTerminalService.ts`, `commercialLimitOccupancy.ts`,
`DrizzlePosTerminalStore.ts`): the unlocked read and the decision (`Read`), the
unlocked write (`Update`), and behind the occupancy lock the count, the second look
of a replacement, and the write. `Abort` stands for every way the transaction may
roll back, lock timeouts after their retries included. `late` is a history variable:
it counts the activations that wrote `active`, outside the lock, over a terminal that
had given up its slot since they read it.

## 3. Runs

| run | question | instance | result |
|---|---|---|---|
| `ledger` | what the aggregate guarantees over all its commands | 2 shifts, 3 movements (two share an id), a sale and a refund, version < 5 | holds |
| `custody` | do torn reads, races, retries and crashes of the services still give the ledger; does a final count cover the drawer | 2 requests, 1 shift, the operations the API offers, version < 6 | holds |
| `handover` | one accepted handover, one successor; how far openings and handovers that race can go | 2 requests, 2 shifts, version < 5 | holds |
| `duties` | who may take a register off duty under an active shift; register life cycle | 2 requests, 2 shifts, a register from provisioning to archive, shift version < 4, register version < 6 | holds |
| `race_open` | OL-INV-02 with overlapping opens | 2 requests, 2 shifts | **violated** |
| `confirm` | one collection, gapless book, backed answers, every attempt ends | 3 attempts: two cashiers at 1 incoming order, direct sales under the key of one of them; both snapshot points | holds |
| `orders` | served and settled only when collected; outcomes final; collected money settled | 1 order of either channel, 2 callers, 1 sweeper, 5 checks, 1 crash | holds |
| `two_checks` | I-FIN-06: one non-void check per order | as `orders` | **violated** |
| `refunds` | budget, settlement, documents, every call ends | 3 calls, intents of 1, 1 and 2 against 3 collected, 2 transactions per call, 1 failure or lost answer, both isolations | holds |
| `refund_again` | what is given back once is given back once | as `refunds` | **violated** |
| `outbox` | does the outbox deliver as `OrderDelivery` says; is every event published in the end | 1 order with 2 changes, the second one poison, 2 relays, batch of 2, 2 attempts, 3 faults | holds |
| `slots` | how far the cap can be exceeded, and a counted slot stays free | 3 requests, 3 codes, 1 slot, at most 2 late activations | holds |

Each property of a passing run has a mutant in `PROJECT.json`: a definition
changed the way a plausible bug would (a version not advanced, an update by id
alone, a lock let go early, a guard dropped). TLC finds the property violated
under the run's own configuration, so the instance is large enough for the
property to fail. Mutated forms stand next to the definition they change and are
used by nothing else.

### Properties

* `CustodyOnlyGrows`, `ClosedIsFrozen`, `VersionTellsChange`, `PayoutIsCovered`,
  `EndIsAccounted` on the ledger. That a fact is in one drawer is not a property: it
  is the unique index of the schema, which the model has as the guard `KeysFree`.
* `ReadIsConsistent`: as long as the stored version is the one a request read,
  *everything it has read so far is current*, however the header and the four child
  queries interleave with commits. This is the reason the version check at the
  write is enough; it depends on no write changing content under the same version,
  while `recordCount` and `rejectHandover` do rewrite a graph under its version.
* `CountCoversDrawer`: with the operations the API offers, the frozen variance of a
  closed shift covers every movement and attribution the drawer holds.
* `SuccessorOnce`: two accepting operators do not both open a successor.
* `RegisterLifecycle` on register rows.
* `ActiveWithinCalls`: the code does not keep OL-INV-02, one active shift per register
  (`race_open`). What it keeps is that races do not add up: active shifts, and calls
  that have found none and are about to open one, are together never more than the calls
  there are at a time. What a race left behind is seen by whoever reads after it, and with one call
  at a time the property *is* OL-INV-02.
* `OffDutyUnseen`: nor does it keep OL-INV-06, an active shift's register on duty. The
  property says which steps can break it: the write of a call that ends the duty and
  had not seen every active shift, or of an opening decided on an older row. In the run
  both happen.
* `CollectedOnce`, `GaplessInvoices`, `PaidAnswerIsBacked`, `EveryAttemptEnds` on
  confirmation. No unique key of the schema covers the order of a fact: what
  prevents a second collection is the unique key on the order of an *invoice*.
* `DoneIsCollected`, `MembersFollowOutcome`, `OutcomeIsFinal`, `CollectedIsSettled` on
  orders: several calls may hold the id of one check, and a stale row may be written
  over a newer one; the first three hold because the collection is never undone, and
  outcome and memberships of a check change in one transaction that asks for an open
  check. The last one needs the sweeper: a crash or a cancellation may leave the
  collected order without a check.
* `RefundsWithinCollected`, `DecidedOnAll`, `SettlementFollowsBudget`,
  `NumbersGapless`, `EveryCallEnds` on refunds. No lock covers the check; the unique
  key on the next generation takes its place: a record fits only if it was decided
  on all the records there are.
* `EffectAtMostOnce`, `PublishedWasShown`, `PoisonStaysAside`, `EventuallyPublished`
  and `DeliverySpec` on the outbox.
* `WithinCap`, `CountedSlotIsFree` on terminals. `activate` does take slots outside the
  lock; the run goes over the cap by it. The properties say that this is the only way and
  costs one terminal per late activation: everything else that races at the last slot
  (registrations, reactivations, replacements, deactivations) stays within the cap.

### What the violated runs show

* **race_open.** `open` reads `findActiveByRegister` outside the transaction and
  no index backs it up: two calls with different shift ids both insert an active
  shift. ADR-ARCH-030 lists "exactly one active Financial Shift per Register".
* **two_checks.** The delivery that follows a payment, and the recovery cycle that
  `posRouter.ts:434` starts after every confirmation, both look for a membership of
  the order with a plain read, find none, and each commit a check with the order on
  it; both are finalized paid. ADR-ARCH-020 lists "An Order contributes to at most one
  non-void Check". The lookup of a refund then finds two memberships
  (`checkOrderMembershipRepository.ts:42`).
* **refund_again.** A refund carries no identity of what it pays back: each call
  takes the next free generation. When the answer of a committed refund is lost and
  staff ask again, the money is given back a second time, while the budget lasts.
  ADR-ARCH-039 promises "Refund retry → one compensating fact", and the comment at
  `applyRefundOnCheck` calls a repeated call lost-response safe. The test for "same
  amount at the same generation" only ever meets a *concurrent* call, which may be
  another refund of the same amount; that one is then answered and not paid.

### Observed while modelling, without a run

* A crash between the two transactions of `acceptHandover` leaves a shift closed by
  handover without a successor; a close of duty there finds no active shift, and the
  successor opens on a register that is off duty. No route of the API uses handovers
  yet.
* On TiDB the snapshot of a confirmation is older than its wait for the order lock,
  so the lookup behind the lock misses the collection of the previous holder; the
  unique key of the invoice ends the attempt, and no money is collected twice.
* A confirmation that replays another caller's fact is answered with a receipt built
  from its own discount and tenders.
* `activate` of a terminal writes by id, without the occupancy lock, a row it read as
  `registered`: after a deactivation or replacement gave the slot away, the cap is
  exceeded or a replaced terminal revived (the late activations of `slots`).
* A delivery after a payment may be refused because the tenders its caller sent do not
  fit the money of the check, which another call may have made; the sweeper sends none
  and finishes it.
* Two changes of an order within one second: the later write goes over the earlier
  one, and a cancelled order may be preparing again.
* The cancellation of a pickup may void the check of an order that is collected
  meanwhile, and cancel it; the money then gets a check of its own.
* `ensureCheckForOrder` commits its check before the order joins it: a crash or a
  rival leaves an open check nobody closes.
* A relay that loaded an order before a change may write its read model after the
  relay of the newer event: the screen is old until the next event of the order.
* Every error of a claim is taken for a duplicate: the effect is then never made.
* Under REPEATABLE READ, the look after a duplicate generation cannot see the rival's
  record, and Drizzle wraps the error of the driver that `insertSettlementRecord`
  tests: such a refund ends in an error instead of the retry.
* `readyAt` is stored under `eq(readyAt, null)`, which matches no row.

## 4. Bounds and assumptions

* `MaxVersion`, `MaxRegisterVersion` (`BoundedVersions`, a state constraint): TLC
  goes no further than shifts and registers of that version. Version 5 is enough for
  open, offered and rejected handover, final count, end; 6 lets two requests race
  over a movement and an attribution before the close; the
  register bound of 6 reaches provision, activate, on duty, off duty, deactivate,
  archive.
* Two requests: every property relates at most two calls or a call to the store.
  `CollectionConfirm` has three attempts, so that one waits for an order lock, one
  for the sequence row and one holds both; `PosTerminals` has three, so that two
  race for what a third gave away.
* `Ops` restricts a run to the operations of its question. In `custody` these are
  open, movement, attribution and close with final count, the ones the API router
  offers on a shift that trades. A final count *without* a close, and a rejected
  handover, go on trading after the count; `CountCoversDrawer` does not hold then,
  and no client can call them today.
* `MaxLate` (`FewLate`, a state constraint) is 2: late activations are not bounded by
  the code. Two show that overruns add up, on one slot and three codes.
* `Codes` bounds the terminals of a restaurant, `DirectOrders` the orders of direct
  sales. The three commands of `MCCommands` share keys; that a shared *intent* alone
  collects once is covered by the proof. An attempt of `CollectionConfirm` is used
  once, a retry is another attempt.
* `OrderSettlement`: `MaxChecks` is 5: two callers, a sweeper and one crash can open
  five checks in the order's life and never come to a sixth (checked by TLC); `Ops` gives one caller the order and the
  other its money, both may cancel. Serving the other orders of a restaurant meets the
  same rows in no way, so one order is enough.
* `OrderOutbox`: `MaxAttempts` is 2 (5 in the code), so that a row is given up and
  requeued within 3 faults; a batch of 2 holds a whole queue or part of it. One order
  suffices for the order in which its events are relayed; events of different orders
  share nothing but batches. Each event has one consumer with an effect and one read
  model, whichever the code subscribes.
* `CheckRefund`: `MaxTries` is 2 (5 in the code); one of three calls can lose its
  generation twice. The intents make each pair of refunds a different case: within the
  budget together, equal amounts, exactly using it up, beyond it. One order settlement
  stands for all of the check, and `settled` for complimentary as well.
* `MaxFaults` bounds failures, crashes and lost answers in these three.
* Requests, and the shifts of `handover` and `duties`, are symmetric where the
  specification does not tell them apart. The runs
  that check liveness use no symmetry.

**Fairness.**

* `CollectionConfirm`: weak fairness of `Progress(a)` for each attempt. The server
  awaits each statement, and the database executes it and grants a lock that is
  free; when the connection fails the attempt takes `DatabaseError` instead, which
  ends it too. Weak fairness suffices for the locks because attempts are one-shot: a
  lock can be taken from under a waiter only finitely often.
* `CheckRefund`: the same of `Progress(c)`, for the same reason; retries end at
  `MaxTries`.
* `OrderSettlement`: weak fairness of each call's steps, and of `Discover`: every
  process runs a recovery cycle every 30 seconds as long as it lives, and a process
  that died is started again.
* `OrderOutbox`: weak fairness of the steps of each relay, of `Requeue` (the same
  cycle) and of `BecomeDue` (the clock). Faults are finitely many; a relay that failed
  for ever would publish nothing.

Nothing is assumed of clients and staff (`Begin`, `Request`, `Change`), of the
delivery of `OrderCreated`, or of failures. `CashCustody` and `PosTerminals` have no
fairness and no liveness. Where calls are one-shot or bounded the system really
stops; the runs of these four modules set `CHECK_DEADLOCK FALSE`.

## 5. Proofs

`tlapm` checks every proof to the last leaf; nothing is assumed but the named
assumptions of the modules on their constants (sentinels such as `NoShift` are not
values, movements have the sign their kind says, amounts are natural numbers, keys
and orders are apart, codes and requests at the registers are finitely many) and, where a theorem names one, a
hypothesis of the table below. The results hold for any number of requests, shifts,
registers, facts, movements, attempts, orders, keys, relays, callers, checks,
refunds and terminals, without the version bounds. Every safety property of a passing
run is stated by a theorem.

| hypothesis | theorems | why |
|---|---|---|
| `"finalCount" \notin Ops` | `CountsCoverDrawer`, `CountsAreWhole` | the API router offers a final count only with the close; counting apart from it lets trade go on after the count (section 4) |
| `StartIsLawful` | the theorems on registers, `RacesDoNotAddUp` and `DutyIsLostUnseen` among them | the row a run starts with is one the commands can make; it holds of `NoRegister`, with which the code starts |
| `StartFits` | `SlotInvariant`, `CapHolds`, `CountedSlotsStayFree` | a restaurant starts within its cap |

No theorem assumes that calls do not overlap.

* **SumLemmas.** `SumFunctionOnSet` of a finite set: empty, integer, one element
  added or taken out, the same for functions that agree, growing with the set. The
  library's induction theorems cannot be instantiated by the provers, so induction
  is done in first order: in a finite set of subsets that is not empty some member is
  least (`LeastSubset`), and the table of the sums of all subsets exists because a
  least subset without a table would get one from its parts (`TableExists`).
* **ShiftLedgerProofs.** Pure commands first: an outcome is a graph, extends the
  custody of the one it came from (`OutcomeExtends`), and differs from it only
  with a later version. Then type correctness and `EndIsAccounted` as
  invariants; `CustodyOnlyGrows`, `ClosedIsFrozen`, `VersionTellsChange`,
  `PayoutIsCovered` of every step. `EndIsAccounted` is inductive with the types:
  `OutcomeAccounted` shows it for each command. For `PayoutIsCovered` a command adds
  one movement or attribution at most (`OutcomeCustody`), so that the expected cash after
  it is the one before plus one term; that needs drawers to be finite
  (`DrawersAreFinite`). `CountsAreWhole`: a counted shift has ended, and holds what
  was counted.
* **CashCustodyProofs**, the services. The inductive invariant is `CustodyInv`: for
  each request, `Sound` says which command may be in which stage, what it holds by
  then, and `ReadsAgree` that what it read is a lower bound of the store and current
  while the version is. It is needed because the write replaces the *whole* graph:
  only when version equality means equality of content (`FreshIsCurrent`) does
  the write apply the command to the shift as it stands (`StepIsLedger`). Other
  requests' commits preserve it because the ledger only moves versions forward
  (`SoundStays`). From it follow `TypeOK`, `ReadIsConsistent` and
  `Spec => LedgerSpec`; the properties of the ledger carry over
  (`CustodyKept`, `CustodyPayoutsCovered`, `CountsCoverDrawer`).
  `HandoverOnce` is inductive with `EndIsAccounted`: a shift closed by handover is
  not handed over again and keeps its count (`HandedOverStays`), and of two accepting
  calls the later one finds the version moved.
* **CashCustodyProofs**, the registers. `StepShape` sums up all actions as the ways one request
  record may turn into the next; three invariants are built on it. `RowsInv` does
  for register rows what `CustodyInv` does for shifts, and that an off-catalog row is off
  duty: `RegisterLifecycle` follows. `CallsInv` is `ActiveWithinCalls` with finite sets
  of active shifts. `OpeningStep` shows what one step can do to a register: add the one
  shift that the call was about to open, end a shift, or find none active, and then every
  other call about to open counts as itself (`CallsStep`). `SettledInv` keeps what a
  call knows for good: a row it has read hosted the successor, a shift read as ended
  stays ended. With it `OffDutyStep` goes through the steps that disturb `HostsItsShifts`: an
  end of duty whose list of active shifts is complete is refused, or ends the only
  shift in the same transaction; an opening on the row as it stands finds it on duty
  (`DutyKept`). The version check on the row gives no more than that, since a shift
  opens without touching the row of its register.
* **CollectionConfirmProofs** — `CollectedOnce` and `GaplessInvoices`, for both
  snapshot points. `ConfirmInv` says that from its increment of the sequence row to
  its end an attempt is alone (`NumberedAlone`), that a snapshot shows one moment
  (orders with invoices are orders with facts), and that past the invoice's unique
  key the order has no invoice. The order lock plays no part in the argument. For
  `PaidAnswerIsBacked`, `AnswerInv` adds that an attempt about to commit has a fact of
  its order, or of its key and money, and that only incoming orders look
  for a fact by their order after an error.
* **OrderSettlementProofs** — `TypeOK`, `DoneIsCollected`, `MembersFollowOutcome`,
  `OutcomeIsFinal`, for any number of callers, sweepers and checks. `SettleInv` says
  what a call may rely on in each stage: between guard and write the order is
  collected, since nothing takes a collection back; a check held for finalization has
  the order on it or is ended; a check a consumer has opened is its own until it joins.
* **OrderOutboxProofs** — `TypeOK`, `EffectAtMostOnce`, `PublishedWasShown`,
  `PoisonStaysAside`, and `Spec => DeliverySpec`. `OutboxInv` ties the stages of the
  relays to claims, effects and marks: whoever is about to cause an effect holds its
  claim alone and the effect has not happened; whoever is about to publish has a read
  model that reached the event; an event marked as projected was shown. Each step then
  is a step of `OrderDelivery` or a stutter.
* **CheckRefundProofs** — `TypeOK`, `DecidedOnAll`, `NumbersGapless`, at any isolation.
  `RefundInv` says that the generations of the refunds form a chain from the sale on
  (`IsChain`), that what a call read is an initial part of it (`First`), and that one
  call at a time has inserted a record (`OneWriter`). The unique key admits a record
  only when its generation is free, which on a chain means that its call had read all
  of it (`FreeMeansAll`). On top of it `BudgetInv` proves `RefundsWithinCollected` and
  `SettlementFollowsBudget`: what a call that has passed the decision plans to give back, with all
  it has read, fits the amount collected, and the row lock leaves one call that has turned
  the settlement (`OneCloser`). The hard case is a record inserted *without* turning
  the settlement: decided on all refunds there are, it cannot be the last one, for then
  the settlement would be refunded already, and nothing left to give back.
* **PosTerminalsProofs** — `TypeOK`, `WithinCap` and `CountedSlotIsFree`, activations
  outside the lock included. `SlotInv` has one holder of the
  occupancy lock (`Excluded`) and, for each stage, the room a request counts on
  (`Room`): deactivations beside it only add room, a late activation takes room and
  is counted by `late` in the same step, and a replacement looks again
  behind the lock before it takes the slot of the terminal it replaces.

Model-checked only: the liveness properties `EveryAttemptEnds`, `CollectedIsSettled`,
`EventuallyPublished` and `EveryCallEnds`, since fairness and ENABLED are out of the
prover's reach. The violated runs are counterexamples, there is nothing to prove about
them. The auxiliary invariants were checked by TLC on the instances of the runs before
they were proved.

## 6. Not modelled

Within the modelled components:

* registers: assignment of operators and devices, terminal binding, shift numbers,
  the archive list; `rename`, `changeType` and `updateCode`, which change nothing the
  properties tell apart but the version, and the extra version of `closeRegister` when
  it releases an operator left over on a register that is off duty already;
* confirmation: price calculation and the freeze of the cart, the process-local
  response cache;
* orders: placing and editing an order, roles of actors, orders and checks of dining
  sessions, `readyAt`; the lifecycle stage of an order, which follows its status;
* outbox: which consumer subscribes to which event, rematerializations shared within
  one process, counters, the in-memory fallback without a database;
* recovery: the attribution sweeper and the parks;
* checks: the money of a check, split payments, allocations of one payment to several
  checks, charges, allocations of a refund to orders (no route sends any);
* refunds: refunds of other checks, which take numbers from the same sequence row: the
  model has one check, and its calls contend for the row with each other only;
* terminals: a change of plan while requests run; the code conflict of a replacement's
  insert, which could only return another row: the code is chosen behind the lock that
  every insert holds.

Dining sessions, the realtime platform (hints that may be lost; screens reload the
truth), the subscription runtime, connectors and printing, subscription payments and
accounts, reporting and compliance (read models and documents), the web client and
routers are left out. They are most of the repository's lines: pages, panels, exports
and document formatting without state of their own. `PROJECT.json` gives the reason
for each, and under `hazards` every hazard with the properties that cover it or why
none does yet.

## 7. Plan

Done: the cash domain, confirmation, orders with their checks, refunds, the outbox,
terminals, and the proofs above. Left, in this order:

1. `CashRecovery`: discovery pages and permanent parks over `ShiftLedger`, the
   sale's own attribution as a rival.
2. Split payments and allocations of a payment to several checks.
3. Orders of dining sessions, which share one check.
4. Operators and devices of registers.
5. Proofs: all safety properties of the runs are proved. What is left goes with new
   modules, and a progress argument (a decreasing measure per confirmation and refund
   call) as action properties under the liveness that stays with TLC.

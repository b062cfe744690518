-------------------------- MODULE OrderOutboxProofs --------------------------
(***************************************************************************)
(* OrderOutbox, for any number of orders, changes, relays and failures:    *)
(* effects happen at most once, what is published has been shown, poison   *)
(* stays aside, and every run is one that OrderDelivery allows.            *)
(*                                                                         *)
(* The argument: rows and events grow with the changes of an order; a      *)
(* relay past the parser works on an event that is no poison; the change   *)
(* it loads is not older than its event; past the write, or once a mark    *)
(* says so, the read model has shown it; and an effect is preceded by a    *)
(* claim that only one relay can have inserted.                            *)
(***************************************************************************)
EXTENDS OrderOutbox, TLAPS

Sent == {e \in Events : Appended(e)}

RowsFollowChanges ==
  \A o \in Orders, n \in 1 .. MaxChanges : Appended(<<o, n>>) <=> n <= changes[o]

(* What a relay in record q knows of its event, in the tables as they are. *)
Sound(q, sent, committed, shown, taken, done) ==
  /\ Batch(q)
  /\ DOMAIN q.batch \subseteq sent
  /\ q.at # "idle" => q.event \in DOMAIN q.batch
  /\ q.at \notin {"idle", "failed"} => q.event \notin Poison
  /\ q.at = "write" =>
       q.event[2] <= q.seen /\ q.seen <= committed[q.event[1]]
  /\ q.at \in {"projected", "publish"} => shown[q.event[1]] >= q.event[2]
  /\ q.at = "effect" => q.event \in taken /\ done[q.event] = 0

SoundNow(q) == Sound(q, Sent, changes, reached, claims, effects)

Types ==
  /\ changes \in [Orders -> 0 .. MaxChanges]
  /\ outbox \in [Events -> Row \cup {NoRow}]
  /\ processed \subseteq Consumers \X Events
  /\ claims \subseteq Events
  /\ effects \in [Events -> Nat]
  /\ view \in [Orders -> Nat]
  /\ reached \in [Orders -> Nat]
  /\ relay = [r \in Relays |-> relay[r]]
  /\ faults \in 0 .. MaxFaults

Shown ==
  /\ \A o \in Orders : reached[o] <= changes[o]
  /\ \A e \in Events : <<"projection", e>> \in processed => Delivered(e)
  /\ \A e \in Events : Published(e) => Delivered(e) /\ e \notin Poison

PoisonMarked ==
  \A e \in Poison : Appended(e) /\ outbox[e].status = "failed" => outbox[e].poison

ClaimedFirst == \A e \in Events : effects[e] # 0 => e \in claims

OutboxInv ==
  /\ Types /\ RowsFollowChanges /\ Shown /\ PoisonMarked /\ ClaimedFirst
  /\ EffectAtMostOnce
  /\ \A r \in Relays : SoundNow(relay[r])

-----------------------------------------------------------------------------
(* Events are pairs of an order and a number.                              *)
LEMMA EventPairs ==
  ASSUME NEW e \in Events
  PROVE  e[1] \in Orders /\ e[2] \in 1 .. MaxChanges /\ e = <<e[1], e[2]>>
BY DEF Events

LEMMA IdleIsSound ==
  ASSUME NEW sent, NEW committed, NEW shown, NEW taken, NEW done
  PROVE  Sound(Idle, sent, committed, shown, taken, done)
<1>1. DOMAIN Idle.batch = {} /\ Idle.batch \in [{} -> Nat]
  BY DEF Idle
<1>2. Batch(Idle)
  BY <1>1 DEF Idle, Batch, Stage
<1> QED BY <1>1, <1>2 DEF Sound, Idle

(* A relay that is fetched a batch, or goes on to the next record of its   *)
(* own, starts with an event of the batch, and with poison only to fail.   *)
LEMMA WorkOnIsSound ==
  ASSUME NEW r \in Relays, NEW b, WorkOn(r, b),
         DOMAIN b \subseteq Sent, b \in [DOMAIN b -> Nat]
  PROVE  \E q : /\ relay' = [relay EXCEPT ![r] = q]
                /\ SoundNow(q) /\ q.at \in {"idle", "integrate", "failed"}
<1>1. CASE b = <<>>
  <2>1. SoundNow(Idle)
    BY IdleIsSound DEF SoundNow
  <2>2. Idle.at = "idle"
    BY DEF Idle
  <2> QED BY <1>1, <2>1, <2>2 DEF WorkOn
<1>2. CASE b # <<>>
  <2>1. PICK e \in First(b), stage \in {"failed", "integrate"} :
          /\ relay' = [relay EXCEPT ![r] =
               [batch |-> b, event |-> e, seen |-> 0, at |-> stage]]
          /\ stage = "integrate" => e \notin Poison
    BY <1>2 DEF WorkOn
  <2>2. PICK q : q = [batch |-> b, event |-> e, seen |-> 0, at |-> stage]
    OBVIOUS
  <2>3. e \in DOMAIN b /\ DOMAIN b \subseteq Events
    BY <2>1 DEF First, Sent
  <2>4. Batch(q)
    BY <2>2, <2>3 DEF Batch, Stage
  <2>5. SoundNow(q)
    BY <2>1, <2>2, <2>3, <2>4 DEF SoundNow, Sound
  <2>6. relay' = [relay EXCEPT ![r] = q] /\ q.at \in {"idle", "integrate", "failed"}
    BY <2>1, <2>2
  <2> QED BY <2>5, <2>6
<1> QED BY <1>1, <1>2

(* Knowledge lasts: rows, changes, claims and what was shown only grow.    *)
LEMMA SoundLasts ==
  ASSUME NEW q, NEW s, NEW s2, NEW c \in [Orders -> Nat], NEW c2 \in [Orders -> Nat],
         NEW h \in [Orders -> Nat], NEW h2 \in [Orders -> Nat], NEW t, NEW t2, NEW d, NEW d2,
         Sound(q, s, c, h, t, d), s \subseteq s2, t \subseteq t2,
         \A o \in Orders : c[o] <= c2[o] /\ h[o] <= h2[o],
         q.at = "effect" => d2[q.event] = d[q.event]
  PROVE  Sound(q, s2, c2, h2, t2, d2)
<1>1. q.at # "idle" => q.event \in Events
  BY DEF Sound, Batch
<1>2. q.at # "idle" => q.event[1] \in Orders /\ q.event[2] \in Nat
  BY <1>1, EventPairs
<1>3. q.seen \in Nat
  BY DEF Sound, Batch
<1> QED BY <1>2, <1>3 DEF Sound

(* The relays go on, and none of them to an effect.                        *)
RelaysGoOn ==
  /\ relay' = [p \in Relays |-> relay'[p]]
  /\ \A p \in Relays :
       /\ Sound(relay'[p], Sent, changes, reached, claims, effects)
       /\ relay'[p] = relay[p] \/ relay'[p].at # "effect"

LEMMA OneGoesOn ==
  ASSUME OutboxInv, NEW r \in Relays, NEW q, relay' = [relay EXCEPT ![r] = q],
         SoundNow(q), q.at # "effect"
  PROVE  RelaysGoOn
<1>1. relay'[r] = q /\ \A p \in Relays \ {r} : relay'[p] = relay[p]
  BY DEF OutboxInv, Types
<1>2. relay' = [p \in Relays |-> relay'[p]]
  BY DEF OutboxInv, Types
<1> QED BY <1>1, <1>2 DEF RelaysGoOn, OutboxInv, SoundNow

LEMMA NobodyMoves ==
  ASSUME OutboxInv, UNCHANGED relay PROVE RelaysGoOn
<1>1. relay' = [p \in Relays |-> relay'[p]]
  BY DEF OutboxInv, Types
<1> QED BY <1>1 DEF RelaysGoOn, OutboxInv, SoundNow

LEMMA NextRecordGoesOn ==
  ASSUME OutboxInv, NEW r \in Relays, NextRecord(r)
  PROVE  RelaysGoOn
<1> DEFINE b == [e \in DOMAIN relay[r].batch \ {relay[r].event} |-> relay[r].batch[e]]
<1>1. WorkOn(r, b)
  BY DEF NextRecord
<1>2. DOMAIN b \subseteq Sent /\ b \in [DOMAIN b -> Nat]
  BY DEF OutboxInv, SoundNow, Sound, Batch
<1> HIDE DEF b
<1>3. PICK q : /\ relay' = [relay EXCEPT ![r] = q]
               /\ SoundNow(q) /\ q.at \in {"idle", "integrate", "failed"}
  BY <1>1, <1>2, WorkOnIsSound
<1> QED BY <1>3, OneGoesOn

(* Where the tables only grow, the relays stay sound and apart.            *)
LEMMA RelaysSound ==
  ASSUME OutboxInv, RelaysGoOn, UNCHANGED effects, Types',
         Sent \subseteq Sent', claims \subseteq claims',
         \A o \in Orders : changes[o] <= changes'[o] /\ reached[o] <= reached'[o]
  PROVE  (EffectAtMostOnce /\ \A p \in Relays : SoundNow(relay[p]))'
<1>1. EffectAtMostOnce'
  BY DEF OutboxInv, EffectAtMostOnce, At, RelaysGoOn
<1>2. ASSUME NEW p \in Relays PROVE SoundNow(relay[p])'
  <2>1. PICK q : q = relay'[p]
    OBVIOUS
  <2>2. Sound(q, Sent, changes, reached, claims, effects)
    BY <2>1 DEF RelaysGoOn
  <2>3. /\ changes \in [Orders -> Nat] /\ changes' \in [Orders -> Nat]
        /\ reached \in [Orders -> Nat] /\ reached' \in [Orders -> Nat]
    BY DEF OutboxInv, Types
  <2>4. PICK s2, c2, h2, t2 : s2 = Sent' /\ c2 = changes' /\ h2 = reached' /\ t2 = claims'
    OBVIOUS
  <2>5. Sound(q, s2, c2, h2, t2, effects)
    BY <2>2, <2>3, <2>4, SoundLasts
  <2> QED BY <2>1, <2>4, <2>5 DEF SoundNow
<1> QED BY <1>1, <1>2

(* Steps that write only the records of relays, and count a fault.         *)
LEMMA RelayStep ==
  ASSUME OutboxInv, RelaysGoOn, UNCHANGED tables, faults' \in 0 .. MaxFaults
  PROVE  OutboxInv'
<1>1. Types'
  BY DEF OutboxInv, Types, tables, RelaysGoOn
<1>2. (RowsFollowChanges /\ Shown /\ PoisonMarked /\ ClaimedFirst)'
  BY DEF OutboxInv, RowsFollowChanges, Shown, PoisonMarked, ClaimedFirst, tables,
         Delivered, Published, Appended
<1>3. (EffectAtMostOnce /\ \A p \in Relays : SoundNow(relay[p]))'
  <2>1. /\ UNCHANGED effects /\ Sent = Sent' /\ claims = claims'
        /\ \A o \in Orders : changes[o] <= changes'[o] /\ reached[o] <= reached'[o]
    BY DEF tables, Sent, Appended, OutboxInv, Types
  <2> QED BY <1>1, <2>1, RelaysSound
<1> QED BY <1>1, <1>2, <1>3 DEF OutboxInv

(* Steps that write a row of the outbox.                                   *)
LEMMA RowStep ==
  ASSUME OutboxInv, RelaysGoOn, faults' \in 0 .. MaxFaults,
         UNCHANGED <<changes, processed, claims, effects, view, reached>>,
         NEW e \in Sent, NEW row \in Row, outbox' = [outbox EXCEPT ![e] = row],
         row.status = "published" => Delivered(e) /\ e \notin Poison,
         row.status = "failed" /\ e \in Poison => row.poison
  PROVE  OutboxInv'
<1>0. e \in Events /\ outbox \in [Events -> Row \cup {NoRow}] /\ outbox[e] # NoRow
  BY DEF Sent, Appended, OutboxInv, Types
<1>1. Types'
  BY <1>0 DEF OutboxInv, Types, RelaysGoOn
<1>2. outbox'[e] = row /\ row # NoRow /\ \A f \in Events \ {e} : outbox'[f] = outbox[f]
  BY <1>0, NoRowAssumption
<1>3. \A f \in Events : Appended(f)' <=> Appended(f)
  BY <1>0, <1>2 DEF Appended
<1>4. RowsFollowChanges'
  BY <1>3 DEF OutboxInv, RowsFollowChanges, Events
<1>5. Shown'
  BY <1>2 DEF OutboxInv, Shown, Delivered, Published, Appended
<1>6. PoisonMarked'
  BY <1>2, PoisonAssumption DEF OutboxInv, PoisonMarked, Appended
<1>7. ClaimedFirst'
  BY DEF OutboxInv, ClaimedFirst
<1>8. (EffectAtMostOnce /\ \A p \in Relays : SoundNow(relay[p]))'
  <2>1. /\ Sent = Sent'
        /\ \A o \in Orders : changes[o] <= changes'[o] /\ reached[o] <= reached'[o]
    BY <1>3 DEF Sent, OutboxInv, Types
  <2> QED BY <1>1, <2>1, RelaysSound
<1> QED BY <1>1, <1>4, <1>5, <1>6, <1>7, <1>8 DEF OutboxInv

(* Steps that insert a mark or a claim.                                    *)
LEMMA MarkStep ==
  ASSUME OutboxInv, RelaysGoOn, faults' \in 0 .. MaxFaults,
         UNCHANGED <<changes, outbox, effects, view, reached>>,
         claims \subseteq claims', claims' \subseteq Events,
         NEW new \in SUBSET (Consumers \X Events), processed' = processed \cup new,
         \A e \in Events : <<"projection", e>> \in new => Delivered(e)
  PROVE  OutboxInv'
<1>1. Types'
  BY DEF OutboxInv, Types, RelaysGoOn
<1>2. (RowsFollowChanges /\ PoisonMarked)'
  BY DEF OutboxInv, RowsFollowChanges, PoisonMarked, Appended
<1>3. Shown'
  BY DEF OutboxInv, Shown, Delivered, Published, Appended
<1>4. ClaimedFirst'
  BY DEF OutboxInv, ClaimedFirst
<1>5. (EffectAtMostOnce /\ \A p \in Relays : SoundNow(relay[p]))'
  <2>1. /\ Sent = Sent'
        /\ \A o \in Orders : changes[o] <= changes'[o] /\ reached[o] <= reached'[o]
    BY DEF Sent, Appended, OutboxInv, Types
  <2> QED BY <1>1, <2>1, RelaysSound
<1> QED BY <1>1, <1>2, <1>3, <1>4, <1>5 DEF OutboxInv

-----------------------------------------------------------------------------
LEMMA OutboxInit == Init => OutboxInv
<1> SUFFICES ASSUME Init PROVE OutboxInv
  OBVIOUS
<1>1. Types
  BY BoundsAssumption DEF Init, Types
<1>2. \A r \in Relays : relay[r] = Idle
  BY DEF Init
<1>3. \A r \in Relays : SoundNow(relay[r])
  BY <1>2, IdleIsSound DEF SoundNow
<1>4. EffectAtMostOnce
  BY <1>2 DEF Init, EffectAtMostOnce, At, Idle
<1>5. \A e \in Events : ~Appended(e)
  BY DEF Init, Appended
<1>6. RowsFollowChanges
  BY <1>5 DEF Init, RowsFollowChanges, Events
<1>7. Shown /\ PoisonMarked /\ ClaimedFirst
  BY <1>5, PoisonAssumption DEF Init, Shown, Published, PoisonMarked, ClaimedFirst
<1> QED BY <1>1, <1>3, <1>4, <1>6, <1>7 DEF OutboxInv

(* What is known of the relay that takes a step.                           *)
LEMMA RelayFacts ==
  ASSUME OutboxInv, NEW r \in Relays
  PROVE  /\ SoundNow(relay[r]) /\ faults \in 0 .. MaxFaults
         /\ relay[r].at \in Stage
         /\ relay[r].at # "idle" => relay[r].event \in Sent /\ relay[r].event \in Events
BY DEF OutboxInv, Types, SoundNow, Sound, Batch, Sent

(* A relay that moves to a stage where nothing new need be known.          *)
LEMMA GoesOn ==
  ASSUME OutboxInv, NEW r \in Relays, NEW stage \in Stage, Go(r, stage),
         relay[r].at \notin {"idle", "failed"},
         stage \notin {"idle", "write", "projected", "effect"},
         stage = "publish" => Delivered(relay[r].event)
  PROVE  RelaysGoOn
<1>1. PICK q : q = [relay[r] EXCEPT !.at = stage]
  OBVIOUS
<1>2. relay' = [relay EXCEPT ![r] = q]
  BY <1>1 DEF Go
<1>3. SoundNow(relay[r])
  BY DEF OutboxInv
<1>4. /\ q.at = stage /\ q.event = relay[r].event /\ q.batch = relay[r].batch
      /\ q \in [at: Stage, batch: [DOMAIN q.batch -> Nat], seen: Nat,
                event: DOMAIN q.batch \cup {NoEvent}]
  BY <1>1, <1>3 DEF SoundNow, Sound, Batch
<1>5. SoundNow(q)
  BY <1>3, <1>4 DEF SoundNow, Sound, Batch, Delivered
<1> QED BY <1>2, <1>4, <1>5, OneGoesOn

LEMMA CrashGoesOn ==
  ASSUME OutboxInv, NEW r \in Relays, Crash(r) PROVE RelaysGoOn
<1>1. SoundNow(Idle) /\ Idle.at # "effect"
  BY IdleIsSound DEF SoundNow, Idle
<1> QED BY <1>1, OneGoesOn DEF Crash

LEMMA FetchGoesOn ==
  ASSUME OutboxInv, NEW r \in Relays, Fetch(r) PROVE RelaysGoOn
<1>1. PICK B \in Batches : WorkOn(r, B)
  BY DEF Fetch
<1>2. PICK E \in SUBSET Due : B = [e \in E |-> [f \in Due |-> outbox[f].attempts][e]]
  BY DEF Batches
<1>3. \A e \in Due : e \in Sent /\ outbox[e].attempts \in Nat
  BY DEF Due, Pending, Sent, Appended, OutboxInv, Types, Row
<1>4. DOMAIN B \subseteq Sent /\ B \in [DOMAIN B -> Nat]
  BY <1>2, <1>3
<1>5. PICK q : /\ relay' = [relay EXCEPT ![r] = q]
               /\ SoundNow(q) /\ q.at \in {"idle", "integrate", "failed"}
  BY <1>1, <1>4, WorkOnIsSound
<1> QED BY <1>5, OneGoesOn

LEMMA LoadGoesOn ==
  ASSUME OutboxInv, NEW r \in Relays, Load(r) PROVE RelaysGoOn
<1>0. relay[r].at = "load" /\ SoundNow(relay[r])
  BY DEF Load, At, OutboxInv
<1>1. PICK e \in Events : e = relay[r].event
  BY <1>0, RelayFacts
<1>2. e \in Sent /\ e[1] \in Orders /\ e[2] \in 1 .. MaxChanges /\ e = <<e[1], e[2]>>
  BY <1>0, <1>1, RelayFacts, EventPairs
<1>3. PICK n : n = changes[e[1]]
  OBVIOUS
<1>4. n \in Nat /\ e[2] <= n
  BY <1>2, <1>3 DEF OutboxInv, Types, RowsFollowChanges, Sent
<1>5. PICK q : q = [relay[r] EXCEPT !.at = "write", !.seen = n]
  OBVIOUS
<1>6. relay' = [relay EXCEPT ![r] = q]
  BY <1>1, <1>3, <1>5 DEF Load
<1>7. /\ q.at = "write" /\ q.event = e /\ q.batch = relay[r].batch /\ q.seen = n
      /\ q \in [at: Stage, batch: [DOMAIN q.batch -> Nat], seen: Nat,
                event: DOMAIN q.batch \cup {NoEvent}]
  BY <1>0, <1>1, <1>4, <1>5 DEF SoundNow, Sound, Batch, Stage
<1>8. SoundNow(q)
  BY <1>0, <1>1, <1>3, <1>4, <1>7 DEF SoundNow, Sound, Batch
<1> QED BY <1>6, <1>7, <1>8, OneGoesOn

-----------------------------------------------------------------------------
(* Steps and faults that leave the tables alone.                           *)
LEMMA ReadSteps ==
  ASSUME OutboxInv, NEW r \in Relays,
         \/ Fetch(r) \/ AskIntegration(r) \/ AskProjection(r) \/ Load(r)
         \/ /\ faults < MaxFaults /\ faults' = faults + 1
            /\ Crash(r) \/ EffectFails(r) \/ MarkFails(r) \/ ProjectionFails(r)
               \/ LookupFails(r)
  PROVE  OutboxInv'
<1>0. UNCHANGED tables /\ faults' \in 0 .. MaxFaults
  BY BoundsAssumption DEF OutboxInv, Types, Fetch, AskIntegration, AskProjection, Load, Crash,
       EffectFails, MarkFails, ProjectionFails, LookupFails
<1>1. CASE AskIntegration(r)
  <2>1. PICK stage \in {"project", "claim"} : Go(r, stage)
    BY <1>1 DEF AskIntegration
  <2> QED BY <1>0, <1>1, <2>1, GoesOn, RelayStep DEF AskIntegration, At, Stage
<1>2. CASE AskProjection(r)
  <2>1. PICK stage \in {"publish", "load"} :
          Go(r, stage) /\ (stage = "publish" => <<"projection", relay[r].event>> \in processed)
    BY <1>2 DEF AskProjection
  <2>2. relay[r].event \in Events
    BY <1>2, RelayFacts DEF AskProjection, At
  <2>3. stage = "publish" => Delivered(relay[r].event)
    BY <2>1, <2>2 DEF OutboxInv, Shown
  <2> QED BY <1>0, <1>2, <2>1, <2>3, GoesOn, RelayStep DEF AskProjection, At, Stage
<1>3. CASE EffectFails(r)
  BY <1>0, <1>3, GoesOn, RelayStep DEF EffectFails, At, Stage
<1>4. CASE MarkFails(r)
  <2>1. relay[r].at = "projected" => Delivered(relay[r].event)
    BY DEF OutboxInv, SoundNow, Sound, Delivered
  <2> QED BY <1>0, <1>4, <2>1, GoesOn, RelayStep DEF MarkFails, At, Stage
<1>5. CASE ProjectionFails(r) \/ LookupFails(r)
  BY <1>0, <1>5, GoesOn, RelayStep
     DEF ProjectionFails, LookupFails, AfterProjectionFailure, At, Stage
<1>6. CASE Fetch(r) \/ Load(r) \/ Crash(r)
  BY <1>0, <1>6, FetchGoesOn, LoadGoesOn, CrashGoesOn, RelayStep
<1> QED BY <1>1, <1>2, <1>3, <1>4, <1>5, <1>6

(* Steps that insert a mark, or a claim whose answer is lost.              *)
LEMMA MarkSteps ==
  ASSUME OutboxInv, NEW r \in Relays,
         \/ UNCHANGED faults /\ (MarkHandled(r) \/ MarkProjected(r))
         \/ faults < MaxFaults /\ faults' = faults + 1 /\ ClaimFails(r)
  PROVE  OutboxInv'
<1>0. faults' \in 0 .. MaxFaults
  BY BoundsAssumption DEF OutboxInv, Types
<1>1. CASE MarkHandled(r)
  <2>1. RelaysGoOn /\ relay[r].event \in Events
    BY <1>1, GoesOn, RelayFacts DEF MarkHandled, At, Stage
  <2>2. {<<"integration", relay[r].event>>} \in SUBSET (Consumers \X Events)
    BY <2>1 DEF Consumers
  <2> QED BY <1>0, <1>1, <2>1, <2>2, MarkStep DEF MarkHandled, OutboxInv, Types
<1>2. CASE MarkProjected(r)
  <2>1. Delivered(relay[r].event) /\ relay[r].event \in Events /\ relay[r].at = "projected"
    BY <1>2, RelayFacts DEF MarkProjected, At, OutboxInv, SoundNow, Sound, Delivered
  <2>2. RelaysGoOn
    BY <1>2, <2>1, GoesOn DEF MarkProjected, Stage
  <2>3. {<<"projection", relay[r].event>>} \in SUBSET (Consumers \X Events)
    BY <2>1 DEF Consumers
  <2> QED BY <1>0, <1>2, <2>1, <2>2, <2>3, MarkStep DEF MarkProjected, OutboxInv, Types
<1>3. CASE ClaimFails(r)
  <2>1. RelaysGoOn /\ relay[r].event \in Events
    BY <1>3, GoesOn, RelayFacts DEF ClaimFails, At, Stage
  <2>2. processed' = processed \cup {} /\ {} \in SUBSET (Consumers \X Events)
    BY <1>3 DEF ClaimFails
  <2>3. claims \subseteq claims' /\ claims' \subseteq Events
    BY <1>3, <2>1 DEF ClaimFails, OutboxInv, Types
  <2>4. UNCHANGED <<changes, outbox, effects, view, reached>>
    BY <1>3 DEF ClaimFails
  <2> QED BY <1>0, <2>1, <2>2, <2>3, <2>4, MarkStep
<1> QED BY <1>1, <1>2, <1>3

LEMMA RowFacts ==
  ASSUME OutboxInv, NEW e \in Sent
  PROVE  outbox[e] \in Row /\ e \in Events
BY DEF OutboxInv, Types, Sent, Appended

(* The clock and the recovery cycle write rows.                            *)
LEMMA RecoverySteps ==
  ASSUME OutboxInv, NEW e \in Events, BecomeDue(e) \/ Requeue(e)
  PROVE  OutboxInv'
<1>1. e \in Sent /\ outbox[e] \in Row /\ RelaysGoOn /\ faults' \in 0 .. MaxFaults
  <2>1. e \in Sent /\ UNCHANGED <<relay, faults>>
    BY DEF BecomeDue, Requeue, Sent, Pending
  <2> QED BY <2>1, RowFacts, NobodyMoves DEF OutboxInv, Types
<1>2. CASE BecomeDue(e)
  <2>1. PICK row : row = [outbox[e] EXCEPT !.due = TRUE]
    OBVIOUS
  <2>2. row \in Row /\ row.status = "pending"
    BY <1>1, <1>2, <2>1 DEF Row, BecomeDue, Pending
  <2>3. outbox' = [outbox EXCEPT ![e] = row]
    BY <1>2, <2>1 DEF BecomeDue
  <2> QED BY <1>1, <1>2, <2>2, <2>3, RowStep DEF BecomeDue
<1>3. CASE Requeue(e)
  <2>1. PICK row : row = [outbox[e] EXCEPT !.status = "pending", !.due = FALSE]
    OBVIOUS
  <2>2. row \in Row /\ row.status = "pending"
    BY <1>1, <2>1 DEF Row
  <2>3. outbox' = [outbox EXCEPT ![e] = row]
    BY <1>3, <2>1 DEF Requeue
  <2> QED BY <1>1, <1>3, <2>2, <2>3, RowStep DEF Requeue
<1> QED BY <1>2, <1>3

(* A relay marks its row, or loses the answer.                             *)
LEMMA PublishedRowFacts ==
  ASSUME OutboxInv, NEW e \in Sent, Delivered(e), e \notin Poison
  PROVE  /\ PublishedRow(outbox[e]) \in Row
         /\ PublishedRow(outbox[e]).status = "published" => Delivered(e) /\ e \notin Poison
BY RowFacts DEF PublishedRow, Row

LEMMA FailedRowFacts ==
  ASSUME OutboxInv, NEW e \in Sent, NEW n
  PROVE  LET row == FailedRow(outbox[e], n, e \in Poison)
         IN row \in Row /\ row.status # "published" /\ (e \in Poison => row.poison)
<1> DEFINE giveUp == e \in Poison \/ n + 1 >= MaxAttempts
           row == FailedRow(outbox[e], n, e \in Poison)
<1>1. row = [status |-> IF giveUp THEN "failed" ELSE "pending",
             attempts |-> outbox[e].attempts + 1, poison |-> e \in Poison, due |-> giveUp]
  BY DEF FailedRow
<1>2. outbox[e].attempts + 1 \in Nat
  BY RowFacts DEF Row
<1>3. giveUp \in BOOLEAN /\ (e \in Poison) \in BOOLEAN
  OBVIOUS
<1> HIDE DEF giveUp, row
<1>4. row \in Row /\ row.status # "published" /\ (e \in Poison => row.poison)
  BY <1>1, <1>2, <1>3 DEF Row
<1> QED BY <1>4 DEF row

LEMMA OutboxSteps ==
  ASSUME OutboxInv, NEW r \in Relays,
         \/ UNCHANGED faults /\ (MarkPublished(r) \/ MarkFailed(r))
         \/ faults < MaxFaults /\ faults' = faults + 1 /\ PublishFails(r)
  PROVE  OutboxInv'
<1>0. faults' \in 0 .. MaxFaults
  BY BoundsAssumption DEF OutboxInv, Types
<1>1. PICK e \in Sent : e = relay[r].event
  BY RelayFacts DEF MarkPublished, MarkFailed, PublishFails, At
<1>2. relay[r].at = "publish" => Delivered(e) /\ e \notin Poison
  BY <1>1 DEF OutboxInv, SoundNow, Sound, Delivered
<1>3. CASE MarkPublished(r)
  <2>1. RelaysGoOn
    BY <1>3, NextRecordGoesOn DEF MarkPublished
  <2>2. PICK row : row = PublishedRow(outbox[e])
    OBVIOUS
  <2>3. row \in Row /\ Delivered(e) /\ e \notin Poison
    BY <1>2, <1>3, <2>2, PublishedRowFacts DEF MarkPublished, At
  <2>4. outbox' = [outbox EXCEPT ![e] = row]
    BY <1>1, <1>3, <2>2 DEF MarkPublished
  <2> QED BY <1>0, <1>3, <2>1, <2>3, <2>4, RowStep DEF MarkPublished
<1>4. CASE MarkFailed(r)
  <2>1. RelaysGoOn
    BY <1>4, NextRecordGoesOn DEF MarkFailed
  <2>2. PICK n : n = relay[r].batch[e]
    OBVIOUS
  <2>3. PICK row : row = FailedRow(outbox[e], n, e \in Poison)
    OBVIOUS
  <2>4. row \in Row /\ row.status # "published" /\ (e \in Poison => row.poison)
    BY <2>3, FailedRowFacts
  <2>5. outbox' = [outbox EXCEPT ![e] = row]
    BY <1>1, <1>4, <2>2, <2>3 DEF MarkFailed
  <2> QED BY <1>0, <1>4, <2>1, <2>4, <2>5, RowStep DEF MarkFailed
<1>5. CASE PublishFails(r)
  <2>0. relay[r].at = "publish" /\ Go(r, "failed")
        /\ UNCHANGED <<changes, processed, claims, effects, view, reached>>
    BY <1>5 DEF PublishFails, At
  <2>1. RelaysGoOn
    BY <2>0, GoesOn DEF Stage
  <2>2. CASE outbox' = outbox
    BY <1>0, <2>0, <2>1, <2>2, RelayStep DEF tables
  <2>3. CASE outbox' = [outbox EXCEPT ![relay[r].event] = PublishedRow(@)]
    <3>1. PICK row : row = PublishedRow(outbox[e])
      OBVIOUS
    <3>2. row \in Row /\ Delivered(e) /\ e \notin Poison
      BY <1>2, <2>0, <3>1, PublishedRowFacts
    <3>3. outbox' = [outbox EXCEPT ![e] = row]
      BY <1>1, <2>3, <3>1
    <3> QED BY <1>0, <2>0, <2>1, <3>2, <3>3, RowStep
  <2> QED BY <1>5, <2>2, <2>3 DEF PublishFails
<1> QED BY <1>3, <1>4, <1>5

-----------------------------------------------------------------------------
(* A claim that is inserted belongs to one relay.                          *)
LEMMA ClaimStep ==
  ASSUME OutboxInv, NEW r \in Relays, Claim(r), UNCHANGED faults
  PROVE  OutboxInv'
<1>1. PICK e \in Events : e = relay[r].event
  BY RelayFacts DEF Claim, At
<1>2. UNCHANGED <<changes, outbox, processed, effects, view, reached, faults>>
      /\ claims' = claims \cup {e} /\ relay[r].at = "claim"
  BY <1>1 DEF Claim, At
<1>3. CASE e \in claims
  <2>1. Go(r, "handled")
    BY <1>1, <1>3 DEF Claim, FreeToClaim
  <2>2. RelaysGoOn
    BY <1>2, <2>1, GoesOn DEF Stage
  <2>3. processed' = processed \cup {} /\ {} \in SUBSET (Consumers \X Events)
    BY <1>2
  <2>4. faults' \in 0 .. MaxFaults /\ claims \subseteq claims' /\ claims' \subseteq Events
    BY <1>2 DEF OutboxInv, Types
  <2>5. UNCHANGED <<changes, outbox, effects, view, reached>>
    BY <1>2
  <2> QED BY <2>2, <2>3, <2>4, <2>5, MarkStep
<1>4. CASE e \notin claims
  <2>1. effects[e] = 0 /\ \A p \in Relays : relay[p].at = "effect" => relay[p].event # e
    BY <1>4 DEF OutboxInv, ClaimedFirst, SoundNow, Sound
  <2>2. PICK q : q = [relay[r] EXCEPT !.at = "effect"]
    OBVIOUS
  <2>3. relay' = [relay EXCEPT ![r] = q]
    BY <1>1, <1>4, <2>2 DEF Claim, Go, FreeToClaim
  <2>4. relay'[r] = q /\ \A p \in Relays \ {r} : relay'[p] = relay[p]
    BY <2>3 DEF OutboxInv, Types
  <2>5. SoundNow(relay[r])
    BY DEF OutboxInv
  <2>6. /\ q.at = "effect" /\ q.event = e /\ q.batch = relay[r].batch
        /\ q \in [at: Stage, batch: [DOMAIN q.batch -> Nat], seen: Nat,
                  event: DOMAIN q.batch \cup {NoEvent}]
    BY <1>1, <2>2, <2>5 DEF SoundNow, Sound, Batch, Stage
  <2>7. Types'
    <3>1. relay' = [p \in Relays |-> relay'[p]]
      BY <2>3 DEF OutboxInv, Types
    <3> QED BY <1>2, <3>1 DEF OutboxInv, Types
  <2>8. (RowsFollowChanges /\ Shown /\ PoisonMarked /\ ClaimedFirst)'
    BY <1>2 DEF OutboxInv, RowsFollowChanges, Shown, PoisonMarked, ClaimedFirst,
         Delivered, Published, Appended
  <2>9. EffectAtMostOnce'
    BY <1>2, <2>1, <2>4, <2>6 DEF OutboxInv, EffectAtMostOnce, At
  <2>10. ASSUME NEW p \in Relays PROVE SoundNow(relay[p])'
    <3>1. CASE p = r
      BY <1>1, <1>2, <2>1, <2>4, <2>5, <2>6, <3>1
         DEF SoundNow, Sound, Batch, Sent, Appended
    <3>2. CASE p # r
      BY <1>2, <2>4, <3>2 DEF OutboxInv, SoundNow, Sound, Sent, Appended
    <3> QED BY <3>1, <3>2
  <2> QED BY <2>7, <2>8, <2>9, <2>10 DEF OutboxInv
<1> QED BY <1>3, <1>4

LEMMA EffectStep ==
  ASSUME OutboxInv, NEW r \in Relays, Effect(r), UNCHANGED faults
  PROVE  OutboxInv'
<1>1. PICK e \in Events : e = relay[r].event
  BY RelayFacts DEF Effect, At
<1>2. /\ UNCHANGED <<changes, outbox, processed, claims, view, reached, faults>>
      /\ effects' = [effects EXCEPT ![e] = @ + 1] /\ relay[r].at = "effect"
      /\ effects[e] = 0 /\ e \in claims
  BY <1>1 DEF Effect, At, OutboxInv, SoundNow, Sound
<1>3. RelaysGoOn
  BY <1>2, GoesOn DEF Effect, Stage
<1>4. /\ effects' \in [Events -> Nat] /\ effects'[e] = 1
      /\ \A f \in Events \ {e} : effects'[f] = effects[f]
  BY <1>2 DEF OutboxInv, Types
<1>5. Types'
  BY <1>2, <1>3, <1>4 DEF OutboxInv, Types, RelaysGoOn
<1>6. (RowsFollowChanges /\ Shown /\ PoisonMarked)'
  BY <1>2 DEF OutboxInv, RowsFollowChanges, Shown, PoisonMarked, Delivered, Published, Appended
<1>7. ClaimedFirst'
  BY <1>2, <1>4 DEF OutboxInv, ClaimedFirst
<1>8. relay'[r].at # "effect" /\ \A p \in Relays \ {r} : relay'[p] = relay[p]
  <2>1. PICK q : q = [relay[r] EXCEPT !.at = "handled"]
    OBVIOUS
  <2>2. q.at = "handled"
    BY <2>1 DEF OutboxInv, SoundNow, Sound, Batch
  <2>3. relay' = [relay EXCEPT ![r] = q]
    BY <2>1 DEF Effect, Go
  <2> QED BY <2>2, <2>3 DEF OutboxInv, Types
<1>9. EffectAtMostOnce'
  BY <1>3, <1>4 DEF OutboxInv, EffectAtMostOnce, At, RelaysGoOn
<1>10. ASSUME NEW p \in Relays PROVE SoundNow(relay[p])'
  <2>1. relay'[p].at = "effect" => p # r /\ relay[p].at = "effect"
                                  /\ relay'[p].event = relay[p].event
    BY <1>8
  <2>2. relay'[p].at = "effect" => relay'[p].event # e
    BY <1>1, <1>2, <2>1 DEF OutboxInv, EffectAtMostOnce, At
  <2>3. Sound(relay'[p], Sent, changes, reached, claims, effects)
    BY <1>3 DEF RelaysGoOn
  <2>4. relay'[p].at = "effect" => relay'[p].event \in Events
    BY <2>3 DEF Sound, Batch
  <2> QED BY <1>2, <1>4, <2>2, <2>3, <2>4 DEF SoundNow, Sound, Sent, Appended
<1> QED BY <1>5, <1>6, <1>7, <1>9, <1>10 DEF OutboxInv

(* What is written to a read model is a change that was committed, and the *)
(* event of the relay or a later one.                                      *)
LEMMA WriteFacts ==
  ASSUME OutboxInv, NEW r \in Relays, Write(r)
  PROVE  \E e \in Sent, n \in Nat :
           /\ e \in Events /\ e = relay[r].event /\ e[1] \in Orders /\ e[2] \in Nat
           /\ e[2] <= n /\ n <= changes[e[1]] /\ relay[r].at = "write"
           /\ reached' = [reached EXCEPT ![e[1]] = IF n > @ THEN n ELSE @]
           /\ view' = [view EXCEPT ![e[1]] = n]
<1>1. PICK e \in Sent : e = relay[r].event /\ e \in Events
  BY RelayFacts DEF Write, At
<1>2. e[1] \in Orders /\ e[2] \in Nat
  BY <1>1, EventPairs
<1>3. PICK n \in Nat : n = relay[r].seen
  BY DEF OutboxInv, SoundNow, Sound, Batch
<1>4. relay[r].at = "write" /\ e[2] <= n /\ n <= changes[e[1]]
  BY <1>1, <1>3 DEF Write, At, OutboxInv, SoundNow, Sound
<1>5. /\ reached' = [reached EXCEPT ![e[1]] = IF n > @ THEN n ELSE @]
      /\ view' = [view EXCEPT ![e[1]] = n]
  BY <1>1, <1>3 DEF Write
<1> QED BY <1>1, <1>2, <1>4, <1>5

LEMMA WriteStep ==
  ASSUME OutboxInv, NEW r \in Relays, Write(r), UNCHANGED faults
  PROVE  OutboxInv'
<1>1. PICK e \in Sent, n \in Nat :
        /\ e \in Events /\ e = relay[r].event /\ e[1] \in Orders /\ e[2] \in Nat
        /\ e[2] <= n /\ n <= changes[e[1]] /\ relay[r].at = "write"
        /\ reached' = [reached EXCEPT ![e[1]] = IF n > @ THEN n ELSE @]
        /\ view' = [view EXCEPT ![e[1]] = n]
  BY WriteFacts
<1>2. UNCHANGED <<changes, outbox, processed, claims, effects, faults>>
  BY DEF Write
<1>3. /\ reached \in [Orders -> Nat] /\ reached' \in [Orders -> Nat]
      /\ changes \in [Orders -> Nat] /\ view' \in [Orders -> Nat]
      /\ reached'[e[1]] >= n
      /\ \A o \in Orders : reached[o] <= reached'[o] /\ reached'[o] <= changes[o]
  BY <1>1 DEF OutboxInv, Types, Shown
<1>4. PICK q : q = [relay[r] EXCEPT !.at = "projected", !.seen = 0]
  OBVIOUS
<1>5. /\ SoundNow(relay[r]) /\ q.at = "projected" /\ q.event = e /\ q.batch = relay[r].batch
      /\ q \in [at: Stage, batch: [DOMAIN q.batch -> Nat], seen: Nat,
                event: DOMAIN q.batch \cup {NoEvent}]
  BY <1>1, <1>4 DEF OutboxInv, SoundNow, Sound, Batch, Stage
<1>6. relay' = [relay EXCEPT ![r] = q]
  BY <1>4 DEF Write
<1>7. /\ relay' = [p \in Relays |-> relay'[p]]
      /\ relay'[r] = q /\ \A p \in Relays \ {r} : relay'[p] = relay[p]
  BY <1>6 DEF OutboxInv, Types
<1>8. Types'
  BY <1>2, <1>3, <1>7 DEF OutboxInv, Types
<1>9. (RowsFollowChanges /\ PoisonMarked /\ ClaimedFirst)'
  BY <1>2 DEF OutboxInv, RowsFollowChanges, PoisonMarked, ClaimedFirst, Appended
<1>10. \A f \in Events : Delivered(f) => Delivered(f)'
  <2>1. ASSUME NEW f \in Events, Delivered(f) PROVE Delivered(f)'
    <3>1. f[1] \in Orders /\ f[2] \in Nat
      BY EventPairs
    <3> QED BY <1>3, <2>1, <3>1 DEF Delivered
  <2> QED BY <2>1
<1>11. Shown'
  BY <1>2, <1>3, <1>10 DEF OutboxInv, Shown, Published, Appended
<1>12. EffectAtMostOnce'
  BY <1>2, <1>5, <1>7 DEF OutboxInv, EffectAtMostOnce, At
<1>13. ASSUME NEW p \in Relays PROVE SoundNow(relay[p])'
  <2>1. CASE p = r
    BY <1>1, <1>2, <1>3, <1>5, <1>7, <2>1 DEF SoundNow, Sound, Batch, Sent, Appended
  <2>2. CASE p # r
    <3>1. PICK x : x = relay[p]
      OBVIOUS
    <3>2. PICK h : h = reached'
      OBVIOUS
    <3>3. Sound(x, Sent, changes, reached, claims, effects) /\ h \in [Orders -> Nat]
      BY <1>3, <3>1, <3>2 DEF OutboxInv, SoundNow
    <3>4. Sound(x, Sent, changes, h, claims, effects)
      BY <1>3, <3>2, <3>3, SoundLasts
    <3>5. relay'[p] = x
      BY <1>7, <2>2, <3>1
    <3> QED BY <1>2, <3>2, <3>4, <3>5 DEF SoundNow, Sent, Appended
  <2> QED BY <2>1, <2>2
<1> QED BY <1>8, <1>9, <1>11, <1>12, <1>13 DEF OutboxInv

(* An order is saved with the event of its change.                         *)
LEMMA ChangeFacts ==
  ASSUME OutboxInv, NEW o \in Orders, Change(o)
  PROVE  \E e \in Events \ Sent :
           /\ e = <<o, changes[o] + 1>>
           /\ outbox' = [outbox EXCEPT ![e] = NewRow] /\ outbox'[e] = NewRow
           /\ NewRow \in Row /\ NewRow # NoRow
           /\ \A f \in Events \ {e} : outbox'[f] = outbox[f]
           /\ Sent' = Sent \cup {e}
<1>1. changes[o] \in Nat /\ changes[o] + 1 \in 1 .. MaxChanges
  BY BoundsAssumption DEF Change, OutboxInv, Types
<1>2. PICK e \in Events : e = <<o, changes[o] + 1>>
  BY <1>1 DEF Events
<1>3. e \notin Sent
  BY <1>1, <1>2 DEF Sent, OutboxInv, RowsFollowChanges
<1>4. NewRow \in Row /\ NewRow # NoRow
  <2>1. NewRow \in Row
    BY DEF NewRow, Row
  <2> QED BY <2>1, NoRowAssumption
<1>5. outbox' = [outbox EXCEPT ![e] = NewRow]
  BY <1>2 DEF Change
<1>6. outbox'[e] = NewRow /\ \A f \in Events \ {e} : outbox'[f] = outbox[f]
  BY <1>5 DEF OutboxInv, Types
<1>7. Sent' = Sent \cup {e}
  BY <1>4, <1>6 DEF Sent, Appended
<1> QED BY <1>2, <1>3, <1>4, <1>5, <1>6, <1>7

LEMMA ChangeStep ==
  ASSUME OutboxInv, NEW o \in Orders, Change(o)
  PROVE  OutboxInv'
<1>1. PICK e \in Events \ Sent :
        /\ e = <<o, changes[o] + 1>>
        /\ outbox' = [outbox EXCEPT ![e] = NewRow] /\ outbox'[e] = NewRow
        /\ NewRow \in Row /\ NewRow # NoRow
        /\ \A f \in Events \ {e} : outbox'[f] = outbox[f]
        /\ Sent' = Sent \cup {e}
  BY ChangeFacts
<1>2. UNCHANGED <<processed, claims, effects, view, reached, relay, faults>>
  BY DEF Change
<1>3. /\ changes[o] \in Nat /\ changes'[o] = changes[o] + 1 /\ changes[o] < MaxChanges
      /\ \A p \in Orders \ {o} : changes'[p] = changes[p]
      /\ changes' \in [Orders -> 0 .. MaxChanges]
  BY BoundsAssumption DEF Change, OutboxInv, Types
<1>4. Types'
  BY <1>1, <1>2, <1>3 DEF OutboxInv, Types
<1>5. RowsFollowChanges'
  <2>1. ASSUME NEW p \in Orders, NEW n \in 1 .. MaxChanges
        PROVE  Appended(<<p, n>>)' <=> n <= changes'[p]
    <3>1. <<p, n>> \in Events /\ n \in Nat
      BY DEF Events
    <3>2. <<p, n>> \in Sent <=> n <= changes[p]
      BY <3>1 DEF Sent, OutboxInv, RowsFollowChanges
    <3>3. <<p, n>> \in Sent' <=> <<p, n>> \in Sent \/ (p = o /\ n = changes[o] + 1)
      BY <1>1
    <3>4. <<p, n>> \in Sent' <=> n <= changes'[p]
      BY <1>3, <3>1, <3>2, <3>3
    <3> QED BY <3>1, <3>4 DEF Sent
  <2> QED BY <2>1 DEF RowsFollowChanges
<1>6. Shown'
  BY <1>1, <1>2, <1>3 DEF OutboxInv, Types, Shown, Published, Appended, Delivered, NewRow
<1>7. PoisonMarked'
  BY <1>1, PoisonAssumption DEF OutboxInv, PoisonMarked, Appended, NewRow
<1>8. ClaimedFirst'
  BY <1>2 DEF OutboxInv, ClaimedFirst
<1>9. (EffectAtMostOnce /\ \A p \in Relays : SoundNow(relay[p]))'
  <2>1. \A p \in Orders : changes[p] <= changes'[p] /\ reached[p] <= reached'[p]
    BY <1>2, <1>3 DEF OutboxInv, Types
  <2> QED BY <1>1, <1>2, <1>4, <2>1, NobodyMoves, RelaysSound
<1> QED BY <1>4, <1>5, <1>6, <1>7, <1>8, <1>9 DEF OutboxInv

LEMMA OutboxStep == OutboxInv /\ [Next]_vars => OutboxInv'
<1> SUFFICES ASSUME OutboxInv, [Next]_vars PROVE OutboxInv'
  OBVIOUS
<1>1. ASSUME NEW o \in Orders, Change(o) PROVE OutboxInv'
  BY <1>1, ChangeStep
<1>2. ASSUME NEW e \in Events, BecomeDue(e) \/ Requeue(e) PROVE OutboxInv'
  BY <1>2, RecoverySteps
<1>3. ASSUME NEW r \in Relays, Step(r) PROVE OutboxInv'
  <2>1. CASE Fetch(r) \/ AskIntegration(r) \/ AskProjection(r) \/ Load(r)
    BY <2>1, ReadSteps
  <2>2. CASE Claim(r) \/ Effect(r) \/ Write(r)
    BY <2>2, ClaimStep, EffectStep, WriteStep DEF Claim, Effect, Write
  <2>3. CASE MarkHandled(r) \/ MarkProjected(r)
    BY <2>3, MarkSteps DEF MarkHandled, MarkProjected
  <2>4. CASE MarkPublished(r) \/ MarkFailed(r)
    BY <2>4, OutboxSteps DEF MarkPublished, MarkFailed
  <2> QED BY <1>3, <2>1, <2>2, <2>3, <2>4 DEF Step
<1>4. ASSUME NEW r \in Relays, Fault(r) PROVE OutboxInv'
  BY <1>4, ReadSteps, MarkSteps, OutboxSteps DEF Fault
<1>5. CASE UNCHANGED vars
  <2>1. UNCHANGED tables /\ UNCHANGED relay /\ faults' \in 0 .. MaxFaults
    BY <1>5 DEF vars, tables, OutboxInv, Types
  <2> QED BY <2>1, NobodyMoves, RelayStep
<1> QED BY <1>1, <1>2, <1>3, <1>4, <1>5 DEF Next

(* The invariant holds in every state of every run.                        *)
THEOREM OutboxInvariant == Spec => []OutboxInv
BY OutboxInit, OutboxStep, PTL DEF Spec

(* Every variable keeps its type, and a relay works on a row of the batch  *)
(* it has read.                                                            *)
THEOREM OutboxTypeCorrect == Spec => []TypeOK
<1>1. OutboxInv => TypeOK
  BY DEF OutboxInv, Types, TypeOK, SoundNow, Sound
<1> QED BY <1>1, OutboxInvariant, PTL

(* However many relays race, crash or lose an answer, the side effect of   *)
(* an event happens at most once.                                          *)
THEOREM OutboxEffectAtMostOnce == Spec => []EffectAtMostOnce
BY OutboxInvariant, PTL DEF OutboxInv

(* An event counts as published only when the read model of its order has  *)
(* shown that change, or a later one.                                      *)
THEOREM OutboxPublishedWasShown == Spec => []PublishedWasShown
<1>1. OutboxInv => PublishedWasShown
  BY DEF OutboxInv, Shown, PublishedWasShown
<1> QED BY <1>1, OutboxInvariant, PTL

-----------------------------------------------------------------------------
(* How the row of an event may change in one step.                         *)
LEMMA RowChange ==
  ASSUME OutboxInv, Next, NEW e \in Events
  PROVE  \/ outbox'[e] = outbox[e]
         \/ ~Appended(e)
         \/ e \in Sent /\ (BecomeDue(e) \/ Requeue(e))
         \/ /\ e \in Sent /\ Delivered(e) /\ e \notin Poison
            /\ outbox'[e] = PublishedRow(outbox[e])
         \/ /\ e \in Sent
            /\ \E n \in Nat : outbox'[e] = FailedRow(outbox[e], n, e \in Poison)
<1>0. outbox \in [Events -> Row \cup {NoRow}]
  BY DEF OutboxInv, Types
<1>1. ASSUME NEW o \in Orders, Change(o)
      PROVE  outbox'[e] = outbox[e] \/ ~Appended(e)
  BY <1>1, ChangeFacts DEF Sent
<1>2. ASSUME NEW f \in Events, BecomeDue(f) \/ Requeue(f)
      PROVE  outbox'[e] = outbox[e] \/ (e \in Sent /\ (BecomeDue(e) \/ Requeue(e)))
  <2>1. CASE f = e
    BY <1>2, <2>1 DEF BecomeDue, Requeue, Pending, Sent
  <2>2. CASE f # e
    BY <1>0, <1>2, <2>2 DEF BecomeDue, Requeue
  <2> QED BY <2>1, <2>2
<1>3. ASSUME NEW r \in Relays, Step(r) \/ Fault(r), ~(outbox'[e] = outbox[e])
      PROVE  /\ e \in Sent
             /\ \/ /\ Delivered(e) /\ e \notin Poison
                   /\ outbox'[e] = PublishedRow(outbox[e])
                \/ \E n \in Nat : outbox'[e] = FailedRow(outbox[e], n, e \in Poison)
  <2>1. MarkPublished(r) \/ MarkFailed(r) \/ PublishFails(r)
    <3>1. ~UNCHANGED outbox
      BY <1>3
    <3> QED BY <1>3, <3>1 DEF Step, Fault, Fetch, AskIntegration, AskProjection, Load, Claim,
              Effect, Write, MarkHandled, MarkProjected, Crash, ClaimFails, EffectFails,
              MarkFails, ProjectionFails, LookupFails, tables
  <2>2. relay[r].event \in Sent /\ SoundNow(relay[r])
    BY <2>1, RelayFacts DEF MarkPublished, MarkFailed, PublishFails, At
  <2>3. relay[r].event = e
    BY <1>0, <1>3, <2>1 DEF MarkPublished, MarkFailed, PublishFails
  <2>4. CASE MarkPublished(r) \/ PublishFails(r)
    <3>1. relay[r].at = "publish"
      BY <2>4 DEF MarkPublished, PublishFails, At
    <3>2. Delivered(e) /\ e \notin Poison
      BY <2>2, <2>3, <3>1 DEF SoundNow, Sound, Delivered
    <3>3. outbox'[e] = PublishedRow(outbox[e])
      BY <1>0, <1>3, <2>3, <2>4 DEF MarkPublished, PublishFails
    <3> QED BY <2>2, <2>3, <3>2, <3>3
  <2>5. CASE MarkFailed(r)
    <3>1. relay[r].batch[e] \in Nat
      <4>1. relay[r].at # "idle"
        BY <2>5 DEF MarkFailed, At
      <4> QED BY <2>2, <2>3, <4>1 DEF SoundNow, Sound, Batch
    <3>2. outbox'[e] = FailedRow(outbox[e], relay[r].batch[e], e \in Poison)
      BY <1>0, <2>3, <2>5 DEF MarkFailed
    <3> QED BY <2>2, <2>3, <3>1, <3>2
  <2> QED BY <2>1, <2>4, <2>5
<1> QED BY <1>1, <1>2, <1>3 DEF Next

(* A row that does not parse is never relayed or published again once it   *)
(* is set aside.                                                           *)
THEOREM OutboxPoisonStaysAside == Spec => PoisonStaysAside
<1> DEFINE Aside == \A e \in Poison : Appended(e) /\ outbox[e].status = "failed"
                       => outbox'[e].status = "failed"
<1>1. OutboxInv /\ [Next]_vars => [Aside]_vars
  <2> SUFFICES ASSUME OutboxInv, Next, NEW e \in Poison,
                      Appended(e), outbox[e].status = "failed"
               PROVE  outbox'[e].status = "failed"
    BY DEF vars
  <2>1. e \in Events /\ outbox[e].poison
    BY PoisonAssumption DEF OutboxInv, PoisonMarked
  <2>2. ~BecomeDue(e) /\ ~Requeue(e)
    BY <2>1 DEF BecomeDue, Pending, Requeue, Requeueable
  <2>3. \A n \in Nat : FailedRow(outbox[e], n, e \in Poison).status = "failed"
    BY DEF FailedRow
  <2> QED BY <2>1, <2>2, <2>3, RowChange
<1> QED BY <1>1, OutboxInvariant, PTL DEF Spec, PoisonStaysAside

-----------------------------------------------------------------------------
(* Every step is one of OrderDelivery, or changes nothing it sees.         *)
LEMMA DeliveryUnchanged ==
  ASSUME UNCHANGED <<effects, reached>>,
         \A e \in Events : (Appended(e)' <=> Appended(e)) /\ (Published(e)' <=> Published(e))
  PROVE  UNCHANGED Delivery!vars
BY DEF Delivery!vars, Delivered

(* A step that writes only one row publishes it, takes it back, or neither.*)
LEMMA DeliveryRow ==
  ASSUME OutboxInv, UNCHANGED <<effects, reached>>,
         NEW e \in Sent, NEW row \in Row, outbox' = [outbox EXCEPT ![e] = row],
         row.status = "published" => Delivered(e) /\ e \notin Poison
  PROVE  [Delivery!Next]_(Delivery!vars)
<1>1. /\ e \in Events /\ row # NoRow /\ outbox'[e] = row
      /\ \A f \in Events \ {e} : outbox'[f] = outbox[f]
  BY NoRowAssumption DEF OutboxInv, Types, Sent
<1>2. \A f \in Events : Appended(f)' <=> Appended(f)
  BY <1>1 DEF Appended, Sent
<1>3. \A f \in Events \ {e} : Published(f)' <=> Published(f)
  BY <1>1 DEF Published, Appended
<1>4. CASE Published(e)' <=> Published(e)
  BY <1>2, <1>3, <1>4, DeliveryUnchanged
<1>5. CASE Published(e)' /\ ~Published(e)
  <2>1. Delivered(e) /\ e \notin Poison
    BY <1>1, <1>5 DEF Published
  <2>2. {f \in Events : Published(f)}' = {f \in Events : Published(f)} \cup {e}
    BY <1>1, <1>3, <1>5
  <2>3. Delivery!Acknowledge
    BY <1>1, <1>2, <2>1, <2>2 DEF Delivery!Acknowledge, Delivered
  <2> QED BY <2>3 DEF Delivery!Next
<1>6. CASE ~Published(e)' /\ Published(e)
  <2>1. {f \in Events : Published(f)}' = {f \in Events : Published(f)} \ {e}
    BY <1>1, <1>3, <1>6
  <2>2. Delivery!Withdraw
    BY <1>1, <1>2, <1>6, <2>1 DEF Delivery!Withdraw, Delivered
  <2> QED BY <2>2 DEF Delivery!Next
<1> QED BY <1>4, <1>5, <1>6

LEMMA DeliveryChange ==
  ASSUME OutboxInv, NEW o \in Orders, Change(o) PROVE Delivery!Next
<1>1. PICK e \in Events \ Sent :
        /\ outbox'[e] = NewRow /\ NewRow # NoRow /\ Sent' = Sent \cup {e}
        /\ \A f \in Events \ {e} : outbox'[f] = outbox[f]
  BY ChangeFacts
<1>2. {f \in Events : Published(f)}' = {f \in Events : Published(f)}
  BY <1>1 DEF Published, Appended, NewRow, Sent
<1>3. Delivery!Send
  BY <1>1, <1>2 DEF Delivery!Send, Sent, Delivered, Change
<1> QED BY <1>3 DEF Delivery!Next

LEMMA DeliveryEffect ==
  ASSUME OutboxInv, NEW r \in Relays, Effect(r) PROVE Delivery!Next
<1>1. PICK e \in Sent : e \in Events /\ e = relay[r].event
  BY RelayFacts DEF Effect, At
<1>2. effects[e] = 0 /\ e \notin Poison
  BY <1>1 DEF Effect, At, OutboxInv, SoundNow, Sound
<1>3. effects' = [effects EXCEPT ![e] = 1]
  BY <1>1, <1>2 DEF Effect, OutboxInv, Types
<1>4. Delivery!Effect
  BY <1>1, <1>2, <1>3 DEF Effect, Delivery!Effect, Sent, Delivered, Published, Appended
<1> QED BY <1>4 DEF Delivery!Next

LEMMA DeliveryWrite ==
  ASSUME OutboxInv, OutboxInv', NEW r \in Relays, Write(r) PROVE Delivery!Next
<1> DEFINE E == {f \in Events : Delivered(f)}'
<1>1. PICK e \in Sent, n \in Nat :
        e[1] \in Orders /\ reached' = [reached EXCEPT ![e[1]] = IF n > @ THEN n ELSE @]
  BY WriteFacts
<1>2. UNCHANGED <<outbox, effects>>
  BY DEF Write
<1>3. \A p \in Orders : reached[p] \in Nat /\ reached'[p] \in Nat /\ reached[p] <= reached'[p]
  BY <1>1 DEF OutboxInv, Types
<1>4. ASSUME NEW f \in Events
      PROVE  (Delivered(f) => Delivered(f)') /\ (Delivered(f)' => f \in Sent)
  <2>1. f[1] \in Orders /\ f[2] \in 1 .. MaxChanges /\ f = <<f[1], f[2]>>
    BY EventPairs
  <2>2. Delivered(f) => Delivered(f)'
    BY <1>3, <2>1 DEF Delivered
  <2>3. Delivered(f)' => f[2] <= changes'[f[1]]
    BY <1>3, <2>1 DEF Delivered, OutboxInv, Shown, Types
  <2>4. f[2] <= changes'[f[1]] => Appended(f)'
    BY <2>1 DEF OutboxInv, RowsFollowChanges
  <2>5. Appended(f)' => f \in Sent
    BY <1>2 DEF Appended, Sent
  <2> QED BY <2>2, <2>3, <2>4, <2>5
<1>5. E \in SUBSET Sent /\ E = {f \in Events : Delivered(f)} \cup E
  BY <1>4
<1>6. Delivery!Deliver
  BY <1>2, <1>5 DEF Delivery!Deliver, Sent, Published, Appended
<1> QED BY <1>6 DEF Delivery!Next

LEMMA DeliveryStep ==
  OutboxInv /\ OutboxInv' /\ [Next]_vars => [Delivery!Next]_(Delivery!vars)
<1> SUFFICES ASSUME OutboxInv, OutboxInv', [Next]_vars
             PROVE  [Delivery!Next]_(Delivery!vars)
  OBVIOUS
<1>1. ASSUME UNCHANGED <<outbox, effects, reached>> PROVE UNCHANGED Delivery!vars
  BY <1>1, DeliveryUnchanged DEF Appended, Published
<1>2. ASSUME NEW o \in Orders, Change(o) PROVE Delivery!Next
  BY <1>2, DeliveryChange
<1>3. ASSUME NEW e \in Events, BecomeDue(e) \/ Requeue(e)
      PROVE  [Delivery!Next]_(Delivery!vars)
  <2>1. e \in Sent /\ outbox[e] \in Row
    <3>1. e \in Sent
      BY <1>3 DEF BecomeDue, Requeue, Pending, Sent
    <3> QED BY <3>1, RowFacts
  <2>2. PICK row : /\ row \in {[outbox[e] EXCEPT !.due = TRUE],
                               [outbox[e] EXCEPT !.status = "pending", !.due = FALSE]}
                   /\ outbox' = [outbox EXCEPT ![e] = row]
                   /\ row.status # "published"
    BY <1>3, <2>1 DEF BecomeDue, Requeue, Pending, Row
  <2>3. row \in Row
    BY <2>1, <2>2 DEF Row
  <2> QED BY <1>3, <2>1, <2>2, <2>3, DeliveryRow DEF BecomeDue, Requeue
<1>4. ASSUME NEW r \in Relays, Step(r) \/ Fault(r) PROVE [Delivery!Next]_(Delivery!vars)
  <2>1. CASE Effect(r)
    BY <2>1, DeliveryEffect
  <2>2. CASE Write(r)
    BY <2>2, DeliveryWrite
  <2>3. CASE MarkPublished(r) \/ MarkFailed(r) \/ PublishFails(r)
    <3>1. PICK e \in Sent : e = relay[r].event
      BY <2>3, RelayFacts DEF MarkPublished, MarkFailed, PublishFails, At
    <3>2. UNCHANGED <<effects, reached>>
      BY <2>3 DEF MarkPublished, MarkFailed, PublishFails
    <3>3. outbox[e] \in Row /\ relay[r].at = "publish" => Delivered(e) /\ e \notin Poison
      BY <3>1 DEF OutboxInv, SoundNow, Sound, Delivered
    <3>4. CASE outbox' = outbox
      BY <1>1, <3>2, <3>4
    <3>5. CASE outbox' = [outbox EXCEPT ![relay[r].event] = PublishedRow(@)]
               /\ (MarkPublished(r) \/ PublishFails(r))
      <4>1. Delivered(e) /\ e \notin Poison
        BY <3>3, <3>5, RowFacts DEF MarkPublished, PublishFails, At
      <4>2. PICK row : row = PublishedRow(outbox[e])
        OBVIOUS
      <4>3. row \in Row /\ outbox' = [outbox EXCEPT ![e] = row]
        BY <3>1, <3>5, <4>1, <4>2, PublishedRowFacts
      <4> QED BY <3>2, <4>1, <4>3, DeliveryRow
    <3>6. CASE MarkFailed(r)
      <4>1. PICK row : /\ row = FailedRow(outbox[e], relay[r].batch[e], e \in Poison)
                       /\ outbox' = [outbox EXCEPT ![e] = row]
        BY <3>1, <3>6 DEF MarkFailed
      <4>2. row \in Row /\ row.status # "published"
        BY <4>1, FailedRowFacts
      <4> QED BY <3>2, <4>1, <4>2, DeliveryRow
    <3> QED BY <2>3, <3>4, <3>5, <3>6 DEF MarkPublished, PublishFails
  <2>4. CASE UNCHANGED <<outbox, effects, reached>>
    BY <1>1, <2>4
  <2> QED BY <1>4, <2>1, <2>2, <2>3, <2>4
        DEF Step, Fault, Fetch, AskIntegration, AskProjection, Load, Claim, MarkHandled,
            MarkProjected, Crash, ClaimFails, EffectFails, MarkFails, ProjectionFails,
            LookupFails, tables
<1>5. CASE UNCHANGED vars
  BY <1>1, <1>5 DEF vars
<1> QED BY <1>2, <1>3, <1>4, <1>5 DEF Next

(* Whatever relays race, crash or lose, the outbox keeps the promises of   *)
(* OrderDelivery: every run of it is one of that specification.            *)
THEOREM OutboxImplementsDelivery == Spec => DeliverySpec
<1>1. Init => Delivery!Init
  <2> SUFFICES ASSUME Init PROVE Delivery!Init
    OBVIOUS
  <2>1. \A e \in Events : ~Appended(e) /\ ~Published(e)
    BY DEF Init, Appended, Published
  <2>2. ASSUME NEW e \in Events PROVE ~Delivered(e)
    <3>1. e[1] \in Orders /\ e[2] \in 1 .. MaxChanges
      BY EventPairs
    <3> QED BY <3>1, BoundsAssumption DEF Init, Delivered
  <2> QED BY <2>1, <2>2 DEF Init, Delivery!Init
<1>2. OutboxInv /\ OutboxInv' /\ [Next]_vars => [Delivery!Next]_(Delivery!vars)
  BY DeliveryStep
<1> QED BY <1>1, <1>2, OutboxInvariant, PTL DEF Spec, DeliverySpec, Delivery!Spec
==============================================================================

------------------------ MODULE OrderSettlementProofs ------------------------
(***************************************************************************)
(* OrderSettlement, for any number of callers, sweepers, checks and        *)
(* failures: only collected orders are served or settled, and outcome and  *)
(* membership of a check stay together and final.                          *)
(*                                                                         *)
(* The argument: whoever is about to serve or to finalize has seen the     *)
(* collection, which is never taken back; a check that a call holds is     *)
(* still open with the order on it or has been finalized by somebody else; *)
(* a check that waits for its order is held by the call that opened it     *)
(* alone, because nobody finds a check but by its membership.              *)
(***************************************************************************)
EXTENDS OrderSettlement, TLAPS

Call == [at: Stage, target: Status, seen: Status, fresh: BOOLEAN,
         check: Checks \cup {NoCheck}]

Holding == {"accepted", "void", "finalize"}
Joining == {"enroll", "join"}

(* What a call in record q has seen: the collection, ...                   *)
SawCollection(q, got) ==
  /\ q.at \in {"walk", "deliver", "create", "finalize"} => got
  /\ q.at \in {"compare", "write"} /\ q.target = "served" => got

(* ... an open check with the order on it, or one without it.              *)
HoldsCheck(q, now) ==
  /\ q.at \in Holding =>
       /\ now[q.check].outcome # "unused"
       /\ now[q.check].outcome = "open" => now[q.check].member
  /\ q.at \in Joining => now[q.check] = NewCheck(FALSE)

Named(q) == q.check # NoCheck <=> q.at \in Holding \cup Joining

Sound(q) == q \in Call /\ Named(q) /\ SawCollection(q, collected) /\ HoldsCheck(q, checks)

JoinsAlone ==
  \A c, d \in All :
    call[c].at \in Joining /\ call[d].at \in Joining /\ call[c].check = call[d].check
      => c = d

SettleInv ==
  /\ TypeOK /\ DoneIsCollected /\ MembersFollowOutcome /\ JoinsAlone
  /\ \A c \in All : Sound(call[c])

-----------------------------------------------------------------------------
(* Types and checks follow from the records of all calls.                  *)
LEMMA TypesFromCalls ==
  ASSUME channel \in Channel, status \in Status, collected \in BOOLEAN,
         checks \in [Checks -> [outcome: {"unused", "open", "paid", "voided"},
                                member: BOOLEAN]],
         ensured \in BOOLEAN, faults \in 0 .. MaxFaults,
         call \in [All -> Call], \A c \in All : Named(call[c])
  PROVE  TypeOK
BY DEF TypeOK, Call, Named, Holding, Joining

LEMMA SettleInit == Init => SettleInv
<1> SUFFICES ASSUME Init PROVE SettleInv
  OBVIOUS
<1>1. Idle \in Call /\ Idle.at = "idle" /\ Idle.check = NoCheck
  BY DEF Idle, Call, Stage, Status
<1>2. \A c \in All : call[c] = Idle
  BY DEF Init
<1>3. \A k \in Checks : checks[k] = Unused
  BY DEF Init
<1>4. TypeOK
  <2>1. call \in [All -> Call] /\ \A c \in All : Named(call[c])
    BY <1>1, <1>2 DEF Init, Named, Holding, Joining
  <2>2. checks \in [Checks -> [outcome: {"unused", "open", "paid", "voided"},
                              member: BOOLEAN]]
    BY DEF Init, Unused
  <2>3. channel \in Channel /\ status \in Status /\ faults \in 0 .. MaxFaults
    BY BoundsAssumption DEF Init, Channel, Status
  <2> QED BY <2>1, <2>2, <2>3, TypesFromCalls DEF Init
<1>5. DoneIsCollected /\ MembersFollowOutcome
  BY <1>3 DEF Init, DoneIsCollected, MembersFollowOutcome, Unused
<1>6. JoinsAlone /\ \A c \in All : Sound(call[c])
  BY <1>1, <1>2 DEF JoinsAlone, Sound, Named, SawCollection, HoldsCheck, Holding, Joining
<1> QED BY <1>4, <1>5, <1>6 DEF SettleInv

(* A step of one call that writes nothing but its own record.              *)
LEMMA LocalStep ==
  ASSUME SettleInv, UNCHANGED <<order, collected, checks>>,
         ensured' \in BOOLEAN, faults' \in 0 .. MaxFaults,
         NEW c \in All, NEW q \in Call, call' = [call EXCEPT ![c] = q],
         Named(q), SawCollection(q, collected), HoldsCheck(q, checks),
         q.at \in Joining => call[c].at \in Joining /\ q.check = call[c].check
  PROVE  SettleInv'
<1>1. call \in [All -> Call] /\ \A d \in All : Sound(call[d])
  BY DEF SettleInv, TypeOK, Call
<1>2. call'[c] = q /\ \A d \in All \ {c} : call'[d] = call[d]
  BY <1>1
<1>3. ASSUME NEW d \in All PROVE Sound(call[d])'
  BY <1>1, <1>2 DEF Sound, Named, SawCollection, HoldsCheck
<1>4. call' \in [All -> Call]
  BY <1>1
<1>5. TypeOK'
  BY <1>3, <1>4 DEF SettleInv, TypeOK, order, Sound, Named, Call, Holding, Joining
<1>6. JoinsAlone'
  BY <1>1, <1>2 DEF SettleInv, JoinsAlone
<1>7. (DoneIsCollected /\ MembersFollowOutcome)'
  BY DEF SettleInv, DoneIsCollected, MembersFollowOutcome, order
<1> QED BY <1>3, <1>5, <1>6, <1>7 DEF SettleInv

(* The call ends, or goes on without a check.                              *)
LEMMA EndStep ==
  ASSUME SettleInv, UNCHANGED <<order, collected, checks>>,
         ensured' \in BOOLEAN, faults' \in 0 .. MaxFaults,
         NEW c \in All, End(c)
  PROVE  SettleInv'
<1>1. Idle \in Call /\ Named(Idle) /\ SawCollection(Idle, collected) /\ HoldsCheck(Idle, checks)
  BY DEF Idle, Call, Stage, Status, Named, SawCollection, HoldsCheck, Holding, Joining
<1>2. call' = [call EXCEPT ![c] = Idle] /\ Idle.at \notin Joining
  BY DEF End, Idle, Joining
<1> QED BY <1>1, <1>2, LocalStep

LEMMA GoStep ==
  ASSUME SettleInv, UNCHANGED <<order, collected, checks>>,
         ensured' \in BOOLEAN, faults' \in 0 .. MaxFaults,
         NEW c \in All, NEW stage \in Stage, Go(c, stage),
         call[c].at \notin Holding \cup Joining, stage \notin Holding \cup Joining,
         stage \in {"walk", "deliver", "create"} => collected,
         stage \in {"compare", "write"} /\ call[c].target = "served" => collected
  PROVE  SettleInv'
<1> DEFINE q == [call[c] EXCEPT !.at = stage]
<1>1. call[c] \in Call /\ Sound(call[c])
  BY DEF SettleInv, Sound
<1>2. q \in Call /\ q.at = stage /\ q.check = call[c].check /\ q.target = call[c].target
  BY <1>1 DEF Call
<1>3. Named(q) /\ SawCollection(q, collected) /\ HoldsCheck(q, checks)
  BY <1>1, <1>2 DEF Sound, Named, SawCollection, HoldsCheck, Holding, Joining
<1>4. call' = [call EXCEPT ![c] = q]
  BY DEF Go
<1> HIDE DEF q
<1> QED BY <1>2, <1>3, <1>4, LocalStep

-----------------------------------------------------------------------------
(* Steps that only read.                                                   *)
LEMMA ReadSteps ==
  ASSUME SettleInv, NEW c \in All,
         \/ Ask(c) \/ AssertSettled(c) \/ LoadWalk(c) \/ Load(c) \/ GuardServed(c)
         \/ Compare(c) \/ AskEligible(c) \/ AskEnsure(c) \/ Crash(c)
  PROVE  SettleInv'
<1>0. ensured \in BOOLEAN /\ faults \in 0 .. MaxFaults /\ Sound(call[c])
  BY DEF SettleInv, TypeOK
<1>1. CASE Ask(c)
  <2>1. CASE status = "served"
    <3>1. Go(c, "load") /\ UNCHANGED <<order, collected, checks, ensured, faults>>
          /\ call[c].at = "ask"
      BY <1>1, <2>1 DEF Ask, At
    <3> QED BY <3>1, <1>0, GoStep DEF Stage, Holding, Joining
  <2>2. CASE status = "cancelled"
    <3>1. End(c) /\ UNCHANGED <<order, collected, checks, ensured, faults>>
      BY <1>1, <2>2 DEF Ask
    <3> QED BY <3>1, <1>0, EndStep
  <2>3. CASE status \notin {"served", "cancelled"}
    <3> DEFINE q == [call[c] EXCEPT !.at = "assert", !.seen = status]
    <3>1. call' = [call EXCEPT ![c] = q] /\ call[c].at = "ask"
          /\ UNCHANGED <<order, collected, checks, ensured, faults>>
      BY <1>1, <2>3 DEF Ask, At
    <3>2. q \in Call /\ q.at = "assert" /\ q.check = call[c].check
      BY <1>0 DEF Sound, Call, Stage, SettleInv, TypeOK
    <3>3. Named(q) /\ SawCollection(q, collected) /\ HoldsCheck(q, checks)
      BY <1>0, <3>1, <3>2 DEF Sound, Named, SawCollection, HoldsCheck, Holding, Joining
    <3>4. q.at \notin Joining
      BY <3>2 DEF Joining
    <3> HIDE DEF q
    <3> QED BY <3>1, <3>2, <3>3, <3>4, <1>0, LocalStep
  <2> QED BY <2>1, <2>2, <2>3
<1>2. CASE AssertSettled(c)
  <2>1. CASE Complete # {} \/ collected
    <3>1. Go(c, "walk") /\ UNCHANGED <<order, collected, checks, ensured, faults>>
          /\ call[c].at = "assert"
      BY <1>2, <2>1 DEF AssertSettled, At
    <3>2. collected
      BY <2>1 DEF Complete, SettleInv, DoneIsCollected
    <3> QED BY <3>1, <3>2, <1>0, GoStep DEF Stage, Holding, Joining
  <2>2. CASE ~(Complete # {} \/ collected)
    <3>1. End(c) /\ UNCHANGED <<order, collected, checks, ensured, faults>>
      BY <1>2, <2>2 DEF AssertSettled
    <3> QED BY <3>1, <1>0, EndStep
  <2> QED BY <2>1, <2>2
<1>3. CASE LoadWalk(c)
  <2> DEFINE q == [call[c] EXCEPT !.at = "compare", !.seen = Idle.seen]
  <2>1. UNCHANGED <<order, collected, checks, ensured, faults>> /\ call[c].at = "walk"
        /\ (call' = [call EXCEPT ![c] = q] \/ End(c))
    BY <1>3 DEF LoadWalk, At
  <2>2. CASE call' = [call EXCEPT ![c] = q]
    <3>1. q \in Call /\ q.at = "compare" /\ q.check = call[c].check /\ collected
      BY <1>0, <2>1 DEF Sound, Call, Stage, Idle, Status, SawCollection
    <3>2. Named(q) /\ SawCollection(q, collected) /\ HoldsCheck(q, checks) /\ q.at \notin Joining
      BY <1>0, <2>1, <3>1 DEF Sound, Named, SawCollection, HoldsCheck, Holding, Joining
    <3> HIDE DEF q
    <3> QED BY <2>1, <2>2, <3>1, <3>2, <1>0, LocalStep
  <2>3. CASE End(c)
    BY <2>1, <2>3, <1>0, EndStep
  <2> QED BY <2>1, <2>2, <2>3
<1>4. CASE Load(c)
  <2>1. UNCHANGED <<order, collected, checks, ensured, faults>> /\ call[c].at = "load"
        /\ \/ call[c].target = "served" /\ Go(c, "guard")
           \/ call[c].target # "served" /\ Go(c, "compare")
           \/ End(c)
    BY <1>4 DEF Load, At
  <2>2. CASE call[c].target = "served" /\ Go(c, "guard")
    BY <2>1, <2>2, <1>0, GoStep DEF Stage, Holding, Joining
  <2>3. CASE call[c].target # "served" /\ Go(c, "compare")
    BY <2>1, <2>3, <1>0, GoStep DEF Stage, Holding, Joining
  <2>4. CASE End(c)
    BY <2>1, <2>4, <1>0, EndStep
  <2> QED BY <2>1, <2>2, <2>3, <2>4
<1>5. CASE GuardServed(c)
  <2>1. UNCHANGED <<order, collected, checks, ensured, faults>> /\ call[c].at = "guard"
        /\ ((collected /\ Go(c, "compare")) \/ End(c))
    BY <1>5 DEF GuardServed, Completable, At
  <2>2. CASE collected /\ Go(c, "compare")
    BY <2>1, <2>2, <1>0, GoStep DEF Stage, Holding, Joining
  <2>3. CASE End(c)
    BY <2>1, <2>3, <1>0, EndStep
  <2> QED BY <2>1, <2>2, <2>3
<1>6. CASE Compare(c)
  <2>1. UNCHANGED <<order, collected, checks, ensured, faults>> /\ call[c].at = "compare"
        /\ (Go(c, "write") \/ End(c))
    BY <1>6 DEF Compare, At
  <2>2. CASE Go(c, "write")
    <3>1. call[c].target = "served" => collected
      BY <1>0, <2>1 DEF Sound, SawCollection
    <3> QED BY <2>1, <2>2, <3>1, <1>0, GoStep DEF Stage, Holding, Joining
  <2>3. CASE End(c)
    BY <2>1, <2>3, <1>0, EndStep
  <2> QED BY <2>1, <2>2, <2>3
<1>7. CASE AskEligible(c)
  <2>1. UNCHANGED <<order, collected, checks, ensured, faults>> /\ call[c].at = "eligible"
        /\ (Go(c, "collect") \/ End(c))
    BY <1>7 DEF AskEligible, At
  <2>2. CASE Go(c, "collect")
    BY <2>1, <2>2, <1>0, GoStep DEF Stage, Holding, Joining
  <2>3. CASE End(c)
    BY <2>1, <2>3, <1>0, EndStep
  <2> QED BY <2>1, <2>2, <2>3
<1>8. CASE AskEnsure(c)
  <2>1. UNCHANGED <<order, collected, checks, ensured, faults>> /\ call[c].at = "ensure"
        /\ (Go(c, "open") \/ End(c))
    BY <1>8 DEF AskEnsure, At
  <2>2. CASE Go(c, "open")
    BY <2>1, <2>2, <1>0, GoStep DEF Stage, Holding, Joining
  <2>3. CASE End(c)
    BY <2>1, <2>3, <1>0, EndStep
  <2> QED BY <2>1, <2>2, <2>3
<1>9. CASE Crash(c)
  <2>1. End(c) /\ UNCHANGED <<order, collected, checks, ensured>>
        /\ faults' \in 0 .. MaxFaults
    BY <1>9, <1>0, BoundsAssumption DEF Crash
  <2> QED BY <2>1, <1>0, EndStep
<1> QED BY <1>1, <1>2, <1>3, <1>4, <1>5, <1>6, <1>7, <1>8, <1>9

(* Steps that find or keep a check, and write nothing but their record.    *)
LEMMA HoldSteps ==
  ASSUME SettleInv, NEW c \in All,
         AskMembership(c) \/ AskAccepted(c) \/ Deliver(c) \/ AskEnrolled(c)
  PROVE  SettleInv'
<1>0. ensured \in BOOLEAN /\ faults \in 0 .. MaxFaults /\ Sound(call[c])
      /\ collected \in BOOLEAN
  BY DEF SettleInv, TypeOK
<1>1. ASSUME NEW k \in Blocking \ Complete, NEW stage \in {"accepted", "finalize"},
             call' = [call EXCEPT ![c].at = stage, ![c].check = k],
             stage = "finalize" => collected,
             UNCHANGED <<order, collected, checks, ensured, faults>>
      PROVE  SettleInv'
  <2> DEFINE q == [call[c] EXCEPT !.at = stage, !.check = k]
  <2>1. call' = [call EXCEPT ![c] = q]
    BY <1>1
  <2>2. q \in Call /\ q.at = stage /\ q.check = k /\ k \in Checks
    BY <1>0, <1>1 DEF Sound, Call, Stage, Blocking
  <2>3. k # NoCheck /\ checks[k].outcome # "unused" /\ checks[k].member
    BY <1>1 DEF Blocking, Checks, NoCheck
  <2>4. Named(q) /\ SawCollection(q, collected) /\ HoldsCheck(q, checks) /\ q.at \notin Joining
    BY <1>1, <2>2, <2>3 DEF Named, SawCollection, HoldsCheck, Holding, Joining
  <2> HIDE DEF q
  <2> QED BY <1>0, <1>1, <2>1, <2>2, <2>4, LocalStep
<1>2. ASSUME NEW stage \in Stage, Go(c, stage),
             \/ call[c].at = "accepted" /\ stage = "void"
             \/ call[c].at = "enroll" /\ stage = "join",
             UNCHANGED <<order, collected, checks, ensured, faults>>
      PROVE  SettleInv'
  <2> DEFINE q == [call[c] EXCEPT !.at = stage]
  <2>1. call' = [call EXCEPT ![c] = q]
    BY <1>2 DEF Go
  <2>2. q \in Call /\ q.at = stage /\ q.check = call[c].check
    BY <1>0 DEF Sound, Call
  <2>3. Named(q) /\ SawCollection(q, collected) /\ HoldsCheck(q, checks)
    BY <1>0, <1>2, <2>2 DEF Sound, Named, SawCollection, HoldsCheck, Holding, Joining
  <2>4. q.at \in Joining => call[c].at \in Joining /\ q.check = call[c].check
    BY <1>2, <2>2 DEF Joining
  <2> HIDE DEF q
  <2> QED BY <1>0, <1>2, <2>1, <2>2, <2>3, <2>4, LocalStep
<1>3. CASE AskMembership(c)
  BY <1>0, <1>1, <1>3, EndStep DEF AskMembership
<1>4. CASE AskAccepted(c)
  BY <1>0, <1>2, <1>4, EndStep DEF AskAccepted, At, Stage
<1>5. CASE Deliver(c)
  <2>1. call[c].at = "deliver" /\ collected
        /\ UNCHANGED <<order, collected, checks, ensured, faults>>
    BY <1>0, <1>5 DEF Deliver, At, Sound, SawCollection
  <2>2. CASE Go(c, "create")
    BY <1>0, <2>1, <2>2, GoStep DEF Stage, Holding, Joining
  <2>3. CASE End(c)
    BY <1>0, <2>1, <2>3, EndStep
  <2> QED BY <1>1, <1>5, <2>1, <2>2, <2>3 DEF Deliver
<1>6. CASE AskEnrolled(c)
  BY <1>0, <1>2, <1>6, EndStep DEF AskEnrolled, At, Stage
<1> QED BY <1>3, <1>4, <1>5, <1>6

-----------------------------------------------------------------------------
(* A step that writes one check, and the record of its call.               *)
CheckRecord == [outcome: {"unused", "open", "paid", "voided"}, member: BOOLEAN]

LEMMA CheckStep ==
  ASSUME SettleInv, UNCHANGED <<order, collected, ensured, faults>>,
         NEW c \in All, NEW q \in Call, call' = [call EXCEPT ![c] = q],
         NEW k \in Checks, NEW r \in CheckRecord, checks' = [checks EXCEPT ![k] = r],
         r.outcome = "paid" => r.member /\ collected,
         r.outcome = "voided" => ~r.member,
         Named(q), SawCollection(q, collected), HoldsCheck(q, checks'),
         \A d \in All \ {c} : HoldsCheck(call[d], checks'),
         \A d \in All \ {c} :
           q.at \in Joining /\ call[d].at \in Joining => call[d].check # q.check
  PROVE  SettleInv'
<1>1. /\ call \in [All -> Call] /\ \A d \in All : Sound(call[d])
      /\ checks \in [Checks -> CheckRecord]
  BY DEF SettleInv, TypeOK, Call, CheckRecord
<1>2. /\ call'[c] = q /\ \A d \in All \ {c} : call'[d] = call[d]
      /\ checks'[k] = r /\ \A j \in Checks \ {k} : checks'[j] = checks[j]
  BY <1>1
<1>3. ASSUME NEW d \in All PROVE Sound(call[d])'
  <2>1. CASE d = c
    BY <1>2, <2>1 DEF Sound, Named, SawCollection
  <2>2. CASE d # c
    BY <1>1, <1>2, <2>2 DEF Sound, Named, SawCollection
  <2> QED BY <2>1, <2>2
<1>4. call' \in [All -> Call] /\ checks' \in [Checks -> CheckRecord]
  BY <1>1
<1>5. TypeOK'
  BY <1>3, <1>4
     DEF SettleInv, TypeOK, order, Sound, Named, Call, CheckRecord, Holding, Joining
<1>6. JoinsAlone'
  BY <1>1, <1>2 DEF SettleInv, JoinsAlone
<1>7. DoneIsCollected'
  BY <1>2 DEF SettleInv, DoneIsCollected, order
<1>8. MembersFollowOutcome'
  BY <1>2 DEF SettleInv, MembersFollowOutcome
<1> QED BY <1>3, <1>5, <1>6, <1>7, <1>8 DEF SettleInv

(* A check that is taken from the unused ones is held by nobody.           *)
LEMMA FreshIsFree ==
  ASSUME SettleInv, NEW k \in Checks, Fresh(k), NEW d \in All,
         call[d].at \in Holding \cup Joining
  PROVE  call[d].check # k
BY DEF SettleInv, Sound, HoldsCheck, Fresh, Unused, NewCheck, Holding, Joining

LEMMA WriteSteps ==
  ASSUME SettleInv, NEW c \in All,
         Void(c) \/ Create(c) \/ Finalize(c) \/ OpenCheck(c) \/ Join(c)
  PROVE  SettleInv'
<1>0. /\ ensured \in BOOLEAN /\ faults \in 0 .. MaxFaults /\ collected \in BOOLEAN
      /\ checks \in [Checks -> CheckRecord]
      /\ \A d \in All : Sound(call[d])
  BY DEF SettleInv, TypeOK, CheckRecord
<1>1. Idle \in Call /\ Idle.at = "idle" /\ Idle.check = NoCheck
  BY DEF Idle, Call, Stage, Status
<1>2. CASE Void(c)
  <2>1. call[c].check \in Checks /\ call[c].at = "void"
        /\ UNCHANGED <<order, collected, ensured, faults>>
    BY <1>0, <1>2 DEF Void, At, Sound, Named, Call, Holding
  <2>2. CASE ~CanFinalize(call[c].check)
    BY <1>0, <1>2, <2>1, <2>2, EndStep DEF Void
  <2>3. CASE CanFinalize(call[c].check)
    <3>1. PICK k \in Checks : k = call[c].check
      BY <2>1
    <3>2. PICK q : q = [Idle EXCEPT !.at = "load", !.target = "cancelled"]
      OBVIOUS
    <3>3. PICK r : r = [outcome |-> "voided", member |-> FALSE]
      OBVIOUS
    <3>4. checks' = [checks EXCEPT ![k] = r] /\ call' = [call EXCEPT ![c] = q]
      BY <1>2, <2>3, <3>1, <3>2, <3>3 DEF Void, Voided
    <3>5. r \in CheckRecord /\ r.outcome = "voided" /\ r.member = FALSE
      BY <3>3 DEF CheckRecord
    <3>6. q \in Call /\ q.at = "load" /\ q.check = NoCheck
      BY <3>2, <1>1 DEF Idle, Call, Stage, Status
    <3>7. Named(q) /\ SawCollection(q, collected) /\ HoldsCheck(q, checks')
          /\ q.at \notin Joining
      BY <3>6 DEF Named, SawCollection, HoldsCheck, Holding, Joining
    <3>8. ASSUME NEW d \in All \ {c} PROVE HoldsCheck(call[d], checks')
      <4>1. call[d].at \in Joining => call[d].check # k
        BY <1>0, <2>1, <3>1 DEF Sound, HoldsCheck, CanFinalize, NewCheck, Holding, Joining
      <4> QED BY <1>0, <3>4, <3>5, <4>1 DEF Sound, HoldsCheck, Named, Call, Holding, Joining
    <3> QED BY <2>1, <3>4, <3>5, <3>6, <3>7, <3>8, CheckStep
  <2> QED BY <2>2, <2>3
<1>3. CASE Create(c)
  <2>1. call[c].at = "create" /\ collected /\ UNCHANGED <<order, collected, ensured, faults>>
    BY <1>0, <1>3 DEF Create, At, Sound, SawCollection
  <2>2. PICK k \in Checks :
          /\ Fresh(k) /\ checks' = [checks EXCEPT ![k] = NewCheck(TRUE)]
          /\ call' = [call EXCEPT ![c].at = "finalize", ![c].check = k]
    BY <1>3 DEF Create
  <2>3. PICK q : q = [call[c] EXCEPT !.at = "finalize", !.check = k]
    OBVIOUS
  <2>4. q \in Call /\ q.at = "finalize" /\ q.check = k /\ call' = [call EXCEPT ![c] = q]
    BY <1>0, <2>2, <2>3 DEF Sound, Call, Stage
  <2>5. PICK r : r = NewCheck(TRUE)
    OBVIOUS
  <2>6. r \in CheckRecord /\ r.outcome = "open" /\ r.member = TRUE /\ checks'[k] = r
        /\ k # NoCheck
    BY <1>0, <2>2, <2>5 DEF NewCheck, CheckRecord, Checks, NoCheck
  <2>7. Named(q) /\ SawCollection(q, collected) /\ HoldsCheck(q, checks')
        /\ q.at \notin Joining
    BY <2>1, <2>4, <2>6 DEF Named, SawCollection, HoldsCheck, Holding, Joining
  <2>8. ASSUME NEW d \in All \ {c} PROVE HoldsCheck(call[d], checks')
    BY <1>0, <2>2, FreshIsFree DEF Sound, HoldsCheck, Named, Call, Holding, Joining
  <2> QED BY <2>1, <2>2, <2>4, <2>5, <2>6, <2>7, <2>8, CheckStep
<1>4. CASE Finalize(c)
  <2>1. /\ call[c].check \in Checks /\ call[c].at = "finalize" /\ collected /\ End(c)
        /\ UNCHANGED <<order, collected, ensured, faults>>
    BY <1>0, <1>4 DEF Finalize, At, Sound, Named, SawCollection, Call, Holding
  <2>2. CASE UNCHANGED checks
    BY <1>0, <2>1, <2>2, EndStep
  <2>3. CASE /\ CanFinalize(call[c].check)
             /\ checks' = [checks EXCEPT ![call[c].check].outcome = "paid"]
    <3>1. PICK k \in Checks : k = call[c].check
      BY <2>1
    <3>2. PICK r : r = [checks[k] EXCEPT !.outcome = "paid"]
      OBVIOUS
    <3>3. checks' = [checks EXCEPT ![k] = r] /\ call' = [call EXCEPT ![c] = Idle]
      BY <2>1, <2>3, <3>1, <3>2 DEF End
    <3>4. checks[k].member
      BY <1>0, <2>1, <2>3, <3>1 DEF Sound, HoldsCheck, CanFinalize, Holding
    <3>5. r \in CheckRecord /\ r.outcome = "paid" /\ r.member
      BY <1>0, <3>2, <3>4 DEF CheckRecord
    <3>6. Named(Idle) /\ SawCollection(Idle, collected) /\ HoldsCheck(Idle, checks')
          /\ Idle.at \notin Joining
      BY <1>1 DEF Named, SawCollection, HoldsCheck, Holding, Joining
    <3>7. ASSUME NEW d \in All \ {c} PROVE HoldsCheck(call[d], checks')
      <4>1. call[d].at \in Joining => call[d].check # k
        BY <1>0, <3>4 DEF Sound, HoldsCheck, NewCheck, Joining
      <4> QED BY <1>0, <3>3, <3>5, <4>1 DEF Sound, HoldsCheck, Named, Call, Holding, Joining
    <3> QED BY <1>1, <2>1, <3>3, <3>5, <3>6, <3>7, CheckStep
  <2> QED BY <1>4, <2>2, <2>3 DEF Finalize
<1>5. CASE OpenCheck(c)
  <2>1. call[c].at = "open" /\ UNCHANGED <<order, collected, ensured, faults>>
    BY <1>5 DEF OpenCheck, At
  <2>2. PICK k \in Checks :
          /\ Fresh(k) /\ checks' = [checks EXCEPT ![k] = NewCheck(FALSE)]
          /\ call' = [call EXCEPT ![c].at = "enroll", ![c].check = k]
    BY <1>5 DEF OpenCheck
  <2>3. PICK q : q = [call[c] EXCEPT !.at = "enroll", !.check = k]
    OBVIOUS
  <2>4. q \in Call /\ q.at = "enroll" /\ q.check = k /\ call' = [call EXCEPT ![c] = q]
    BY <1>0, <2>2, <2>3 DEF Sound, Call, Stage
  <2>5. PICK r : r = NewCheck(FALSE)
    OBVIOUS
  <2>6. r \in CheckRecord /\ r.outcome = "open" /\ checks'[k] = r /\ k # NoCheck
    BY <1>0, <2>2, <2>5 DEF NewCheck, CheckRecord, Checks, NoCheck
  <2>7. Named(q) /\ SawCollection(q, collected) /\ HoldsCheck(q, checks')
    BY <2>4, <2>5, <2>6 DEF Named, SawCollection, HoldsCheck, Holding, Joining
  <2>8. ASSUME NEW d \in All \ {c} PROVE HoldsCheck(call[d], checks')
    BY <1>0, <2>2, FreshIsFree DEF Sound, HoldsCheck, Named, Call, Holding, Joining
  <2>9. ASSUME NEW d \in All \ {c}, call[d].at \in Joining PROVE call[d].check # q.check
    BY <2>2, <2>4, <2>9, FreshIsFree
  <2> QED BY <2>1, <2>2, <2>4, <2>5, <2>6, <2>7, <2>8, <2>9, CheckStep
<1>6. CASE Join(c)
  <2>1. /\ call[c].check \in Checks /\ call[c].at = "join" /\ End(c)
        /\ UNCHANGED <<order, collected, ensured, faults>>
    BY <1>0, <1>6 DEF Join, At, Sound, Named, Call, Joining
  <2>2. PICK k \in Checks : k = call[c].check
    BY <2>1
  <2>3. PICK r : r = [checks[k] EXCEPT !.member = TRUE]
    OBVIOUS
  <2>4. checks[k] = NewCheck(FALSE)
    BY <1>0, <2>1, <2>2 DEF Sound, HoldsCheck, Joining
  <2>5. checks' = [checks EXCEPT ![k] = r] /\ call' = [call EXCEPT ![c] = Idle]
    BY <1>6, <2>1, <2>2, <2>3 DEF Join, End
  <2>6. r \in CheckRecord /\ r.outcome = "open" /\ r.member = TRUE
    <3>1. r \in CheckRecord /\ r.outcome = checks[k].outcome /\ r.member = TRUE
      BY <1>0, <2>3 DEF CheckRecord
    <3> QED BY <2>4, <3>1 DEF NewCheck
  <2>7. Named(Idle) /\ SawCollection(Idle, collected) /\ HoldsCheck(Idle, checks')
        /\ Idle.at \notin Joining
    BY <1>1 DEF Named, SawCollection, HoldsCheck, Holding, Joining
  <2>8. ASSUME NEW d \in All \ {c} PROVE HoldsCheck(call[d], checks')
    <3>1. call[d].at \in Joining => call[d].check # k
      BY <2>1, <2>2 DEF SettleInv, JoinsAlone, Joining
    <3> QED BY <1>0, <2>5, <2>6, <3>1 DEF Sound, HoldsCheck, Named, Call, Holding, Joining
  <2> QED BY <1>1, <2>1, <2>5, <2>6, <2>7, <2>8, CheckStep
<1> QED BY <1>2, <1>3, <1>4, <1>5, <1>6

-----------------------------------------------------------------------------
(* The payment is collected, or the row of the order written.              *)
LEMMA CollectStep ==
  ASSUME SettleInv, NEW c \in All, Collect(c)
  PROVE  SettleInv'
<1>1. /\ call \in [All -> Call] /\ \A d \in All : Sound(call[d])
      /\ UNCHANGED <<order, checks, ensured, faults>> /\ collected' = TRUE
      /\ call[c].at = "collect" /\ call' = [call EXCEPT ![c].at = "deliver"]
  BY DEF SettleInv, TypeOK, Call, Collect, Go, At
<1>2. PICK q : q = [call[c] EXCEPT !.at = "deliver"]
  OBVIOUS
<1>3. /\ q \in Call /\ q.at = "deliver" /\ q.check = call[c].check
      /\ call' = [call EXCEPT ![c] = q]
  BY <1>1, <1>2 DEF Call, Stage
<1>4. call' \in [All -> Call] /\ call'[c] = q /\ \A d \in All \ {c} : call'[d] = call[d]
  BY <1>1, <1>3
<1>5. Named(q) /\ SawCollection(q, TRUE) /\ HoldsCheck(q, checks) /\ q.at \notin Joining
  BY <1>1, <1>3 DEF Sound, Named, SawCollection, HoldsCheck, Holding, Joining
<1>6. ASSUME NEW d \in All PROVE Sound(call[d])'
  BY <1>1, <1>3, <1>4, <1>5 DEF Sound, Named, SawCollection, HoldsCheck
<1>7. TypeOK'
  BY <1>1, <1>4, <1>6 DEF SettleInv, TypeOK, order, Sound, Named, Call, Holding, Joining
<1>8. JoinsAlone'
  BY <1>4, <1>5 DEF SettleInv, JoinsAlone
<1>9. (DoneIsCollected /\ MembersFollowOutcome)'
  BY <1>1 DEF SettleInv, DoneIsCollected, MembersFollowOutcome
<1> QED BY <1>6, <1>7, <1>8, <1>9 DEF SettleInv

LEMMA WriteStep ==
  ASSUME SettleInv, NEW c \in All, Write(c)
  PROVE  SettleInv'
<1>1. /\ call \in [All -> Call] /\ \A d \in All : Sound(call[d])
      /\ UNCHANGED <<channel, collected, checks, ensured, faults>>
      /\ call[c].at = "write" /\ status' = call[c].target
  BY DEF SettleInv, TypeOK, Call, Write, At
<1>2. PICK stale : call' = [d \in All |-> IF d = c THEN Idle
                                     ELSE IF d \in stale
                                     THEN [call[d] EXCEPT !.fresh = FALSE]
                                     ELSE call[d]]
  BY DEF Write
<1>3. /\ Idle \in Call /\ Idle.at = "idle" /\ Idle.check = NoCheck
  BY DEF Idle, Call, Stage, Status
<1>4. ASSUME NEW d \in All
      PROVE  /\ call'[d] \in Call
             /\ d = c => call'[d] = Idle
             /\ d # c => /\ call'[d].at = call[d].at /\ call'[d].check = call[d].check
                         /\ call'[d].target = call[d].target
  BY <1>1, <1>2, <1>3 DEF Call
<1>5. ASSUME NEW d \in All PROVE Sound(call[d])'
  <2>1. CASE d = c
    BY <1>3, <1>4, <2>1 DEF Sound, Named, SawCollection, HoldsCheck, Holding, Joining
  <2>2. CASE d # c
    BY <1>1, <1>4, <2>2 DEF Sound, Named, SawCollection, HoldsCheck
  <2> QED BY <2>1, <2>2
<1>6. call' \in [All -> Call]
  BY <1>2, <1>4
<1>7. TypeOK'
  BY <1>1, <1>5, <1>6 DEF SettleInv, TypeOK, Sound, Named, Call, Holding, Joining
<1>8. JoinsAlone'
  BY <1>3, <1>4 DEF SettleInv, JoinsAlone, Joining
<1>9. DoneIsCollected'
  BY <1>1 DEF SettleInv, DoneIsCollected, Sound, SawCollection
<1>10. MembersFollowOutcome'
  BY <1>1 DEF SettleInv, MembersFollowOutcome
<1> QED BY <1>5, <1>7, <1>8, <1>9, <1>10 DEF SettleInv

(* A request is made, or a recovery cycle finds the order.                 *)
LEMMA BeginSteps ==
  ASSUME SettleInv, NEW c \in All, Request(c) \/ Discover(c)
  PROVE  SettleInv'
<1>0. /\ ensured \in BOOLEAN /\ faults \in 0 .. MaxFaults /\ Sound(call[c])
  BY DEF SettleInv, TypeOK
<1>1. ASSUME NEW target \in Status, RequestStatus(c, target)
      PROVE  SettleInv'
  <2>1. PICK stage \in {"ask", "load"} :
          call' = [call EXCEPT ![c].target = target, ![c].at = stage]
    BY <1>1 DEF RequestStatus
  <2>2. PICK q : q = [call[c] EXCEPT !.target = target, !.at = stage]
    OBVIOUS
  <2>3. call[c].at = "idle" /\ UNCHANGED <<order, collected, checks, ensured, faults>>
    BY <1>1 DEF RequestStatus, At
  <2>4. /\ q \in Call /\ q.at = stage /\ q.check = call[c].check
        /\ call' = [call EXCEPT ![c] = q]
    BY <1>0, <2>1, <2>2 DEF Sound, Call, Stage
  <2>5. Named(q) /\ SawCollection(q, collected) /\ HoldsCheck(q, checks)
        /\ q.at \notin Joining
    BY <1>0, <2>3, <2>4 DEF Sound, Named, SawCollection, HoldsCheck, Holding, Joining
  <2> QED BY <1>0, <2>3, <2>4, <2>5, LocalStep
<1>2. CASE RequestCancel(c)
  BY <1>0, <1>2, GoStep DEF RequestCancel, Start, At, Stage, Holding, Joining
<1>3. CASE RequestPayment(c)
  BY <1>0, <1>3, GoStep DEF RequestPayment, Start, At, Stage, Holding, Joining
<1>4. CASE RequestEnsure(c)
  BY <1>0, <1>4, GoStep DEF RequestEnsure, Start, At, Stage, Holding, Joining
<1>5. CASE Discover(c)
  BY <1>0, <1>5, GoStep DEF Discover, AwaitsSettlement, Start, At, Stage, Holding, Joining
<1> QED BY <1>1, <1>2, <1>3, <1>4, <1>5 DEF Request

LEMMA SettleStep == SettleInv /\ [Next]_vars => SettleInv'
<1> SUFFICES ASSUME SettleInv, [Next]_vars PROVE SettleInv'
  OBVIOUS
<1>1. ASSUME NEW c \in All, Step(c) PROVE SettleInv'
  BY <1>1, ReadSteps, HoldSteps, WriteSteps, CollectStep, WriteStep DEF Step
<1>2. ASSUME NEW c \in All, Request(c) \/ Discover(c) PROVE SettleInv'
  BY <1>2, BeginSteps
<1>3. ASSUME NEW c \in All, Crash(c) PROVE SettleInv'
  BY <1>3, ReadSteps
<1>4. CASE UNCHANGED vars
  BY <1>4 DEF vars, SettleInv, TypeOK, DoneIsCollected, MembersFollowOutcome, JoinsAlone,
       Sound, Named, SawCollection, HoldsCheck
<1> QED BY <1>1, <1>2, <1>3, <1>4 DEF Next, All

(* The invariant holds in every state of every run.                        *)
THEOREM SettleInvariant == Spec => []SettleInv
BY SettleInit, SettleStep, PTL DEF Spec

(* Every variable keeps its type, and a call names a check exactly between *)
(* finding or opening it and its last write on it.                         *)
THEOREM SettlementTypeCorrect == Spec => []TypeOK
BY SettleInvariant, PTL DEF SettleInv

(* For any number of callers and sweepers: an order is served, and a check *)
(* paid, only for collected money.                                         *)
THEOREM SettlementDoneIsCollected == Spec => []DoneIsCollected
BY SettleInvariant, PTL DEF SettleInv

(* No race leaves a voided check with the order on it, nor a paid one      *)
(* without it.                                                             *)
THEOREM SettlementMembersFollow == Spec => []MembersFollowOutcome
BY SettleInvariant, PTL DEF SettleInv

(* A check that is paid or voided is never written again, though any       *)
(* number of calls may still hold its id.                                  *)
THEOREM SettlementOutcomeFinal == Spec => OutcomeIsFinal
<1> DEFINE Final == \A k \in Checks :
             checks[k].outcome \in {"paid", "voided"} => checks'[k] = checks[k]
<1>1. SettleInv /\ [Next]_vars => [Final]_vars
  <2> SUFFICES ASSUME SettleInv, [Next]_vars, NEW k \in Checks,
                      checks[k].outcome \in {"paid", "voided"}
               PROVE  checks'[k] = checks[k]
    OBVIOUS
  <2>0. checks \in [Checks -> CheckRecord]
    BY DEF SettleInv, TypeOK, CheckRecord
  <2>1. ASSUME NEW c \in All, Step(c) PROVE checks'[k] = checks[k]
    <3>1. CASE Void(c)
      BY <2>0, <3>1 DEF Void, CanFinalize, Voided
    <3>2. CASE Finalize(c)
      BY <2>0, <3>2 DEF Finalize, CanFinalize
    <3>3. CASE Create(c) \/ OpenCheck(c)
      <4>1. PICK j \in Checks, m \in BOOLEAN :
              checks[j] = Unused /\ checks' = [checks EXCEPT ![j] = NewCheck(m)]
        BY <3>3 DEF Create, OpenCheck, Fresh
      <4>2. j # k
        BY <4>1 DEF Unused
      <4> QED BY <2>0, <4>1, <4>2
    <3>4. CASE Join(c)
      <4>1. checks[call[c].check] = NewCheck(FALSE)
        BY <3>4 DEF Join, At, SettleInv, Sound, HoldsCheck, Joining
      <4> QED BY <2>0, <3>4, <4>1 DEF Join, NewCheck
    <3>5. CASE Ask(c) \/ AssertSettled(c) \/ LoadWalk(c) \/ Load(c) \/ GuardServed(c)
               \/ Compare(c) \/ Write(c) \/ AskMembership(c) \/ AskAccepted(c)
               \/ AskEligible(c) \/ Collect(c) \/ Deliver(c) \/ AskEnsure(c) \/ AskEnrolled(c)
      BY <3>5 DEF Ask, AssertSettled, LoadWalk, Load, GuardServed, Compare, Write,
           AskMembership, AskAccepted, AskEligible, Collect, Deliver, AskEnsure, AskEnrolled
    <3> QED BY <2>1, <3>1, <3>2, <3>3, <3>4, <3>5 DEF Step
  <2>2. ASSUME NEW c \in All, Request(c) \/ Discover(c) \/ Crash(c)
        PROVE  checks'[k] = checks[k]
    BY <2>2 DEF Request, RequestStatus, RequestCancel, RequestPayment, RequestEnsure,
         Discover, Crash
  <2>3. CASE UNCHANGED vars
    BY <2>3 DEF vars
  <2> QED BY <2>1, <2>2, <2>3 DEF Next, All
<1> QED BY <1>1, SettleInvariant, PTL DEF Spec, OutcomeIsFinal
=============================================================================

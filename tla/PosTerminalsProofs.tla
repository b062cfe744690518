-------------------------- MODULE PosTerminalsProofs --------------------------
(***************************************************************************)
(* However many requests there are and however they overlap, a restaurant  *)
(* provisions no more terminals than the plan has slots, but for one for   *)
(* every activation that wrote after its terminal had given up its slot.   *)
(***************************************************************************)
EXTENDS PosTerminals, FiniteSetTheorems, TLAPS

Slots(rows) == {k \in Codes : rows[k] \in ProvisionedLifecycle}
StartFits == Cardinality(Slots(Start)) <= Cap

(* What a request that is under way is doing.                              *)
Shaped(q) ==
  /\ q.at = "idle" => q.op = "none"
  /\ q.at # "idle" => q.op \in {"register", "activate", "deactivate", "replace"}
  /\ q.op \in {"activate", "deactivate", "replace"} => q.code \in Codes
  /\ q.at = "update" => q.op \in {"activate", "deactivate"} /\ q.delta = 0
  /\ q.at \in {"lock"} \cup Locked => q.op # "deactivate" /\ (q.op # "replace" => q.delta = 1)
  /\ q.at = "create" => q.op # "replace"
  /\ q.at \in {"recheck", "commit"} => q.op = "replace"

(* One holder of the occupancy lock.                                       *)
Excluded ==
  \A r, s \in Requests : r # s /\ req[r].at \in Locked => req[s].at \notin Locked

(* What a request may count on at its next round trip, after n late        *)
(* activations.                                                            *)
Room(q, rows, n) ==
  /\ q.at \in {"create", "recheck", "commit"} /\ q.delta = 1 =>
       Cardinality(Slots(rows)) + 1 <= Cap + n
  /\ q.at = "commit" /\ q.delta = 0 => Cardinality(Slots(rows) \ {q.code}) + 1 <= Cap + n

SlotInv ==
  /\ TypeOK /\ WithinCap /\ Excluded
  /\ \A r \in Requests : Shaped(req[r]) /\ Room(req[r], lifecycle, late)

(* Slots are counted in Nat, and fewer are taken when rows give theirs up. *)
LEMMA SlotsAreCounted ==
  ASSUME NEW old, NEW new, NEW k
  PROVE  /\ IsFiniteSet(Slots(old)) /\ Cardinality(Slots(old)) \in Nat
         /\ Cardinality(Slots(old) \ {k}) \in Nat
         /\ k \in Slots(old) => Cardinality(Slots(old) \ {k}) + 1 = Cardinality(Slots(old))
         /\ Slots(new) \subseteq Slots(old) =>
              /\ Cardinality(Slots(new)) <= Cardinality(Slots(old))
              /\ Cardinality(Slots(new) \ {k}) <= Cardinality(Slots(old) \ {k})
         /\ Slots(new) \subseteq (Slots(old) \ {k}) \cup Slots(old) =>
              Cardinality(Slots(new)) <= Cardinality(Slots(old))
<1>1. /\ IsFiniteSet(Codes) /\ Slots(old) \subseteq Codes /\ Slots(old) \ {k} \subseteq Codes
  BY CodesAssumption DEF Slots
<1>2. IsFiniteSet(Slots(old)) /\ IsFiniteSet(Slots(old) \ {k})
  BY <1>1, FS_Subset
<1>3. Cardinality(Slots(old)) \in Nat /\ Cardinality(Slots(old) \ {k}) \in Nat
  BY <1>2, FS_CardinalityType
<1>4. k \in Slots(old) => Cardinality(Slots(old) \ {k}) + 1 = Cardinality(Slots(old))
  BY <1>2, <1>3, FS_RemoveElement
<1>5. Slots(new) \subseteq Slots(old) =>
        /\ Cardinality(Slots(new)) <= Cardinality(Slots(old))
        /\ Cardinality(Slots(new) \ {k}) <= Cardinality(Slots(old) \ {k})
  <2> SUFFICES ASSUME Slots(new) \subseteq Slots(old)
               PROVE  /\ Cardinality(Slots(new)) <= Cardinality(Slots(old))
                      /\ Cardinality(Slots(new) \ {k}) <= Cardinality(Slots(old) \ {k})
    OBVIOUS
  <2>1. Slots(new) \ {k} \subseteq Slots(old) \ {k}
    OBVIOUS
  <2> QED BY <1>2, <2>1, FS_Subset
<1> QED BY <1>2, <1>3, <1>4, <1>5

(* One row more takes one slot more at most.                               *)
LEMMA OneMoreSlot ==
  ASSUME NEW S, IsFiniteSet(S), NEW k, NEW new, Slots(new) \subseteq S \cup {k}
  PROVE  /\ Cardinality(S) \in Nat /\ Cardinality(Slots(new)) \in Nat
         /\ Cardinality(Slots(new)) <= Cardinality(S) + 1
<1>1. /\ IsFiniteSet(S \cup {k}) /\ Cardinality(S) \in Nat
      /\ Cardinality(S \cup {k}) <= Cardinality(S) + 1
  BY FS_AddElement, FS_CardinalityType
<1>2. IsFiniteSet(Slots(new)) /\ Cardinality(Slots(new)) <= Cardinality(S \cup {k})
  BY <1>1, FS_Subset
<1> QED BY <1>1, <1>2, FS_CardinalityType

LEMMA SlotsGrowByOne ==
  ASSUME NEW old, NEW new, NEW c, \E k : Slots(new) \subseteq Slots(old) \cup {k}
  PROVE  /\ Cardinality(Slots(new)) <= Cardinality(Slots(old)) + 1
         /\ Cardinality(Slots(new) \ {c}) <= Cardinality(Slots(old) \ {c}) + 1
<1>1. PICK k : Slots(new) \subseteq Slots(old) \cup {k}
  OBVIOUS
<1>2. IsFiniteSet(Slots(old)) /\ IsFiniteSet(Slots(old) \ {c})
  BY SlotsAreCounted, FS_Subset
<1>3. Cardinality(Slots(new)) <= Cardinality(Slots(old)) + 1
  BY <1>1, <1>2, OneMoreSlot
<1>4. /\ Slots(new) \ {c} \subseteq (Slots(old) \ {c}) \cup {k}
      /\ IsFiniteSet((Slots(old) \ {c}) \cup {k})
      /\ Cardinality((Slots(old) \ {c}) \cup {k}) <= Cardinality(Slots(old) \ {c}) + 1
  <2> DEFINE S == Slots(old) \ {c}
  <2>1. Slots(new) \ {c} \subseteq S \cup {k}
    BY <1>1
  <2>2. IsFiniteSet(S) /\ Cardinality(S) \in Nat
    BY <1>2, FS_CardinalityType
  <2> HIDE DEF S
  <2>3. IsFiniteSet(S \cup {k}) /\ Cardinality(S \cup {k}) <= Cardinality(S) + 1
    BY <2>2, FS_AddElement
  <2> QED BY <2>1, <2>3 DEF S
<1>5. Cardinality(Slots(new) \ {c}) <= Cardinality((Slots(old) \ {c}) \cup {k})
  BY <1>4, FS_Subset
<1>6. /\ Cardinality(Slots(old) \ {c}) \in Nat /\ Cardinality(Slots(new) \ {c}) \in Nat
      /\ Cardinality((Slots(old) \ {c}) \cup {k}) \in Nat
  BY <1>4, SlotsAreCounted, FS_CardinalityType
<1> QED BY <1>3, <1>4, <1>5, <1>6

-----------------------------------------------------------------------------
(* What Go, Done and Send leave of a request.                              *)
LEMMA Moves ==
  ASSUME TypeOK, NEW r \in Requests, NEW q \in Request, req' = [req EXCEPT ![r] = q]
  PROVE  /\ req' \in [Requests -> Request] /\ req'[r] = q
         /\ \A p \in Requests \ {r} : req'[p] = req[p]
  BY DEF TypeOK

(* A request that goes on keeps its command.                               *)
LEMMA Goes ==
  ASSUME TypeOK, NEW r \in Requests, NEW stage \in Stage, Go(r, stage)
  PROVE  /\ req' \in [Requests -> Request]
         /\ \A p \in Requests \ {r} : req'[p] = req[p]
         /\ req'[r].at = stage /\ req'[r].op = req[r].op
         /\ req'[r].code = req[r].code /\ req'[r].delta = req[r].delta
<1> DEFINE q == [req[r] EXCEPT !.at = stage]
<1>1. q \in Request /\ q.at = stage /\ q.op = req[r].op
      /\ q.code = req[r].code /\ q.delta = req[r].delta
  BY DEF TypeOK, Request
<1>2. req' = [req EXCEPT ![r] = q]
  BY DEF Go
<1> HIDE DEF q
<1> QED BY <1>1, <1>2, Moves

(* A request that ends has none.                                           *)
LEMMA Ends ==
  ASSUME TypeOK, NEW r \in Requests, Done(r)
  PROVE  /\ req' \in [Requests -> Request]
         /\ \A p \in Requests \ {r} : req'[p] = req[p]
         /\ req'[r].at = "idle" /\ req'[r].op = "none"
<1>1. Idle \in Request /\ Idle.at = "idle" /\ Idle.op = "none"
  BY DEF Idle, Request, Stage
<1> QED BY <1>1, Moves DEF Done

(* A request sent on by its read knows what it will take.                  *)
LEMMA Sends ==
  ASSUME TypeOK, NEW r \in Requests, NEW stage \in Stage, NEW now, Send(r, stage, now)
  PROVE  /\ req' \in [Requests -> Request]
         /\ \A p \in Requests \ {r} : req'[p] = req[p]
         /\ req'[r].at = stage /\ req'[r].op = req[r].op
         /\ req'[r].code = req[r].code /\ req'[r].delta = Delta(now)
<1> DEFINE q == [req[r] EXCEPT !.at = stage, !.delta = Delta(now)]
<1>1. q \in Request /\ q.at = stage /\ q.op = req[r].op
      /\ q.code = req[r].code /\ q.delta = Delta(now)
  <2>1. req[r] \in Request /\ Delta(now) \in 0..1
    BY DEF TypeOK, Delta
  <2> QED BY <2>1 DEF Request
<1>2. req' = [req EXCEPT ![r] = q]
  BY DEF Send, TypeOK
<1> HIDE DEF q
<1> QED BY <1>1, <1>2, Moves

(* A request that ends leaves nothing to keep.                             *)
LEMMA EndIsShaped ==
  ASSUME TypeOK, NEW q \in Request, q.at = "idle", q.op = "none", NEW rows, NEW n
  PROVE  Shaped(q) /\ Room(q, rows, n)
  BY DEF Shaped, Room, Locked

-----------------------------------------------------------------------------
(* The request that steps: what it is doing afterwards, and that it had    *)
(* the right to do it next to the others.                                  *)
Admitted(r) ==
  /\ req' \in [Requests -> Request]
  /\ \A p \in Requests \ {r} : req'[p] = req[p]
  /\ Shaped(req'[r])
  /\ req'[r].at \in Locked => \A p \in Requests \ {r} : req[p].at \notin Locked

LEMMA BeginAdmitted ==
  ASSUME SlotInv, NEW r \in Requests, NEW c \in Command, Begin(r, c)
  PROVE  Admitted(r) /\ Room(req'[r], lifecycle', late')
<1> DEFINE q == [Idle EXCEPT !.at = "read", !.op = c.op, !.code = c.code]
<1>1. /\ c.op \in Ops /\ c.op \in {"register", "activate", "deactivate", "replace"}
      /\ c.code \in Codes \cup {NoCode}
      /\ c.op \in {"activate", "deactivate", "replace"} => c.code \in Codes
  BY DEF Command
<1>2. /\ q \in Request /\ q.at = "read" /\ q.op = c.op /\ q.code = c.code
  <2>1. Idle \in Request
    BY DEF Request, Idle, Stage
  <2> QED BY <1>1, <2>1 DEF Request, Stage
<1>3. req' = [req EXCEPT ![r] = q]
  BY DEF Begin
<1> HIDE DEF q
<1>4. /\ req' \in [Requests -> Request] /\ req'[r] = q
      /\ \A p \in Requests \ {r} : req'[p] = req[p]
  BY <1>2, <1>3, Moves DEF SlotInv
<1>5. Shaped(q) /\ Room(q, lifecycle', late')
  BY <1>1, <1>2 DEF Shaped, Room, Locked, Idle
<1> QED BY <1>2, <1>4, <1>5 DEF Admitted, Locked

LEMMA EndAdmitted ==
  ASSUME SlotInv, NEW r \in Requests, Done(r)
  PROVE  Admitted(r) /\ Room(req'[r], lifecycle', late')
<1>1. /\ req' \in [Requests -> Request]
      /\ \A p \in Requests \ {r} : req'[p] = req[p]
      /\ req'[r].at = "idle" /\ req'[r].op = "none"
  BY Ends DEF SlotInv
<1>2. Shaped(req'[r]) /\ Room(req'[r], lifecycle', late')
  BY <1>1, EndIsShaped DEF SlotInv
<1> QED BY <1>1, <1>2 DEF Admitted, Locked

(* A request that goes on does so under the operation it began with.       *)
LEMMA OnwardAdmitted ==
  ASSUME SlotInv, NEW r \in Requests, req[r].at # "idle",
         req' \in [Requests -> Request], \A p \in Requests \ {r} : req'[p] = req[p],
         req'[r].op = req[r].op, Shaped(req'[r]),
         req'[r].at \in Locked => \/ req[r].at \in Locked
                                  \/ \A p \in Requests : req[p].at \notin Locked
  PROVE  Admitted(r)
<1>1. \A p \in Requests \ {r} : req[r].at \in Locked => req[p].at \notin Locked
  BY DEF SlotInv, Excluded
<1> QED BY <1>1 DEF Admitted

LEMMA ReadAdmitted ==
  ASSUME SlotInv, NEW r \in Requests, Read(r)
  PROVE  Admitted(r) /\ Room(req'[r], lifecycle', late')
<1> DEFINE k == req[r].code
           now == IF k = NoCode THEN "none" ELSE lifecycle[k]
<1>1. /\ req[r].at = "read" /\ Shaped(req[r]) /\ TypeOK /\ lifecycle' = lifecycle
  BY DEF Read, SlotInv
<1>2. CASE Done(r)
  BY <1>2, EndAdmitted
<1>3. CASE /\ Send(r, "update", now) /\ now \in ProvisionedLifecycle
           /\ req[r].op \in {"activate", "deactivate"}
  <2>1. /\ req' \in [Requests -> Request]
        /\ \A p \in Requests \ {r} : req'[p] = req[p]
        /\ req'[r].at = "update" /\ req'[r].op = req[r].op /\ req'[r].code = req[r].code
        /\ req'[r].delta = Delta(now)
    BY <1>1, <1>3, Sends DEF Stage
  <2>2. Shaped(req'[r])
    BY <1>1, <1>3, <2>1 DEF Shaped, Locked, Delta
  <2>3. Room(req'[r], lifecycle', late')
    BY <2>1 DEF Room
  <2> QED BY <1>1, <2>1, <2>2, <2>3, OnwardAdmitted DEF Locked
<1>4. CASE /\ Send(r, "lock", now) /\ req[r].op \in {"register", "activate", "replace"}
           /\ req[r].op # "replace" => now \notin ProvisionedLifecycle
  <2>1. /\ req' \in [Requests -> Request]
        /\ \A p \in Requests \ {r} : req'[p] = req[p]
        /\ req'[r].at = "lock" /\ req'[r].op = req[r].op
        /\ req'[r].code = req[r].code /\ req'[r].delta = Delta(now)
    BY <1>1, <1>4, Sends DEF Stage
  <2>2. Shaped(req'[r]) /\ Room(req'[r], lifecycle', late')
    BY <1>1, <1>4, <2>1 DEF Shaped, Room, Locked, Delta
  <2> QED BY <1>1, <2>1, <2>2, OnwardAdmitted DEF Locked
<1>5. CASE req[r].op = "register"
  <2>1. Done(r) \/ (Send(r, "lock", now) /\ now \in {"none", "replaced"})
    BY <1>5 DEF Read
  <2> QED BY <1>2, <1>4, <1>5, <2>1 DEF ProvisionedLifecycle
<1>6. CASE req[r].op = "activate"
  <2>1. \/ Done(r)
        \/ Send(r, "update", now) /\ now = "registered"
        \/ Send(r, "lock", now) /\ now = "deactivated"
    BY <1>6 DEF Read
  <2> QED BY <1>2, <1>3, <1>4, <1>6, <2>1 DEF ProvisionedLifecycle
<1>7. CASE req[r].op = "deactivate"
  <2>1. Done(r) \/ (Send(r, "update", now) /\ now \in ProvisionedLifecycle)
    BY <1>7 DEF Read
  <2> QED BY <1>2, <1>3, <1>7, <2>1
<1>8. CASE req[r].op = "replace"
  <2>1. Done(r) \/ Send(r, "lock", now)
    BY <1>8 DEF Read
  <2> QED BY <1>2, <1>4, <1>8, <2>1
<1> QED BY <1>5, <1>6, <1>7, <1>8 DEF Read

(* Behind the lock.                                                        *)
LEMMA LockedAdmitted ==
  ASSUME SlotInv, NEW r \in Requests,
         AcquireLock(r) \/ Count(r) \/ Recheck(r)
  PROVE  Admitted(r) /\ Room(req'[r], lifecycle', late')
<1>1. /\ TypeOK /\ Shaped(req[r]) /\ Room(req[r], lifecycle, late)
      /\ lifecycle' = lifecycle /\ late' = late
  BY DEF SlotInv, AcquireLock, Count, Recheck
<1>2. CASE Done(r)
  BY <1>2, EndAdmitted
<1>3. ASSUME NEW stage \in Locked, Go(r, stage), req[r].at \in {"lock"} \cup Locked,
             req[r].at = "lock" => \A p \in Requests : req[p].at \notin Locked,
             stage = "create" => req[r].op # "replace",
             stage \in {"recheck", "commit"} => req[r].op = "replace"
      PROVE  /\ Admitted(r) /\ req'[r].at = stage
             /\ req'[r].code = req[r].code /\ req'[r].delta = req[r].delta
  <2>1. /\ req' \in [Requests -> Request]
        /\ \A p \in Requests \ {r} : req'[p] = req[p]
        /\ req'[r].at = stage /\ req'[r].op = req[r].op
        /\ req'[r].code = req[r].code /\ req'[r].delta = req[r].delta
    BY <1>1, <1>3, Goes DEF Stage
  <2>2. Shaped(req'[r])
    BY <1>1, <1>3, <2>1 DEF Shaped, Locked
  <2> QED BY <1>3, <2>1, <2>2, OnwardAdmitted DEF Locked
<1>4. CASE AcquireLock(r)
  BY <1>3, <1>4 DEF AcquireLock, Room, Locked
<1>5. CASE Count(r) /\ ~Done(r)
  <2> DEFINE stage == IF req[r].op = "replace" THEN "recheck" ELSE "create"
  <2>1. /\ req[r].at = "count" /\ Go(r, stage)
        /\ ~(req[r].delta = 1 /\ Cardinality(Provisioned) + 1 > Cap)
    BY <1>5 DEF Count
  <2>2. Admitted(r) /\ req'[r].at = stage /\ req'[r].delta = req[r].delta
    BY <1>3, <2>1 DEF Locked
  <2>3. /\ Cardinality(Provisioned) \in Nat /\ Cap \in Nat /\ late \in Nat
        /\ Provisioned = Slots(lifecycle)
    BY <1>1, SlotsAreCounted, CapAssumption DEF Provisioned, Slots, TypeOK
  <2> QED BY <1>1, <2>1, <2>2, <2>3 DEF Room
<1>6. CASE Recheck(r) /\ ~Done(r)
  <2>1. /\ req[r].at = "recheck" /\ Go(r, "commit") /\ req[r].op = "replace"
        /\ lifecycle[req[r].code] \in ProvisionedLifecycle <=> req[r].delta = 0
    BY <1>1, <1>6 DEF Recheck, Shaped
  <2>2. /\ Admitted(r) /\ req'[r].at = "commit"
        /\ req'[r].code = req[r].code /\ req'[r].delta = req[r].delta
    BY <1>3, <2>1 DEF Locked
  <2>3. req[r].delta = 0 => req[r].code \in Slots(lifecycle)
    BY <1>1, <2>1 DEF Slots, Shaped
  <2>4. req[r].delta = 0 => Cardinality(Slots(lifecycle) \ {req[r].code}) + 1 <= Cap + late
    BY <2>3, SlotsAreCounted DEF SlotInv, WithinCap, Provisioned, Slots
  <2> QED BY <1>1, <2>1, <2>2, <2>4 DEF Room
<1> QED BY <1>2, <1>4, <1>5, <1>6

-----------------------------------------------------------------------------
(* The rows: a step that does not hold the lock takes no slot unless it is *)
(* late, and one that does takes one it was promised.                      *)
LEMMA RowsStep ==
  ASSUME SlotInv, NEW r \in Requests, Step(r)
  PROVE  /\ lifecycle' \in [Codes -> Lifecycle] /\ late' \in Nat
         /\ Cardinality(Slots(lifecycle')) <= Cap + late'
         /\ \/ Slots(lifecycle') \subseteq Slots(lifecycle) /\ late' = late
            \/ late' = late + 1 /\ \E k : Slots(lifecycle') \subseteq Slots(lifecycle) \cup {k}
            \/ req[r].at \in Locked /\ late' = late
<1>1. /\ TypeOK /\ Shaped(req[r]) /\ Room(req[r], lifecycle, late)
      /\ Cardinality(Slots(lifecycle)) <= Cap + late
      /\ IsFiniteSet(Slots(lifecycle)) /\ Cap \in Nat /\ late \in Nat
  BY SlotsAreCounted, CapAssumption DEF SlotInv, WithinCap, Provisioned, Slots, TypeOK
<1>2. CASE lifecycle' = lifecycle /\ late' = late
  BY <1>1, <1>2 DEF TypeOK
<1>3. CASE Update(r)
  <2> DEFINE k == req[r].code
             new == IF req[r].op = "activate" THEN "active" ELSE "deactivated"
  <2>1. /\ req[r].at = "update" /\ k \in Codes /\ lifecycle' = [lifecycle EXCEPT ![k] = new]
        /\ late' = IF new = "active" /\ k \notin Slots(lifecycle) THEN late + 1 ELSE late
    BY <1>1, <1>3 DEF Update, Shaped, Provisioned, Slots
  <2>2. lifecycle' \in [Codes -> Lifecycle]
    BY <1>1, <2>1 DEF TypeOK, Lifecycle
  <2>3. CASE late' = late
    <3>1. Slots(lifecycle') \subseteq Slots(lifecycle)
      BY <1>1, <2>1, <2>3 DEF Slots, TypeOK, ProvisionedLifecycle
    <3>2. Cardinality(Slots(lifecycle')) <= Cardinality(Slots(lifecycle))
          /\ Cardinality(Slots(lifecycle')) \in Nat /\ Cardinality(Slots(lifecycle)) \in Nat
      BY <3>1, SlotsAreCounted
    <3> QED BY <1>1, <2>2, <2>3, <3>1, <3>2
  <2>4. CASE late' = late + 1
    <3>1. Slots(lifecycle') \subseteq Slots(lifecycle) \cup {k}
      BY <1>1, <2>1 DEF Slots, TypeOK
    <3>2. /\ Cardinality(Slots(lifecycle)) \in Nat /\ Cardinality(Slots(lifecycle')) \in Nat
          /\ Cardinality(Slots(lifecycle')) <= Cardinality(Slots(lifecycle)) + 1
      BY <1>1, <3>1, OneMoreSlot
    <3>3. Cardinality(Slots(lifecycle')) <= Cap + late'
      BY <1>1, <2>4, <3>2
    <3> QED BY <1>1, <2>2, <2>4, <3>1, <3>3
  <2> QED BY <2>1, <2>3, <2>4
<1>4. CASE Create(r)
  <2>1. /\ req[r].at = "create" /\ late' = late
        /\ Cardinality(Slots(lifecycle)) + 1 <= Cap + late
    BY <1>1, <1>4 DEF Create, Shaped, Room, Locked
  <2>2. PICK k \in Codes, new \in {"registered", "active"} :
          lifecycle' = lifecycle \/ lifecycle' = [lifecycle EXCEPT ![k] = new]
    <3>1. CASE req[r].op = "register"
      <4>1. PICK k \in (IF req[r].code = NoCode THEN NextCode ELSE {req[r].code}) :
              lifecycle' = IF lifecycle[k] = "none"
                           THEN [lifecycle EXCEPT ![k] = "registered"] ELSE lifecycle
        BY <1>4, <3>1 DEF Create
      <4>2. k \in Codes
        BY <1>1, <4>1 DEF NextCode, TypeOK, Request
      <4> QED BY <4>1, <4>2
    <3>2. CASE req[r].op = "activate"
      BY <1>1, <1>4, <3>2 DEF Create, Shaped
    <3> QED BY <1>4, <3>1, <3>2 DEF Create
  <2>3. /\ lifecycle' \in [Codes -> Lifecycle]
        /\ Slots(lifecycle') \subseteq Slots(lifecycle) \cup {k}
    BY <1>1, <2>2 DEF Slots, TypeOK, Lifecycle
  <2>4. /\ Cardinality(Slots(lifecycle)) \in Nat /\ Cardinality(Slots(lifecycle')) \in Nat
        /\ Cardinality(Slots(lifecycle')) <= Cardinality(Slots(lifecycle)) + 1
    BY <1>1, <2>3, OneMoreSlot
  <2>5. Cardinality(Slots(lifecycle')) <= Cap + late'
    BY <1>1, <2>1, <2>4
  <2> QED BY <1>1, <2>1, <2>3, <2>5 DEF Locked
<1>5. CASE CommitReplace(r)
  <2> DEFINE old == req[r].code
  <2>1. PICK k \in NextCode :
          lifecycle' = [lifecycle EXCEPT ![k] = "registered", ![old] = "replaced"]
    BY <1>5 DEF CommitReplace
  <2>2. k \in Codes /\ old \in Codes /\ req[r].at = "commit" /\ late' = late
    BY <1>1, <1>5 DEF CommitReplace, NextCode, Shaped
  <2>3. /\ lifecycle' \in [Codes -> Lifecycle]
        /\ Slots(lifecycle') \subseteq (Slots(lifecycle) \ {old}) \cup {k}
    BY <1>1, <2>1, <2>2 DEF Slots, TypeOK, Lifecycle, ProvisionedLifecycle
  <2>4. CASE req[r].delta = 1
    <3>1. Cardinality(Slots(lifecycle)) + 1 <= Cap + late
      BY <1>1, <2>2, <2>4 DEF Room
    <3>2. Slots(lifecycle') \subseteq Slots(lifecycle) \cup {k}
      BY <2>3
    <3>3. /\ Cardinality(Slots(lifecycle)) \in Nat /\ Cardinality(Slots(lifecycle')) \in Nat
          /\ Cardinality(Slots(lifecycle')) <= Cardinality(Slots(lifecycle)) + 1
      BY <1>1, <3>2, OneMoreSlot
    <3>4. Cardinality(Slots(lifecycle')) <= Cap + late'
      BY <1>1, <2>2, <3>1, <3>3
    <3> QED BY <1>1, <2>2, <2>3, <3>4 DEF Locked
  <2>5. CASE req[r].delta = 0
    <3>1. Cardinality(Slots(lifecycle) \ {old}) + 1 <= Cap + late
      BY <1>1, <2>2, <2>5 DEF Room
    <3>2. IsFiniteSet(Slots(lifecycle) \ {old})
      BY <1>1, FS_Subset
    <3>3. /\ Cardinality(Slots(lifecycle) \ {old}) \in Nat /\ Cardinality(Slots(lifecycle')) \in Nat
          /\ Cardinality(Slots(lifecycle')) <= Cardinality(Slots(lifecycle) \ {old}) + 1
      BY <2>3, <3>2, OneMoreSlot
    <3>4. Cardinality(Slots(lifecycle')) <= Cap + late'
      BY <1>1, <2>2, <3>1, <3>3
    <3> QED BY <1>1, <2>2, <2>3, <3>4 DEF Locked
  <2>6. req[r].delta \in 0..1
    BY <1>1 DEF TypeOK, Request
  <2> QED BY <2>4, <2>5, <2>6
<1>6. (lifecycle' = lifecycle /\ late' = late) \/ Update(r) \/ Create(r) \/ CommitReplace(r)
  BY DEF Step, Begin, Read, AcquireLock, Count, Recheck, Abort
<1> QED BY <1>2, <1>3, <1>4, <1>5, <1>6

LEMMA StepAdmitted ==
  ASSUME SlotInv, NEW r \in Requests, Step(r)
  PROVE  Admitted(r) /\ Room(req'[r], lifecycle', late')
<1>1. ASSUME Update(r) \/ Create(r) \/ CommitReplace(r) \/ Abort(r)
      PROVE  Done(r)
  BY <1>1 DEF Update, Create, CommitReplace, Abort
<1> QED BY <1>1, BeginAdmitted, ReadAdmitted, LockedAdmitted, EndAdmitted DEF Step

(* Every step keeps the cap and the room each request counts on.           *)
LEMMA SlotStep ==
  ASSUME SlotInv, [Next]_vars
  PROVE  SlotInv'
<1>1. CASE Next
  <2>1. PICK r \in Requests : Step(r)
    BY <1>1 DEF Next
  <2>2. Admitted(r) /\ Room(req'[r], lifecycle', late')
    BY <2>1, StepAdmitted
  <2>3. /\ lifecycle' \in [Codes -> Lifecycle] /\ late' \in Nat
        /\ Cardinality(Slots(lifecycle')) <= Cap + late'
        /\ \/ Slots(lifecycle') \subseteq Slots(lifecycle) /\ late' = late
           \/ late' = late + 1 /\ \E k : Slots(lifecycle') \subseteq Slots(lifecycle) \cup {k}
           \/ req[r].at \in Locked /\ late' = late
    BY <2>1, RowsStep
  <2>4. TypeOK' /\ WithinCap'
    BY <2>2, <2>3 DEF Admitted, TypeOK, WithinCap, Provisioned, Slots
  <2>5. Excluded'
    <3> SUFFICES ASSUME NEW p \in Requests, NEW q \in Requests, p # q,
                        req'[p].at \in Locked
                 PROVE  req'[q].at \notin Locked
      BY DEF Excluded
    <3>1. CASE p = r
      BY <2>2, <3>1 DEF Admitted
    <3>2. CASE q = r
      BY <2>2, <3>2 DEF Admitted
    <3>3. CASE p # r /\ q # r
      BY <2>2, <3>3 DEF Admitted, SlotInv, Excluded
    <3> QED BY <3>1, <3>2, <3>3
  <2>6. ASSUME NEW p \in Requests, p # r PROVE Shaped(req'[p]) /\ Room(req'[p], lifecycle', late')
    <3>1. req'[p] = req[p] /\ Shaped(req[p]) /\ Room(req[p], lifecycle, late)
      BY <2>2, <2>6 DEF Admitted, SlotInv
    <3>2. late \in Nat /\ Cap \in Nat
      BY CapAssumption DEF SlotInv, TypeOK
    <3> DEFINE c == req[p].code
    <3>3. /\ Cardinality(Slots(lifecycle)) \in Nat /\ Cardinality(Slots(lifecycle')) \in Nat
          /\ Cardinality(Slots(lifecycle) \ {c}) \in Nat
          /\ Cardinality(Slots(lifecycle') \ {c}) \in Nat
      BY SlotsAreCounted
    <3>4. CASE req[p].at \notin Locked
      BY <3>1, <3>4 DEF Room, Locked
    <3>5. CASE Slots(lifecycle') \subseteq Slots(lifecycle) /\ late' = late
      <4>1. /\ Cardinality(Slots(lifecycle')) <= Cardinality(Slots(lifecycle))
            /\ Cardinality(Slots(lifecycle') \ {c}) <= Cardinality(Slots(lifecycle) \ {c})
        BY <3>5, SlotsAreCounted
      <4> QED BY <3>1, <3>2, <3>3, <3>5, <4>1 DEF Room
    <3>6. CASE late' = late + 1 /\ \E k : Slots(lifecycle') \subseteq Slots(lifecycle) \cup {k}
      <4>1. /\ Cardinality(Slots(lifecycle')) <= Cardinality(Slots(lifecycle)) + 1
            /\ Cardinality(Slots(lifecycle') \ {c}) <= Cardinality(Slots(lifecycle) \ {c}) + 1
        BY <3>6, SlotsGrowByOne
      <4> QED BY <3>1, <3>2, <3>3, <3>6, <4>1 DEF Room
    <3>7. CASE req[r].at \in Locked /\ late' = late
      BY <2>6, <3>4, <3>7 DEF SlotInv, Excluded
    <3> QED BY <2>3, <3>5, <3>6, <3>7
  <2> QED BY <2>2, <2>4, <2>5, <2>6 DEF SlotInv, Admitted
<1>2. CASE UNCHANGED vars
  BY <1>2 DEF vars, SlotInv, TypeOK, WithinCap, Provisioned, Excluded
<1> QED BY <1>1, <1>2

LEMMA SlotInit == ASSUME Init, StartFits PROVE SlotInv
<1>1. Idle \in Request /\ Idle.at = "idle" /\ Idle.op = "none"
  BY DEF Idle, Request, Stage
<1>2. TypeOK /\ late = 0 /\ \A r \in Requests : req[r] = Idle
  BY <1>1, StartAssumption DEF Init, TypeOK
<1>3. \A r \in Requests : Shaped(req[r]) /\ Room(req[r], lifecycle, late)
  BY <1>1, <1>2, EndIsShaped
<1>4. WithinCap
  <2>1. Provisioned = Slots(Start)
    BY DEF Init, Provisioned, Slots
  <2>2. Cap + late = Cap
    BY <1>2, CapAssumption
  <2> QED BY <2>1, <2>2 DEF StartFits, WithinCap
<1>5. Excluded
  BY <1>1, <1>2 DEF Excluded, Locked
<1> QED BY <1>2, <1>3, <1>4, <1>5 DEF SlotInv

-----------------------------------------------------------------------------
(* The invariant the cap rests on: one holder of the occupancy lock and,   *)
(* but for the slots of late activations, a free slot behind every count.  *)
THEOREM SlotInvariant ==
  ASSUME StartFits
  PROVE  Spec => []SlotInv
  BY SlotInit, SlotStep, PTL DEF Spec

(* Rows and requests stay what they are declared to be, whatever overlaps. *)
THEOREM TerminalTypes == Spec => []TypeOK
<1>1. Init => TypeOK
  <2>1. Idle \in Request
    BY DEF Idle, Request, Stage
  <2> QED BY <2>1, StartAssumption DEF Init, TypeOK
<1>2. ASSUME TypeOK, NEW r \in Requests, Step(r) PROVE TypeOK'
  <2>1. lifecycle' \in [Codes -> Lifecycle] /\ late' \in Nat
    <3>1. CASE CommitReplace(r)
      BY <1>2, <3>1 DEF CommitReplace, TypeOK, Lifecycle
    <3>2. CASE Create(r)
      BY <1>2, <3>2 DEF Create, TypeOK, Lifecycle
    <3>3. CASE Update(r)
      <4>1. late' = late \/ late' = late + 1
        BY <3>3 DEF Update
      <4>2. lifecycle' \in [Codes -> Lifecycle]
        BY <1>2, <3>3 DEF Update, TypeOK, Lifecycle
      <4> QED BY <1>2, <4>1, <4>2 DEF TypeOK
    <3>4. (lifecycle' = lifecycle /\ late' = late) \/ Update(r) \/ Create(r) \/ CommitReplace(r)
      BY <1>2 DEF Step, Begin, Read, AcquireLock, Count, Recheck, Abort
    <3> QED BY <1>2, <3>1, <3>2, <3>3, <3>4 DEF TypeOK
  <2>2. req' \in [Requests -> Request]
    <3>1. ASSUME NEW c \in Command, Begin(r, c) PROVE req' \in [Requests -> Request]
      <4> DEFINE q == [Idle EXCEPT !.at = "read", !.op = c.op, !.code = c.code]
      <4>1. Idle \in Request /\ c.op \in Ops /\ c.code \in Codes \cup {NoCode}
        BY DEF Idle, Request, Stage, Command
      <4>2. q \in Request
        BY <4>1 DEF Request, Stage
      <4> QED BY <1>2, <3>1, <4>2, Moves DEF Begin
    <3>2. ASSUME NEW stage \in Stage, Go(r, stage) PROVE req' \in [Requests -> Request]
      BY <1>2, <3>2, Goes
    <3>3. ASSUME NEW stage \in {"update", "lock"}, NEW now, Send(r, stage, now)
          PROVE  req' \in [Requests -> Request]
      BY <1>2, <3>3, Sends DEF Stage
    <3>4. ASSUME Done(r) PROVE req' \in [Requests -> Request]
      BY <1>2, <3>4, Ends
    <3>5. CASE Read(r)
      <4> DEFINE now == IF req[r].code = NoCode THEN "none" ELSE lifecycle[req[r].code]
      <4>1. Done(r) \/ Send(r, "update", now) \/ Send(r, "lock", now)
        <5>1. CASE req[r].op = "activate"
          BY <3>5, <5>1 DEF Read
        <5>2. CASE req[r].op # "activate"
          BY <3>5, <5>2 DEF Read
        <5> QED BY <5>1, <5>2
      <4> QED BY <3>3, <3>4, <4>1
    <3>6. CASE AcquireLock(r) \/ Count(r) \/ Recheck(r)
      BY <3>2, <3>4, <3>6 DEF AcquireLock, Count, Recheck, Stage, Locked
    <3>7. CASE Update(r) \/ Create(r) \/ CommitReplace(r) \/ Abort(r)
      BY <3>4, <3>7 DEF Update, Create, CommitReplace, Abort
    <3> QED BY <1>2, <3>1, <3>5, <3>6, <3>7 DEF Step
  <2> QED BY <2>1, <2>2 DEF TypeOK
<1>3. TypeOK /\ [Next]_vars => TypeOK'
  BY <1>2 DEF Next, vars, TypeOK
<1> QED BY <1>1, <1>3, PTL DEF Spec

(* A restaurant that starts within its plan stays within it, whatever      *)
(* commands race, but for one slot for every activation whose unlocked     *)
(* update came after its terminal was deactivated or replaced              *)
(* (PosTerminalService.activate, withCommercialLimitOccupancy).            *)
THEOREM CapHolds ==
  ASSUME StartFits
  PROVE  Spec => []WithinCap
<1>1. SlotInv => WithinCap
  BY DEF SlotInv
<1> QED BY <1>1, SlotInvariant, PTL

(* And the slot a command counted free behind the lock is still free when  *)
(* the command takes it, though unlocked commands go on meanwhile: only a  *)
(* late activation takes it away, and each takes one.                      *)
THEOREM CountedSlotsStayFree ==
  ASSUME StartFits
  PROVE  Spec => []CountedSlotIsFree
<1>1. SlotInv => CountedSlotIsFree
  BY DEF SlotInv, Room, CountedSlotIsFree, Provisioned, Slots
<1> QED BY <1>1, SlotInvariant, PTL
=============================================================================

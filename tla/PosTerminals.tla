------------------------------ MODULE PosTerminals ------------------------------
(***************************************************************************)
(* POS terminals of a restaurant and the commercial cap on how many are    *)
(* provisioned.  A command that takes a slot counts and writes in one READ *)
(* COMMITTED transaction behind the occupancy lock of the restaurant; the  *)
(* decision to go there, and every other command, reads and writes without *)
(* a lock.  One action per database round trip of concurrent requests.     *)
(***************************************************************************)
EXTENDS Integers, FiniteSets, FiniteSetsExt

CONSTANTS
  Requests,   \* concurrent service calls
  Ops,        \* the commands clients send
  Codes,      \* terminal codes 1..n: a code names the only row that has it
  Cap,        \* the hard posTerminals limit of the plan
  Start,      \* lifecycle of every code at the start, "none" without a row
  NoCode      \* a registration that leaves the code to the service

VARIABLES
  lifecycle,  \* lifecycle[k]: the pos_terminals row with code k
  req,        \* req[r]: a call in progress
  late        \* history: activations that took a slot given up since their read

vars == <<lifecycle, req, late>>

Lifecycle == {"none", "registered", "active", "deactivated", "replaced"}
ProvisionedLifecycle == {"registered", "active"}

ASSUME CodesAssumption == IsFiniteSet(Codes) /\ Codes \subseteq Nat \ {0} /\ NoCode \notin Codes
ASSUME StartAssumption == Start \in [Codes -> Lifecycle]
ASSUME CapAssumption == Cap \in Nat

Command == [op: Ops \cap {"register"}, code: Codes \cup {NoCode}]
           \cup [op: Ops \cap {"activate", "deactivate", "replace"}, code: Codes]

(* The round trip a request makes next.  From "count" to "commit" it holds *)
(* the occupancy lock.                                                     *)
Locked == {"count", "create", "recheck", "commit"}
Stage == {"idle", "read", "update", "lock"} \cup Locked

Idle == [at |-> "idle", op |-> "none", code |-> NoCode, delta |-> 0]

Request ==
  [at: Stage, op: Ops \cup {"none"}, code: Codes \cup {NoCode}, delta: 0..1]

-----------------------------------------------------------------------------
Provisioned == {k \in Codes : lifecycle[k] \in ProvisionedLifecycle}
Rows == {k \in Codes : lifecycle[k] # "none"}

(* nextPosTerminalCode: one more than the largest code in use; none when   *)
(* the bound on codes is reached.                                          *)
NextCode == {k \in Codes : k = Max(Rows \cup {0}) + 1}

Go(r, stage) == req' = [req EXCEPT ![r].at = stage]
Done(r) == req' = [req EXCEPT ![r] = Idle]

(* occupancyDelta: a terminal that is not provisioned takes one more slot. *)
Delta(now) == IF now \in ProvisionedLifecycle THEN 0 ELSE 1
Send(r, stage, now) == req' = [req EXCEPT ![r].at = stage, ![r].delta = Delta(now)]

-----------------------------------------------------------------------------
Begin(r, c) ==
  /\ req[r].at = "idle"
  /\ req' = [req EXCEPT ![r] = [Idle EXCEPT !.at = "read", !.op = c.op, !.code = c.code]]
  /\ UNCHANGED <<lifecycle, late>>

(* The unlocked read, and where it sends the command: nowhere (an error or *)
(* nothing to do), to an unlocked update, or to the lock for a slot.       *)
Read(r) ==
  LET k == req[r].code
      now == IF k = NoCode THEN "none" ELSE lifecycle[k]
  IN
  /\ req[r].at = "read"
  /\ \/ /\ req[r].op = "register"
        /\ IF now \in {"none", "replaced"} THEN Send(r, "lock", now) ELSE Done(r)
     \/ /\ req[r].op = "activate"
        /\ CASE now = "registered"  -> Send(r, "update", now)
             [] now = "deactivated" -> Send(r, "lock", now)
             [] OTHER               -> Done(r)
     \/ /\ req[r].op = "deactivate"
        /\ IF now \in ProvisionedLifecycle THEN Send(r, "update", now) ELSE Done(r)
     \/ /\ req[r].op = "replace"
        /\ IF now \in {"none", "replaced"} THEN Done(r) ELSE Send(r, "lock", now)
  /\ UNCHANGED <<lifecycle, late>>

(* Mutant of Update: the command is written where the state belongs.       *)
UpdateToCommand(r) ==
  /\ req[r].at = "update"
  /\ lifecycle' = [lifecycle EXCEPT ![req[r].code] = req[r].op]
  /\ Done(r) /\ UNCHANGED late

(* UPDATE ... WHERE id = ?: whatever the row has become since the read.  An *)
(* activation that read a provisioned terminal, and so takes no slot by    *)
(* its own account, is late when the terminal has given up its slot since. *)
Update(r) ==
  LET k == req[r].code
      takes == req[r].op = "activate" /\ req[r].delta = 0 /\ k \notin Provisioned
  IN
  /\ req[r].at = "update"
  /\ lifecycle' = [lifecycle EXCEPT ![k] =
                     IF req[r].op = "activate" THEN "active" ELSE "deactivated"]
  /\ late' = IF takes THEN late + 1 ELSE late
  /\ Done(r)

(* Mutant of AcquireLock: the lock row does not exclude anyone.            *)
AcquireAnyway(r) == req[r].at = "lock" /\ Go(r, "count") /\ UNCHANGED <<lifecycle, late>>

AcquireLock(r) ==
  /\ req[r].at = "lock"
  /\ \A s \in Requests : req[s].at \notin Locked
  /\ Go(r, "count")
  /\ UNCHANGED <<lifecycle, late>>

(* resolveExisting, for a registration that names its code, then the count *)
(* and the decision: a command without a new slot is never denied by the   *)
(* cap.                                                                    *)
Count(r) ==
  LET k == req[r].code
      exists == /\ req[r].op = "register" /\ k # NoCode
                /\ lifecycle[k] \notin {"none", "replaced"}
      denied == req[r].delta = 1 /\ Cardinality(Provisioned) + 1 > Cap
  IN
  /\ req[r].at = "count"
  /\ IF exists \/ denied THEN Done(r)
     ELSE Go(r, IF req[r].op = "replace" THEN "recheck" ELSE "create")
  /\ UNCHANGED <<lifecycle, late>>

(* A registration inserts a row; a row that has the code already, whatever *)
(* its lifecycle, is returned instead.  A reactivation does not look again. *)
Create(r) ==
  /\ req[r].at = "create"
  /\ \/ /\ req[r].op = "register"
        /\ \E k \in IF req[r].code = NoCode THEN NextCode ELSE {req[r].code} :
             lifecycle' = IF lifecycle[k] = "none"
                          THEN [lifecycle EXCEPT ![k] = "registered"] ELSE lifecycle
     \/ /\ req[r].op = "activate"
        /\ lifecycle' = [lifecycle EXCEPT ![req[r].code] = "active"]
  /\ Done(r) /\ UNCHANGED late

(* Mutant of Recheck: only a replaced row is noticed.                      *)
RecheckReplaced(r) ==
  /\ req[r].at = "recheck"
  /\ IF lifecycle[req[r].code] # "replaced" THEN Go(r, "commit") ELSE Done(r)
  /\ UNCHANGED <<lifecycle, late>>

(* A replacement looks at the old row again and gives up if it changed     *)
(* between holding a slot and not.                                         *)
Recheck(r) ==
  LET now == lifecycle[req[r].code] IN
  /\ req[r].at = "recheck"
  /\ IF now # "replaced" /\ (now \in ProvisionedLifecycle <=> req[r].delta = 0)
     THEN Go(r, "commit") ELSE Done(r)
  /\ UNCHANGED <<lifecycle, late>>

CommitReplace(r) ==
  /\ req[r].at = "commit"
  /\ \E k \in NextCode :
       lifecycle' = [lifecycle EXCEPT ![k] = "registered", ![req[r].code] = "replaced"]
  /\ Done(r) /\ UNCHANGED late

(* A lost connection, a lock timeout after its retries, a crash: the       *)
(* transaction rolls back.                                                 *)
Abort(r) ==
  /\ req[r].at \in {"lock"} \cup Locked
  /\ Done(r)
  /\ UNCHANGED <<lifecycle, late>>

Step(r) ==
  \/ \E c \in Command : Begin(r, c)
  \/ Read(r) \/ Update(r) \/ AcquireLock(r) \/ Count(r) \/ Create(r)
  \/ Recheck(r) \/ CommitReplace(r) \/ Abort(r)

Init == lifecycle = Start /\ req = [r \in Requests |-> Idle] /\ late = 0
Next == \E r \in Requests : Step(r)
Spec == Init /\ [][Next]_vars

-----------------------------------------------------------------------------
TypeOK ==
  /\ lifecycle \in [Codes -> Lifecycle]
  /\ req \in [Requests -> Request]
  /\ late \in Nat

(* The cap: whatever overlaps, every terminal provisioned beyond the plan  *)
(* is owed to one late activation.  Without one the restaurant is within   *)
(* its plan.                                                               *)
WithinCap == Cardinality(Provisioned) <= Cap + late

(* A slot that was counted free is still free when it is taken, but for    *)
(* the slots that late activations took, and there is only one such        *)
(* promise at a time.                                                      *)
CountedSlotIsFree ==
  \A r \in Requests :
    (req[r].at \in {"create", "recheck", "commit"} /\ req[r].delta = 1)
      => Cardinality(Provisioned) + 1 <= Cap + late
=============================================================================

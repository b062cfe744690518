----------------------------- MODULE CashCustody -----------------------------
(***************************************************************************)
(* The cash register services over their database: Financial Shift and     *)
(* Register commands of concurrent requests, one action per round trip.    *)
(*                                                                         *)
(* A command reads the shift header, then its child tables, decides in     *)
(* memory, and writes the whole graph back in one transaction that         *)
(* succeeds only under the version it read (or the version the client      *)
(* sent).  Nothing is locked between the reads and the write.              *)
(* The stored shifts are the variable of ShiftLedger, whose specification  *)
(* this one implements: LedgerSpec is a property of Spec.                  *)
(***************************************************************************)
EXTENDS ShiftLedger

CONSTANTS
  Requests,       \* concurrent service calls
  StartRegister,  \* the register row every register starts with, or NoRegister
  NoRegister,     \* what a query for an absent register returns
  NoCommand       \* what an idle request is working on

VARIABLES
  register,       \* register[k]: row of a cash register
  req             \* req[r]: a service call in progress and what it has read

vars == <<shift, register, req>>

RegisterRow ==
  [status: {"provisioned", "active", "inactive"},
   duty: {"closed", "open", "suspended"}, archived: BOOLEAN, version: Nat \ {0}]

ASSUME RequestsAssumption == IsFiniteSet(Requests)
ASSUME NoRegisterAssumption == NoRegister \notin RegisterRow
ASSUME StartRegisterAssumption == StartRegister \in RegisterRow \cup {NoRegister}

RegisterOps == {"provision", "activate", "deactivate", "archiveRegister",
                "openDuty", "closeDuty", "suspendDuty", "resumeDuty"}

OpenCommand == [op: Ops \cap {"openShift"}, shift: Shifts,
                register: Registers, float: Amounts]
RegisterCommand == [op: Ops \cap RegisterOps, register: Registers]
Command == ShiftCommand \cup OpenCommand \cup RegisterCommand

ASSUME NoCommandAssumption == NoCommand \notin Command

(* Where a request is: the database round trip it makes next.              *)
Stage == {"idle", "lookup", "header", "children", "register", "active",
          "commit", "successor"}
ChildTables == {"movements", "counts", "handovers", "attributions"}

Request ==
  [at: Stage, command: Command \cup {NoCommand}, expected: Nat,
   seen: Graph \cup {NoShift}, unread: SUBSET ChildTables,
   row: RegisterRow \cup {NoRegister}, active: SUBSET Shifts, retried: BOOLEAN]

Idle == [at |-> "idle", command |-> NoCommand, expected |-> 0, seen |-> NoShift,
         unread |-> {}, row |-> NoRegister, active |-> {}, retried |-> FALSE]

-----------------------------------------------------------------------------
(* Register commands (pure).                                               *)
(* Mutant of CanHostShift: the duty is not asked.                          *)
CanHostOffDuty(row) == row.status = "active"

CanHostShift(row) == row.status = "active" /\ row.duty = "open"

BumpRow(row) == [row EXCEPT !.version = @ + 1]

RegisterOutcome(op, row, hasActive) ==
  CASE op = "activate" ->
         When(~row.archived /\ row.status = "active", row)
         \cup When(~row.archived /\ row.status # "active",
                   BumpRow([row EXCEPT !.status = "active"]))
    [] op = "deactivate" ->
         LET allowed == ~row.archived /\ ~hasActive /\ row.duty = "closed"
         IN When(allowed /\ row.status = "inactive", row)
            \cup When(allowed /\ row.status = "active",
                      BumpRow([row EXCEPT !.status = "inactive"]))
    [] op = "archiveRegister" ->
         When(row.archived, row)
         \cup When(/\ ~row.archived /\ ~hasActive /\ row.duty = "closed"
                   /\ row.status \in {"active", "inactive"},
                   BumpRow([row EXCEPT !.status = "inactive", !.archived = TRUE]))
    [] op \in {"openDuty", "resumeDuty"} ->
         When(row.status = "active" /\ row.duty = "open", row)
         \cup When(row.status = "active" /\ row.duty # "open",
                   BumpRow([row EXCEPT !.duty = "open"]))
    [] op = "suspendDuty" ->
         When(row.status = "active" /\ row.duty = "suspended", row)
         \cup When(row.status = "active" /\ row.duty = "open",
                   BumpRow([row EXCEPT !.duty = "suspended"]))
    [] op = "closeDuty" ->
         When(row.duty = "closed", row)
         \cup When(row.duty # "closed" /\ ~hasActive,
                   BumpRow([row EXCEPT !.duty = "closed"]))

-----------------------------------------------------------------------------
ActiveOn(k) ==
  {s \in Shifts : Exists(s) /\ shift[s].register = k /\ shift[s].status \in Active}

(* Mutant of CanWrite: an update by id, without the version.               *)
CanWriteBlindly(s, v, h) == KeysFree(s, h)

(* A shift write succeeds under the current version and free unique keys. *)
CanWrite(s, v, h) == shift[s].version = v /\ KeysFree(s, h)

RegisterOf(r) ==
  IF req[r].command.op \in {"closeWithFinalCount", "acceptHandover"}
  THEN req[r].seen.register
  ELSE req[r].command.register

Go(r, stage) == req' = [req EXCEPT ![r].at = stage]
Done(r) == req' = [req EXCEPT ![r] = Idle]

ClosesDuty(c) == c.op = "closeWithFinalCount" /\ c.closeDuty

(* Calls that take a register off duty or out of the catalog.              *)
EndsDuty(c) == ClosesDuty(c) \/ c.op \in {"deactivate", "archiveRegister", "closeDuty"}

TakesVersion(c) == c.op \notin {"attribution", "initiateHandover", "rejectHandover",
                                "acceptHandover", "openShift", "provision"}

CurrentVersion(c) ==
  IF c \in RegisterCommand
  THEN IF register[c.register] = NoRegister THEN 0 ELSE register[c.register].version
  ELSE IF Exists(c.shift) THEN shift[c.shift].version ELSE 0

(* Mutant of CheckedVersion: the version is read again at the write.       *)
VersionReadAgain(r, read) == CurrentVersion(req[r].command)

(* The version a write is checked against.                                 *)
CheckedVersion(r, read) == IF req[r].expected # 0 THEN req[r].expected ELSE read

FirstStage(c) ==
  CASE c.op = "attribution" -> "lookup"
    [] c.op \in RegisterOps -> "register"
    [] OTHER -> "header"

-----------------------------------------------------------------------------
(* A client calls; it sends no version or the version it last saw.         *)
Begin(r, c) ==
  /\ req[r].at = "idle"
  /\ \E v \in {0} \cup When(TakesVersion(c), CurrentVersion(c)) :
       req' = [req EXCEPT ![r] = [Idle EXCEPT !.at = FirstStage(c),
                                              !.command = c, !.expected = v]]
  /\ UNCHANGED <<shift, register>>

(* createAttribution first asks whether the fact is attributed anywhere.   *)
LookupAttribution(r) ==
  /\ req[r].at = "lookup"
  /\ IF \E s \in Shifts : Exists(s) /\ req[r].command.fact \in shift[s].attrs
     THEN Done(r)
     ELSE Go(r, "header")
  /\ UNCHANGED <<shift, register>>

(* findById: the header row. An absent shift is an error, except for open, *)
(* which goes on; a present one is what an open call replays.              *)
ReadHeader(r) ==
  LET c == req[r].command  g == shift[req[r].command.shift] IN
  /\ req[r].at = "header"
  /\ \/ g = NoShift /\ c.op = "openShift" /\ Go(r, "register")
     \/ g = NoShift /\ c.op # "openShift" /\ Done(r)
     \/ g # NoShift /\ c.op = "openShift" /\ Done(r)
     \/ /\ g # NoShift /\ c.op # "openShift"
        /\ req' = [req EXCEPT
             ![r].at = "children", ![r].unread = ChildTables,
             ![r].seen = [g EXCEPT !.moves = {}, !.interim = FALSE, !.finals = {},
                                   !.handover = "none", !.attrs = {}]]
  /\ UNCHANGED <<shift, register>>

(* loadShiftGraph: a query per child table, answered in any order, outside *)
(* a transaction.                                                          *)
ReadChild(r, table) ==
  LET g == shift[req[r].command.shift]
      seen == req[r].seen
      read == CASE table = "movements"    -> [seen EXCEPT !.moves = g.moves]
                [] table = "counts"       -> [seen EXCEPT !.interim = g.interim,
                                                          !.finals = g.finals]
                [] table = "handovers"    -> [seen EXCEPT !.handover = g.handover]
                [] table = "attributions" -> [seen EXCEPT !.attrs = g.attrs]
  IN
  /\ req[r].at = "children" /\ table \in req[r].unread
  /\ req' = [req EXCEPT ![r] = [req[r] EXCEPT !.unread = @ \ {table}, !.seen = read]]
  /\ UNCHANGED <<shift, register>>

(* The graph is complete: the command is decided in memory. It throws, or  *)
(* has nothing to write, or goes on to the register row or the write.      *)
Decide(r) ==
  LET c == req[r].command
      g == req[r].seen
      terminal == c.op = "closeWithFinalCount" /\ g.status \in Terminal
      stale == /\ c.op = "closeWithFinalCount" /\ ~terminal
               /\ req[r].expected \notin {0, g.version}
      rewrites == c.op \in {"finalCount", "rejectHandover"}
      written == {h \in Outcome(c, g) : h # g \/ rewrites}
  IN
  /\ req[r].at = "children" /\ req[r].unread = {}
  /\ \/ /\ written # {} /\ ~stale
        /\ Go(r, IF ClosesDuty(c) \/ c.op = "acceptHandover"
                 THEN "register" ELSE "commit")
     \/ terminal /\ ClosesDuty(c) /\ Go(r, "register")
     \/ (written = {} \/ stale) /\ ~(terminal /\ ClosesDuty(c)) /\ Done(r)
  /\ UNCHANGED <<shift, register>>

(* registers.findById.                                                     *)
ReadRegister(r) ==
  LET c == req[r].command  row == register[RegisterOf(r)] IN
  /\ req[r].at = "register"
  /\ \/ row = NoRegister /\ c.op = "provision" /\ Go(r, "commit")
     \/ row = NoRegister /\ c.op # "provision" /\ Done(r)
     \/ row # NoRegister /\ c.op = "provision" /\ Done(r)
     \/ /\ row # NoRegister /\ c.op # "provision"
        /\ req' = [req EXCEPT
             ![r].row = row,
             ![r].at = IF \/ c.op \in {"openShift", "deactivate",
                                       "archiveRegister", "closeDuty"}
                          \/ ClosesDuty(c)
                       THEN "active" ELSE "commit"]
  /\ UNCHANGED <<shift, register>>

(* Mutant of ReadActive: only a shift that is open is looked for.          *)
ReadOpen(r) ==
  LET open == {s \in ActiveOn(RegisterOf(r)) : shift[s].status = "open"} IN
  /\ req[r].at = "active"
  /\ \E found \in SUBSET open :
       /\ Cardinality(found) = (IF open = {} THEN 0 ELSE 1)
       /\ req' = [req EXCEPT ![r].active = found, ![r].at = "commit"]
  /\ UNCHANGED <<shift, register>>

(* shifts.findActiveByRegister: some active shift (LIMIT 1), or none.      *)
ReadActive(r) ==
  /\ req[r].at = "active"
  /\ \E found \in SUBSET ActiveOn(RegisterOf(r)) :
       /\ Cardinality(found) = (IF ActiveOn(RegisterOf(r)) = {} THEN 0 ELSE 1)
       /\ req' = [req EXCEPT ![r].active = found, ![r].at = "commit"]
  /\ UNCHANGED <<shift, register>>

(* shifts.save: header compare-and-set on the version, then the child rows *)
(* are replaced, in one transaction. A drawer movement sent without a      *)
(* version is tried once more from the start after a version conflict.     *)
CommitShift(r) ==
  LET c == req[r].command
      g == req[r].seen
      v == CheckedVersion(r, g.version)
      retry == /\ c.op = "movement" /\ req[r].expected = 0 /\ ~req[r].retried
               /\ shift[c.shift].version # v
  IN
  /\ req[r].at = "commit"
  /\ c \in ShiftCommand /\ ~ClosesDuty(c) /\ c.op # "acceptHandover"
  /\ \/ /\ \E h \in Outcome(c, g) :
             /\ CanWrite(c.shift, v, h)
             /\ shift' = [shift EXCEPT ![c.shift] = h]
        /\ Done(r)
     \/ /\ \A h \in Outcome(c, g) : ~CanWrite(c.shift, v, h)
        /\ ~retry /\ Done(r) /\ UNCHANGED shift
     \/ /\ retry
        /\ req' = [req EXCEPT ![r] = [Idle EXCEPT !.at = "header", !.command = c,
                                                  !.retried = TRUE]]
        /\ UNCHANGED shift
  /\ UNCHANGED register

(* commitOpenShift: the command decides on the register row and the active *)
(* shift read before; a duplicate shift identity is a conflict.            *)
CommitOpen(r) ==
  LET c == req[r].command IN
  /\ req[r].at = "commit" /\ c.op = "openShift"
  /\ \/ /\ CanHostShift(req[r].row) /\ req[r].active = {} /\ ~Exists(c.shift)
        /\ shift' = [shift EXCEPT ![c.shift] = NewShift(c.register, c.float)]
     \/ /\ ~CanHostShift(req[r].row) \/ req[r].active # {} \/ Exists(c.shift)
        /\ UNCHANGED shift
  /\ Done(r)
  /\ UNCHANGED register

(* commitCloseCorridor: final count, shift close and duty close are one    *)
(* transaction, each row under the version it was read with. A shift that  *)
(* is closed already leaves only the duty to close.                        *)
CommitCorridor(r) ==
  LET c == req[r].command
      g == req[r].seen
      k == g.register
      row == req[r].row
      dutyAfter == {d \in RegisterOutcome("closeDuty", row,
                                          req[r].active \ {c.shift} # {}) :
                      d = row \/ register[k].version = row.version}
      shiftAfter == {h \in Outcome(c, g) : CanWrite(c.shift, g.version, h)}
      writeDuty == \E d \in dutyAfter :
        register' = IF d = row THEN register ELSE [register EXCEPT ![k] = d]
  IN
  /\ req[r].at = "commit" /\ ClosesDuty(c)
  /\ \/ g.status \in Terminal /\ writeDuty /\ UNCHANGED shift
     \/ /\ g.status \notin Terminal /\ writeDuty
        /\ \E h \in shiftAfter : shift' = [shift EXCEPT ![c.shift] = h]
     \/ /\ dutyAfter = {} \/ (g.status \notin Terminal /\ shiftAfter = {})
        /\ UNCHANGED <<shift, register>>
  /\ Done(r)

(* acceptHandover, first transaction: the outgoing shift is closed.        *)
CommitHandover(r) ==
  LET c == req[r].command
      g == req[r].seen
      after == {h \in Outcome(c, g) : /\ CanHostShift(req[r].row)
                                      /\ CanWrite(c.shift, g.version, h)}
  IN
  /\ req[r].at = "commit" /\ c.op = "acceptHandover"
  /\ \/ /\ \E h \in after : shift' = [shift EXCEPT ![c.shift] = h]
        /\ Go(r, "successor")
     \/ after = {} /\ Done(r) /\ UNCHANGED shift
  /\ UNCHANGED register

(* acceptHandover, second transaction: the successor shift is inserted,    *)
(* its float the amount counted on the outgoing one.                       *)
CommitSuccessor(r) ==
  LET c == req[r].command  g == req[r].seen IN
  /\ req[r].at = "successor"
  /\ \/ /\ ~Exists(c.successor)
        /\ \E n \in g.finals :
             shift' = [shift EXCEPT ![c.successor] = NewShift(g.register, n.actual)]
     \/ Exists(c.successor) /\ UNCHANGED shift
  /\ Done(r)
  /\ UNCHANGED register

(* registers.insert, and registers.update under the version read or sent.  *)
CommitRegister(r) ==
  LET c == req[r].command
      k == c.register
      row == req[r].row
      written == IF c.op = "provision" THEN {}
                 ELSE RegisterOutcome(c.op, row, req[r].active # {}) \ {row}
      fresh == register[k].version = CheckedVersion(r, row.version)
  IN
  /\ req[r].at = "commit" /\ c \in RegisterCommand
  /\ \/ /\ c.op = "provision" /\ register[k] = NoRegister
        /\ register' = [register EXCEPT ![k] =
             [status |-> "provisioned", duty |-> "closed", archived |-> FALSE,
              version |-> 1]]
     \/ c.op = "provision" /\ register[k] # NoRegister /\ UNCHANGED register
     \/ /\ c.op # "provision" /\ fresh
        /\ \E d \in written : register' = [register EXCEPT ![k] = d]
     \/ c.op # "provision" /\ (written = {} \/ ~fresh) /\ UNCHANGED register
  /\ Done(r)
  /\ UNCHANGED shift

(* The process serving a request stops between two round trips.            *)
Crash(r) ==
  /\ req[r].at # "idle"
  /\ Done(r)
  /\ UNCHANGED <<shift, register>>

-----------------------------------------------------------------------------
Init ==
  /\ shift = [s \in Shifts |-> NoShift]
  /\ register = [k \in Registers |-> StartRegister]
  /\ req = [r \in Requests |-> Idle]

Step(r) ==
  \/ \E c \in Command : Begin(r, c)
  \/ LookupAttribution(r)
  \/ ReadHeader(r)
  \/ \E table \in ChildTables : ReadChild(r, table)
  \/ Decide(r)
  \/ ReadRegister(r)
  \/ ReadActive(r)
  \/ CommitShift(r)
  \/ CommitOpen(r)
  \/ CommitCorridor(r)
  \/ CommitHandover(r)
  \/ CommitSuccessor(r)
  \/ CommitRegister(r)
  \/ Crash(r)

Next == \E r \in Requests : Step(r)

Spec == Init /\ [][Next]_vars

-----------------------------------------------------------------------------
TypeOK ==
  /\ shift \in [Shifts -> Graph \cup {NoShift}]
  /\ register \in [Registers -> RegisterRow \cup {NoRegister}]
  /\ req \in [Requests -> Request]

(* What a request has read is a lower bound of what is stored, and as long *)
(* as the stored version is the one it read, everything it has read so far *)
(* is current, however its reads were interleaved with other commits. This *)
(* is what makes the version check at the write enough.                    *)
ReadsAgree(q, now) ==
  /\ now # NoShift
  /\ q.expected <= q.seen.version
  /\ q.seen.version <= now.version
  /\ q.seen.version = now.version =>
       /\ q.seen.register = now.register /\ q.seen.status = now.status
       /\ q.seen.reason = now.reason /\ q.seen.float = now.float
       /\ "movements" \notin q.unread => q.seen.moves = now.moves
       /\ "counts" \notin q.unread =>
            q.seen.interim = now.interim /\ q.seen.finals = now.finals
       /\ "handovers" \notin q.unread => q.seen.handover = now.handover
       /\ "attributions" \notin q.unread => q.seen.attrs = now.attrs

ReadIsConsistent ==
  \A r \in Requests :
    req[r].seen # NoShift => ReadsAgree(req[r], shift[req[r].command.shift])

(* With the operations the API offers, the variance a normal close freezes *)
(* is over everything the drawer holds: no movement or attribution slips   *)
(* in between the count and the close.                                     *)
CountCoversDrawer ==
  \A s \in Shifts : Exists(s) =>
    \A n \in shift[s].finals :
      n.moves = shift[s].moves /\ n.attrs = shift[s].attrs

(* One accepted handover passes the counted cash on once: only one request *)
(* gets to open the successor, the outgoing shift is closed by then, and   *)
(* the count it pays out is the one on record.                             *)
SuccessorOnce ==
  \A r \in Requests : req[r].at = "successor" =>
    LET s == req[r].command.shift IN
    /\ shift[s].reason = "handover"
    /\ shift[s].finals = req[r].seen.finals
    /\ \A q \in Requests \ {r} :
         req[q].at = "successor" => req[q].command.shift # s

(* Register rows move along the catalog and duty life cycles one version   *)
(* at a time, and an archived register is never changed again.             *)
RegisterLifecycle ==
  [][\A k \in Registers :
       LET old == register[k]  new == register'[k] IN
       old # NoRegister /\ new # old =>
         /\ new.version = old.version + 1
         /\ ~old.archived
         /\ <<old.status, new.status>> \in
              {<<"provisioned", "active">>, <<"active", "inactive">>,
               <<"inactive", "active">>, <<"active", "active">>,
               <<"inactive", "inactive">>}
         /\ new.status # "active" => new.duty = "closed"]_vars

(* OL-INV-02 / CR-INV-01: one active Financial Shift per register.         *)
OneActiveShift == \A k \in Registers : Cardinality(ActiveOn(k)) <= 1

(* Calls about to open a shift on register k: the ones that found no       *)
(* active shift, and the accepted handovers without their successor.       *)
Opening(k) ==
  {r \in Requests :
     \/ /\ req[r].at = "commit" /\ req[r].command.op = "openShift"
        /\ req[r].command.register = k /\ req[r].active = {}
     \/ req[r].at = "successor" /\ req[r].seen.register = k}

(* Openings and handovers that race can leave a register with more than    *)
(* one active shift, but never with more than there are calls at a time:   *)
(* races do not add up.  With one call at a time this is OL-INV-02.        *)
ActiveWithinCalls ==
  \A k \in Registers :
    Cardinality(ActiveOn(k)) + Cardinality(Opening(k)) <= Cardinality(Requests)

(* OL-INV-06 / CR-INV-04: a register with an active shift stays on duty    *)
(* and in the catalog.                                                     *)
OnDuty(k) ==
  /\ register[k] # NoRegister
  /\ register[k].duty # "closed" /\ register[k].status = "active"

HostsItsShifts(k) == ActiveOn(k) # {} => OnDuty(k)

(* A register is off duty under an active shift only by a call that could  *)
(* not know: an end of duty that had not seen every active shift, or an    *)
(* opening that had read an older row.                                     *)
OffDutyUnseen ==
  [][\A k \in Registers : HostsItsShifts(k) /\ ~HostsItsShifts(k)' =>
       \E r \in Requests :
         /\ req[r].at \in {"commit", "successor"} /\ req'[r] = Idle
         /\ \/ /\ EndsDuty(req[r].command) /\ RegisterOf(r) = k
               /\ ~(ActiveOn(k) \subseteq req[r].active)
            \/ r \in Opening(k) /\ req[r].row # register[k]]_vars
=============================================================================

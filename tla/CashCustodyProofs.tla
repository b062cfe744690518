-------------------------- MODULE CashCustodyProofs --------------------------
(***************************************************************************)
(* The services over the database implement the ledger: for every number   *)
(* of concurrent requests, every interleaving of their reads and writes,   *)
(* and every set of shifts, registers, movements, facts and operations,    *)
(* each commit is one command applied to the shift as it then stands.      *)
(* Then: what counts cover, handovers, and the rows of registers.          *)
(***************************************************************************)
EXTENDS CashCustody, ShiftLedgerProofs

(* A command's operation tells which service it is for.                    *)
LEMMA CommandSort ==
  ASSUME NEW c \in Command
  PROVE  /\ c \in ShiftCommand <=> c.op \in AllOps
         /\ c \in OpenCommand <=> c.op = "openShift"
         /\ c \in RegisterCommand <=> c.op \in RegisterOps
         /\ c \in ShiftCommand \cup OpenCommand => c.shift \in Shifts
         /\ c \in OpenCommand => c.register \in Registers /\ c.float \in Amounts
         /\ c \in RegisterCommand => c.register \in Registers
<1>1. c \in OpenCommand => c.op = "openShift" /\ c.shift \in Shifts
                           /\ c.register \in Registers /\ c.float \in Amounts
  BY DEF OpenCommand
<1>2. c \in RegisterCommand => c.op \in RegisterOps /\ c.register \in Registers
  BY DEF RegisterCommand
<1>3. c \in ShiftCommand => c.op \in AllOps /\ c.shift \in Shifts
  BY CommandInput
<1>4. c \in ShiftCommand \/ c \in OpenCommand \/ c \in RegisterCommand
  BY DEF Command
<1> QED BY <1>1, <1>2, <1>3, <1>4 DEF AllOps, PlainOps, RegisterOps

(* The inductive invariant, of one request: it works on a command from its *)
(* first step, holds a shift exactly when a shift command has read one,    *)
(* and what it has read agrees with the store.                             *)
Sound(q, stored) ==
  /\ q.at # "idle" => q.command \in Command
  /\ q.at = "lookup" => q.command \in ShiftCommand
  /\ q.at = "header" => q.command \in ShiftCommand \cup OpenCommand
  /\ q.at \in {"idle", "lookup", "header"} => q.seen = NoShift
  /\ q.at \in {"children", "successor"} => q.seen # NoShift
  /\ q.at \in {"register", "active", "commit"} /\ q.command \in ShiftCommand =>
       q.seen # NoShift
  /\ q.at \in {"register", "active"} /\ q.command \in ShiftCommand =>
       q.command.op \in {"closeWithFinalCount", "acceptHandover"}
  /\ q.seen # NoShift => q.command \in ShiftCommand
  /\ q.at # "children" => q.unread = {}
  /\ q.at = "successor" => q.command.op = "acceptHandover"
  /\ /\ q.at \in {"active", "commit"}
     /\ \/ q.command \in RegisterCommand /\ q.command.op # "provision"
        \/ ClosesDuty(q.command)
     => q.row # NoRegister
  /\ q.at # "idle" /\ q.command \in ShiftCommand /\ q.expected # 0 =>
       /\ stored[q.command.shift] # NoShift
       /\ q.expected <= stored[q.command.shift].version
  /\ q.seen # NoShift => ReadsAgree(q, stored[q.command.shift])

CustodyInv == TypeOK /\ \A r \in Requests : Sound(req[r], shift)

(* A request that has read the whole shift and finds its version unchanged *)
(* holds the shift as it is stored.                                        *)
LEMMA FreshIsCurrent ==
  ASSUME NEW q \in Request, NEW now \in Graph \cup {NoShift},
         q.seen # NoShift, q.unread = {}, ReadsAgree(q, now),
         q.seen.version = now.version
  PROVE  q.seen = now
<1>1. q.seen \in Graph /\ now \in Graph
  BY DEF Request, ReadsAgree
<1>2. ASSUME NEW g \in Graph, NEW h \in Graph,
             g.register = h.register, g.status = h.status, g.version = h.version,
             g.reason = h.reason, g.float = h.float, g.moves = h.moves,
             g.interim = h.interim, g.finals = h.finals, g.handover = h.handover,
             g.attrs = h.attrs
      PROVE  g = h
  BY <1>2 DEF Graph
<1> QED BY <1>1, <1>2 DEF ReadsAgree

(* A stored shift never goes away, and changes only to a later version.    *)
Advances(old, new) ==
  \A s \in Shifts : old[s] # NoShift =>
    /\ new[s] # NoShift
    /\ new[s] = old[s] \/ new[s].version > old[s].version

LEMMA LedgerAdvances ==
  ASSUME LedgerTypeOK, [LedgerNext]_shift
  PROVE  LedgerTypeOK' /\ Advances(shift, shift')
<1>1. LedgerTypeOK'
  BY StepCases DEF LedgerTypeOK
<1>2. ASSUME NEW s \in Shifts, Exists(s)
      PROVE  /\ shift'[s] # NoShift
             /\ shift'[s] = shift[s] \/ shift'[s].version > shift[s].version
  BY <1>2, StoredStep, OutcomeExtends, NoShiftAssumption DEF Extends
<1> QED BY <1>1, <1>2 DEF Advances, Exists

(* What is sound of a request stays sound while other requests commit.     *)
LEMMA SoundStays ==
  ASSUME NEW old \in [Shifts -> Graph \cup {NoShift}],
         NEW new \in [Shifts -> Graph \cup {NoShift}], Advances(old, new),
         NEW q \in Request, Sound(q, old)
  PROVE  Sound(q, new)
<1> DEFINE s == q.command.shift
<1>1. q.at # "idle" /\ q.command \in ShiftCommand => s \in Shifts
  BY CommandInput
<1>2. q.seen # NoShift => q.at # "idle" /\ q.command \in ShiftCommand
  BY DEF Sound
<1>3. q.expected \in Nat /\ (q.seen # NoShift => q.seen.version \in Nat)
  BY DEF Request, Graph
<1>4. ASSUME s \in Shifts, old[s] # NoShift
      PROVE  /\ new[s] # NoShift
             /\ old[s].version \in Nat /\ new[s].version \in Nat
             /\ new[s] = old[s] \/ new[s].version > old[s].version
  BY <1>4, NoShiftAssumption DEF Advances, Graph
<1>5. q.seen # NoShift => ReadsAgree(q, new[s])
  <2> SUFFICES ASSUME q.seen # NoShift PROVE ReadsAgree(q, new[s])
    OBVIOUS
  <2>1. ReadsAgree(q, old[s]) /\ s \in Shifts
    BY <1>1, <1>2 DEF Sound
  <2>2. CASE new[s] = old[s]
    BY <2>1, <2>2
  <2>3. CASE new[s].version > old[s].version
    BY <2>1, <2>3, <1>3, <1>4 DEF ReadsAgree
  <2> QED BY <2>1, <2>2, <2>3, <1>4 DEF ReadsAgree
<1>6. q.at # "idle" /\ q.command \in ShiftCommand /\ q.expected # 0 =>
        new[s] # NoShift /\ q.expected <= new[s].version
  <2> SUFFICES ASSUME q.at # "idle", q.command \in ShiftCommand, q.expected # 0
               PROVE  new[s] # NoShift /\ q.expected <= new[s].version
    OBVIOUS
  <2>1. old[s] # NoShift /\ q.expected <= old[s].version /\ s \in Shifts
    BY <1>1 DEF Sound
  <2> QED BY <2>1, <1>3, <1>4
<1> QED BY <1>5, <1>6 DEF Sound

-----------------------------------------------------------------------------
(* A request at its write holds what is stored, once the write is allowed. *)
LEMMA WriterIsCurrent ==
  ASSUME CustodyInv, NEW r \in Requests,
         req[r].at = "commit", req[r].command \in ShiftCommand,
         NEW h, NEW v, CanWrite(req[r].command.shift, v, h),
         v = req[r].seen.version \/ v = CheckedVersion(r, req[r].seen.version)
  PROVE  /\ Exists(req[r].command.shift) /\ KeysFree(req[r].command.shift, h)
         /\ shift[req[r].command.shift] = req[r].seen
<1> DEFINE q == req[r]
           now == shift[q.command.shift]
<1>1. /\ q \in Request /\ q.command.shift \in Shifts
      /\ now \in Graph \cup {NoShift}
  BY CommandInput DEF CustodyInv, TypeOK
<1>2. q.seen # NoShift /\ q.unread = {} /\ ReadsAgree(q, now)
  BY DEF CustodyInv, Sound
<1>3. now # NoShift /\ now.version \in Nat /\ q.seen.version \in Nat /\ q.expected \in Nat
  BY <1>1, <1>2 DEF ReadsAgree, Request, Graph
<1>4. q.seen.version = now.version
  BY <1>2, <1>3 DEF CanWrite, CheckedVersion, ReadsAgree
<1>5. q.seen = now
  BY <1>1, <1>2, <1>4, FreshIsCurrent
<1> QED BY <1>3, <1>5 DEF CanWrite, Exists

(* Every step of a request is a step of the ledger or leaves it alone.     *)
LEMMA StepIsLedger ==
  ASSUME CustodyInv, NEW r \in Requests, Step(r)
  PROVE  [LedgerNext]_shift
<1> DEFINE c == req[r].command
           g == req[r].seen
<1>1. ASSUME c \in ShiftCommand, req[r].at = "commit",
             NEW h \in Outcome(c, g), NEW v, CanWrite(c.shift, v, h),
             v = g.version \/ v = CheckedVersion(r, g.version),
             shift' = [shift EXCEPT ![c.shift] = h]
      PROVE  LedgerNext
  BY <1>1, WriterIsCurrent DEF LedgerNext, Apply
<1>2. CASE CommitShift(r)
  BY <1>1, <1>2 DEF CommitShift
<1>3. CASE CommitOpen(r)
  <2>1. c \in OpenCommand
    BY <1>3, CommandSort DEF CommitOpen, CustodyInv, Sound
  <2>2. c.shift \in Shifts /\ c.register \in Registers /\ c.float \in Amounts
    BY <2>1, CommandSort DEF Command
  <2> QED BY <1>3, <2>2 DEF CommitOpen, LedgerNext, Insert
<1>4. CASE CommitCorridor(r)
  <2>1. c \in ShiftCommand
    BY <1>4, CommandSort DEF CommitCorridor, ClosesDuty, CustodyInv, Sound, AllOps
  <2> QED BY <1>1, <1>4, <2>1 DEF CommitCorridor
<1>5. CASE CommitHandover(r)
  <2>1. c \in ShiftCommand
    BY <1>5, CommandSort DEF CommitHandover, CustodyInv, Sound, AllOps
  <2> QED BY <1>1, <1>5, <2>1 DEF CommitHandover
<1>6. CASE CommitSuccessor(r)
  <2>1. /\ c \in ShiftCommand /\ c.op = "acceptHandover" /\ g # NoShift
    BY <1>6 DEF CommitSuccessor, CustodyInv, Sound
  <2>2. /\ c.successor \in Shifts /\ g.register \in Registers
        /\ \A n \in g.finals : n.actual \in Amounts
    BY <2>1, CommandInput DEF CustodyInv, TypeOK, Request, Graph, FinalCount
  <2> QED BY <1>6, <2>2 DEF CommitSuccessor, LedgerNext, Insert
<1>7. CASE \/ \E d \in Command : Begin(r, d)
           \/ LookupAttribution(r) \/ ReadHeader(r)
           \/ (\E table \in ChildTables : ReadChild(r, table)) \/ Decide(r) \/ ReadRegister(r)
           \/ ReadActive(r) \/ CommitRegister(r) \/ Crash(r)
  BY <1>7 DEF Begin, LookupAttribution, ReadHeader, ReadChild,
              Decide, ReadRegister, ReadActive, CommitRegister, Crash
<1> QED BY <1>2, <1>3, <1>4, <1>5, <1>6, <1>7 DEF Step

-----------------------------------------------------------------------------
(* A request that ends is sound; one that moves on keeps what it has read. *)
LEMMA IdleSound ==
  ASSUME NEW stored
  PROVE  Idle \in Request /\ Sound(Idle, stored)
<1>1. Idle \in Request
  BY DEF Idle, Request, Stage
<1> QED BY <1>1 DEF Idle, Sound

LEMMA DoneSound ==
  ASSUME CustodyInv, NEW r \in Requests, Done(r)
  PROVE  /\ req' \in [Requests -> Request]
         /\ \A q \in Requests \ {r} : req'[q] = req[q]
         /\ Sound(req'[r], shift')
<1>1. req'[r] = Idle
  BY DEF Done, CustodyInv, TypeOK
<1> QED BY <1>1, IdleSound DEF Done, CustodyInv, TypeOK

LEMMA GoMoves ==
  ASSUME CustodyInv, NEW r \in Requests, NEW stage \in Stage, Go(r, stage)
  PROVE  /\ req' \in [Requests -> Request]
         /\ \A q \in Requests \ {r} : req'[q] = req[q]
         /\ req'[r].at = stage /\ req'[r].command = req[r].command
         /\ req'[r].expected = req[r].expected /\ req'[r].seen = req[r].seen
         /\ req'[r].unread = req[r].unread /\ req'[r].row = req[r].row
         /\ req'[r].active = req[r].active
<1>1. req[r] \in Request /\ req'[r] = [req[r] EXCEPT !.at = stage]
  BY DEF Go, CustodyInv, TypeOK
<1>2. req'[r] \in Request
  BY <1>1 DEF Request
<1>3. /\ req' \in [Requests -> Request]
      /\ \A q \in Requests \ {r} : req'[q] = req[q]
  BY <1>2 DEF Go, CustodyInv, TypeOK
<1> QED BY <1>1, <1>3 DEF Request

(* Moving on from a stage keeps a request sound if the next stage may have *)
(* what it holds.                                                          *)
LEMMA GoSound ==
  ASSUME CustodyInv, NEW r \in Requests,
         NEW stage \in {"header", "register", "active", "commit", "successor"},
         Go(r, stage), Sound(req[r], shift'),
         req[r].at # "idle", req[r].unread = {},
         stage = "header" => /\ req[r].seen = NoShift
                             /\ req[r].command \in ShiftCommand \cup OpenCommand,
         stage = "successor" => /\ req[r].seen # NoShift
                                /\ req[r].command.op = "acceptHandover",
         stage \in {"register", "active", "commit"}
           /\ req[r].command \in ShiftCommand => req[r].seen # NoShift,
         stage \in {"register", "active"} /\ req[r].command \in ShiftCommand =>
           req[r].command.op \in {"closeWithFinalCount", "acceptHandover"},
         stage \in {"active", "commit"} =>
           ~ClosesDuty(req[r].command)
             /\ ~(req[r].command \in RegisterCommand /\ req[r].command.op # "provision")
  PROVE  /\ req' \in [Requests -> Request]
         /\ \A q \in Requests \ {r} : req'[q] = req[q]
         /\ Sound(req'[r], shift')
<1>1. stage \in Stage
  BY DEF Stage
<1>2. /\ req' \in [Requests -> Request]
      /\ \A q \in Requests \ {r} : req'[q] = req[q]
      /\ req'[r].at = stage /\ req'[r].command = req[r].command
      /\ req'[r].expected = req[r].expected /\ req'[r].seen = req[r].seen
      /\ req'[r].unread = req[r].unread
  BY <1>1, GoMoves
<1> QED BY <1>2 DEF Sound, ReadsAgree

(* The fields of a request that a read fills in.                           *)
LEMMA ReadMoves ==
  ASSUME CustodyInv, NEW r \in Requests, NEW q \in Request,
         req' = [req EXCEPT ![r] = q]
  PROVE  /\ req' \in [Requests -> Request]
         /\ \A p \in Requests \ {r} : req'[p] = req[p]
         /\ req'[r] = q
  BY DEF CustodyInv, TypeOK

(* What a client sends and where its call starts.                          *)
LEMMA BeginSound ==
  ASSUME CustodyInv, NEW r \in Requests, NEW c \in Command, Begin(r, c)
  PROVE  /\ req' \in [Requests -> Request]
         /\ \A p \in Requests \ {r} : req'[p] = req[p]
         /\ Sound(req'[r], shift')
<1>1. PICK v \in {0} \cup When(TakesVersion(c), CurrentVersion(c)) :
        req' = [req EXCEPT ![r] = [Idle EXCEPT !.at = FirstStage(c),
                                               !.command = c, !.expected = v]]
  BY DEF Begin
<1> DEFINE q == [Idle EXCEPT !.at = FirstStage(c), !.command = c, !.expected = v]
<1>2. v = 0 \/ v = CurrentVersion(c)
  BY DEF When
<1>3. CurrentVersion(c) \in Nat
  BY CommandSort DEF CurrentVersion, CustodyInv, TypeOK, RegisterRow, Graph, Exists, Command
<1>4. /\ FirstStage(c) \in {"lookup", "register", "header"}
      /\ FirstStage(c) = "lookup" => c \in ShiftCommand
      /\ FirstStage(c) = "register" <=> c \in RegisterCommand
      /\ FirstStage(c) = "header" => c \in ShiftCommand \cup OpenCommand
  <2>1. /\ c \in RegisterCommand => FirstStage(c) = "register"
        /\ c.op = "attribution" => FirstStage(c) = "lookup" /\ c \in ShiftCommand
        /\ c \notin RegisterCommand /\ c.op # "attribution" =>
             FirstStage(c) = "header" /\ c \in ShiftCommand \cup OpenCommand
    BY CommandSort DEF FirstStage, RegisterOps, AllOps, Command
  <2>2. c.op = "attribution" => c \notin RegisterCommand
    BY CommandSort DEF RegisterOps
  <2> QED BY <2>1, <2>2
<1>5. q \in Request
  <2>1. Idle \in Request /\ v \in Nat /\ FirstStage(c) \in Stage
    BY <1>2, <1>3, <1>4, IdleSound DEF Stage
  <2> QED BY <2>1 DEF Request
<1>6. /\ q.at = FirstStage(c) /\ q.command = c /\ q.expected = v
      /\ q.seen = NoShift /\ q.unread = {}
  <2>1. Idle \in Request /\ Idle.seen = NoShift /\ Idle.unread = {}
    BY IdleSound DEF Idle
  <2> QED BY <2>1 DEF Request
<1>9. req' = [req EXCEPT ![r] = q] /\ shift' = shift
  BY <1>1 DEF Begin
<1>7. c \in ShiftCommand /\ v # 0 =>
        shift[c.shift] # NoShift /\ v <= shift[c.shift].version
  <2> SUFFICES ASSUME c \in ShiftCommand, v # 0
               PROVE  shift[c.shift] # NoShift /\ v <= shift[c.shift].version
    OBVIOUS
  <2>1. c \notin RegisterCommand
    BY CommandSort DEF RegisterOps, AllOps, PlainOps
  <2>2. Exists(c.shift) /\ v = shift[c.shift].version
    BY <1>2, <2>1 DEF CurrentVersion
  <2>3. v \in Nat
    BY <1>2, <1>3
  <2> QED BY <2>2, <2>3 DEF Exists
<1> HIDE DEF q
<1>8. Sound(q, shift)
  <2>1. ~(c \in RegisterCommand /\ c \in ShiftCommand)
    BY CommandSort DEF RegisterOps, AllOps, PlainOps
  <2> QED BY <1>4, <1>6, <1>7, <2>1 DEF Sound
<1> QED BY <1>5, <1>8, <1>9, ReadMoves

(* Reading the header starts the version bound on everything read later.   *)
LEMMA HeaderSound ==
  ASSUME CustodyInv, NEW r \in Requests, ReadHeader(r)
  PROVE  /\ req' \in [Requests -> Request]
         /\ \A p \in Requests \ {r} : req'[p] = req[p]
         /\ Sound(req'[r], shift')
<1> DEFINE old == req[r]
           c == old.command
           g == shift[c.shift]
           head == [g EXCEPT !.moves = {}, !.interim = FALSE, !.finals = {},
                             !.handover = "none", !.attrs = {}]
           q == [old EXCEPT !.at = "children", !.unread = ChildTables, !.seen = head]
<1>1. /\ old \in Request /\ Sound(old, shift) /\ old.at = "header"
      /\ c \in ShiftCommand \cup OpenCommand /\ c \in Command /\ c.shift \in Shifts
      /\ old.seen = NoShift /\ old.unread = {}
      /\ g \in Graph \cup {NoShift}
      /\ shift' = shift
  BY CommandSort DEF CustodyInv, TypeOK, Sound, ReadHeader
<1>2. \/ Done(r)
      \/ c.op = "openShift" /\ Go(r, "register")
      \/ /\ g # NoShift /\ c.op # "openShift"
         /\ req' = [req EXCEPT
              ![r].at = "children", ![r].unread = ChildTables, ![r].seen = head]
  BY DEF ReadHeader
<1>3. CASE Done(r)
  BY <1>3, DoneSound
<1>4. CASE c.op = "openShift" /\ Go(r, "register")
  <2>1. c \notin ShiftCommand
    BY <1>1, <1>4, CommandSort DEF AllOps, PlainOps
  <2> QED BY <1>1, <1>4, <2>1, GoSound
<1>5. CASE /\ g # NoShift /\ c.op # "openShift"
           /\ req' = [req EXCEPT
                ![r].at = "children", ![r].unread = ChildTables, ![r].seen = head]
  <2>1. c \in ShiftCommand /\ g \in Graph
    BY <1>1, <1>5, CommandSort
  <2>2. /\ head \in Graph /\ head.version = g.version
        /\ head.register = g.register /\ head.status = g.status
        /\ head.reason = g.reason /\ head.float = g.float
    BY <2>1 DEF Graph
  <2>3. req' = [req EXCEPT ![r] = q]
    BY <1>5 DEF CustodyInv, TypeOK
  <2> HIDE DEF head, g
  <2>4. /\ q \in Request /\ q.at = "children" /\ q.unread = ChildTables
        /\ q.seen = head /\ q.command = c /\ q.expected = old.expected
    BY <1>1, <2>2 DEF Request, Stage
  <2>5. /\ head.version \in Nat /\ old.expected \in Nat
        /\ old.expected <= g.version
    BY <1>1, <2>1, <2>2 DEF Sound, Request, Graph, g
  <2>6. ReadsAgree(q, g)
    BY <1>5, <2>2, <2>4, <2>5 DEF ReadsAgree, ChildTables
  <2>7. Sound(q, shift)
    BY <1>1, <2>1, <2>2, <2>4, <2>6, NoShiftAssumption DEF Sound, g
  <2> HIDE DEF q
  <2> QED BY <1>1, <2>3, <2>4, <2>7, ReadMoves
<1> QED BY <1>2, <1>3, <1>4, <1>5

(* A child table read later than the header agrees with the stored shift   *)
(* if the version the header had is still the stored one.                  *)
LEMMA ChildrenSound ==
  ASSUME CustodyInv, NEW r \in Requests, NEW table \in ChildTables, ReadChild(r, table)
  PROVE  /\ req' \in [Requests -> Request]
         /\ \A p \in Requests \ {r} : req'[p] = req[p]
         /\ Sound(req'[r], shift')
<1> DEFINE old == req[r]
           c == old.command
           g == shift[c.shift]
           seen ==
             CASE table = "movements"    -> [old.seen EXCEPT !.moves = g.moves]
               [] table = "counts"       -> [old.seen EXCEPT !.interim = g.interim,
                                                             !.finals = g.finals]
               [] table = "handovers"    -> [old.seen EXCEPT !.handover = g.handover]
               [] table = "attributions" -> [old.seen EXCEPT !.attrs = g.attrs]
           q == [old EXCEPT !.unread = @ \ {table}, !.seen = seen]
<1>1. /\ old \in Request /\ Sound(old, shift) /\ old.at = "children"
      /\ c \in ShiftCommand /\ c.shift \in Shifts
      /\ old.seen \in Graph /\ g \in Graph /\ old.unread \subseteq ChildTables
      /\ ReadsAgree(old, g) /\ shift' = shift
  <2>1. old \in Request /\ Sound(old, shift) /\ old.at = "children" /\ shift' = shift
    BY DEF CustodyInv, TypeOK, ReadChild
  <2>2. /\ old.seen # NoShift /\ c \in ShiftCommand /\ c.shift \in Shifts
        /\ ReadsAgree(old, g)
    BY <2>1, CommandInput DEF Sound
  <2> QED BY <2>1, <2>2 DEF Request, ReadsAgree, CustodyInv, TypeOK
<1>2. /\ seen \in Graph /\ seen.version = old.seen.version
      /\ seen.register = old.seen.register /\ seen.status = old.seen.status
      /\ seen.reason = old.seen.reason /\ seen.float = old.seen.float
  BY <1>1 DEF Graph, ChildTables
<1>3. /\ seen.moves = (IF table = "movements" THEN g.moves ELSE old.seen.moves)
      /\ seen.interim = (IF table = "counts" THEN g.interim ELSE old.seen.interim)
      /\ seen.finals = (IF table = "counts" THEN g.finals ELSE old.seen.finals)
      /\ seen.handover = (IF table = "handovers" THEN g.handover ELSE old.seen.handover)
      /\ seen.attrs = (IF table = "attributions" THEN g.attrs ELSE old.seen.attrs)
  BY <1>1 DEF Graph, ChildTables
<1>4. req' = [req EXCEPT ![r] = q]
  BY DEF ReadChild, CustodyInv, TypeOK
<1> HIDE DEF seen
<1>5. /\ q \in Request /\ q.at = "children" /\ q.unread = old.unread \ {table}
      /\ q.seen = seen /\ q.command = c /\ q.expected = old.expected
  BY <1>1, <1>2 DEF Request
<1> HIDE DEF q, g
<1>6. ReadsAgree(q, g)
  BY <1>1, <1>2, <1>3, <1>5 DEF ReadsAgree, ChildTables
<1>7. Sound(q, shift)
  BY <1>1, <1>2, <1>5, <1>6, NoShiftAssumption DEF Sound, g
<1> QED BY <1>1, <1>4, <1>5, <1>7, ReadMoves

(* Lookup and decision send a request on with what it holds, or end it.    *)
LEMMA DecideSound ==
  ASSUME CustodyInv, NEW r \in Requests, LookupAttribution(r) \/ Decide(r)
  PROVE  /\ req' \in [Requests -> Request]
         /\ \A p \in Requests \ {r} : req'[p] = req[p]
         /\ Sound(req'[r], shift')
<1>1. Sound(req[r], shift') /\ shift' = shift
  BY DEF CustodyInv, LookupAttribution, Decide
<1>2. CASE LookupAttribution(r)
  <2>1. /\ req[r].command \in ShiftCommand /\ req[r].seen = NoShift
        /\ req[r].unread = {} /\ req[r].at = "lookup"
    BY <1>1, <1>2 DEF LookupAttribution, Sound
  <2>2. Done(r) \/ Go(r, "header")
    BY <1>2 DEF LookupAttribution
  <2> QED BY <1>1, <2>1, <2>2, DoneSound, GoSound
<1>3. CASE Decide(r)
  <2>1. /\ req[r].command \in ShiftCommand /\ req[r].seen # NoShift
        /\ req[r].unread = {} /\ req[r].at = "children"
    BY <1>1, <1>3 DEF Decide, Sound
  <2>2. req[r].command \notin RegisterCommand
    BY <2>1, CommandSort DEF Command, AllOps, PlainOps, RegisterOps
  <2>3. \/ Done(r)
        \/ /\ req[r].command.op \in {"closeWithFinalCount", "acceptHandover"}
           /\ Go(r, "register")
        \/ ~ClosesDuty(req[r].command) /\ Go(r, "commit")
    BY <1>3 DEF Decide, ClosesDuty
  <2> QED BY <1>1, <2>1, <2>2, <2>3, DoneSound, GoSound
<1> QED BY <1>2, <1>3

(* Reading the register row, and the active shift of the register.         *)
LEMMA RowSound ==
  ASSUME CustodyInv, NEW r \in Requests, ReadRegister(r) \/ ReadActive(r)
  PROVE  /\ req' \in [Requests -> Request]
         /\ \A p \in Requests \ {r} : req'[p] = req[p]
         /\ Sound(req'[r], shift')
<1> DEFINE old == req[r]
           c == old.command
<1>1. /\ old \in Request /\ Sound(old, shift) /\ shift' = shift
      /\ old.at \in {"register", "active"} /\ c \in Command /\ old.unread = {}
      /\ c \in ShiftCommand => old.seen # NoShift
  BY DEF CustodyInv, TypeOK, ReadRegister, ReadActive, Sound
<1>2. /\ c \in RegisterCommand => c \notin ShiftCommand
      /\ c.op = "provision" => c \in RegisterCommand /\ ~ClosesDuty(c)
  BY <1>1, CommandSort DEF AllOps, PlainOps, RegisterOps, ClosesDuty
<1>3. ASSUME NEW q \in Request, req' = [req EXCEPT ![r] = q],
             q.at \in {"active", "commit"}, q.command = c, q.seen = old.seen,
             q.unread = old.unread, q.expected = old.expected, q.row # NoRegister,
             q.at = "active" /\ c \in ShiftCommand =>
               c.op \in {"closeWithFinalCount", "acceptHandover"}
      PROVE  /\ req' \in [Requests -> Request]
             /\ \A p \in Requests \ {r} : req'[p] = req[p]
             /\ Sound(req'[r], shift')
  <2>1. Sound(q, shift)
    BY <1>1, <1>3 DEF Sound, ReadsAgree
  <2> QED BY <1>1, <1>3, <2>1, ReadMoves
<1>4. CASE ReadRegister(r)
  <2> DEFINE row == register[RegisterOf(r)]
             stage == IF \/ c.op \in {"openShift", "deactivate",
                                     "archiveRegister", "closeDuty"}
                         \/ ClosesDuty(c)
                      THEN "active" ELSE "commit"
             q == [old EXCEPT !.row = row, !.at = stage]
  <2>1. \/ c.op = "provision" /\ Go(r, "commit")
        \/ Done(r)
        \/ row # NoRegister /\ req' = [req EXCEPT ![r].row = row, ![r].at = stage]
    BY <1>4 DEF ReadRegister
  <2>2. CASE c.op = "provision" /\ Go(r, "commit")
    BY <1>1, <1>2, <2>2, GoSound
  <2>3. CASE row # NoRegister /\ req' = [req EXCEPT ![r].row = row, ![r].at = stage]
    <3>1. RegisterOf(r) \in Registers
      <4>1. CASE c.op \in {"closeWithFinalCount", "acceptHandover"}
        <5>1. c \in ShiftCommand
          BY <1>1, <4>1, CommandSort DEF AllOps
        <5> QED BY <1>1, <4>1, <5>1 DEF RegisterOf, Request, Graph
      <4>2. CASE c.op \notin {"closeWithFinalCount", "acceptHandover"}
        <5>1. c \notin ShiftCommand
          BY <1>1, <1>4, <4>2 DEF ReadRegister, Sound
        <5> QED BY <1>1, <4>2, <5>1, CommandSort DEF RegisterOf, Command
      <4> QED BY <4>1, <4>2
    <3>2. row \in RegisterRow
      BY <2>3, <3>1 DEF CustodyInv, TypeOK
    <3>3. req' = [req EXCEPT ![r] = q] /\ stage \in {"active", "commit"}
      BY <2>3 DEF CustodyInv, TypeOK
    <3> HIDE DEF row, stage
    <3>4. /\ q \in Request /\ q.at = stage /\ q.command = c /\ q.seen = old.seen
          /\ q.unread = old.unread /\ q.expected = old.expected /\ q.row = row
      BY <1>1, <3>2, <3>3 DEF Request, Stage
    <3>5. c \in ShiftCommand => c.op \in {"closeWithFinalCount", "acceptHandover"}
      BY <1>1, <1>4 DEF ReadRegister, Sound
    <3> HIDE DEF q
    <3> QED BY <2>3, <3>3, <3>4, <3>5, <1>3
  <2> QED BY <2>1, <2>2, <2>3, DoneSound
<1>5. CASE ReadActive(r)
  <2>1. PICK found \in SUBSET ActiveOn(RegisterOf(r)) :
          req' = [req EXCEPT ![r].active = found, ![r].at = "commit"]
    BY <1>5 DEF ReadActive
  <2> DEFINE q == [old EXCEPT !.active = found, !.at = "commit"]
  <2>2. found \subseteq Shifts
    BY DEF ActiveOn
  <2>3. req' = [req EXCEPT ![r] = q]
    BY <2>1 DEF CustodyInv, TypeOK
  <2>4. /\ q \in Request /\ q.at = "commit" /\ q.command = c /\ q.seen = old.seen
        /\ q.unread = old.unread /\ q.expected = old.expected /\ q.row = old.row
    BY <1>1, <2>2 DEF Request, Stage
  <2> HIDE DEF q
  <2>5. Sound(q, shift)
    BY <1>1, <1>5, <2>4 DEF Sound, ReadsAgree, ReadActive
  <2> QED BY <1>1, <2>3, <2>4, <2>5, ReadMoves
<1> QED BY <1>4, <1>5

-----------------------------------------------------------------------------
(* The writes: a request ends, tries once more from the header, or goes on *)
(* from the closed shift to its successor.                                 *)
LEMMA CommitSound ==
  ASSUME CustodyInv, NEW r \in Requests, LedgerTypeOK', Advances(shift, shift'),
         \/ CommitShift(r) \/ CommitOpen(r) \/ CommitCorridor(r)
         \/ CommitHandover(r) \/ CommitSuccessor(r) \/ CommitRegister(r) \/ Crash(r)
  PROVE  /\ req' \in [Requests -> Request]
         /\ \A p \in Requests \ {r} : req'[p] = req[p]
         /\ Sound(req'[r], shift')
<1> DEFINE c == req[r].command
<1>1. req[r] \in Request /\ Sound(req[r], shift')
  BY SoundStays DEF CustodyInv, TypeOK, LedgerTypeOK
<1>2. ASSUME c \in ShiftCommand,
             req' = [req EXCEPT ![r] = [Idle EXCEPT !.at = "header", !.command = c,
                                                    !.retried = TRUE]]
      PROVE  /\ req' \in [Requests -> Request]
             /\ \A p \in Requests \ {r} : req'[p] = req[p]
             /\ Sound(req'[r], shift')
  <2> DEFINE q == [Idle EXCEPT !.at = "header", !.command = c, !.retried = TRUE]
  <2>1. c \in Command
    BY <1>2 DEF Command
  <2>2. q \in Request
    <3>1. Idle \in Request
      BY IdleSound
    <3> QED BY <2>1, <3>1 DEF Request, Stage
  <2>3. /\ q.at = "header" /\ q.command = c /\ q.expected = 0
        /\ q.seen = NoShift /\ q.unread = {}
    BY DEF Idle
  <2> HIDE DEF q
  <2>4. Sound(q, shift')
    BY <1>2, <2>1, <2>3 DEF Sound
  <2>5. req' = [req EXCEPT ![r] = q]
    BY <1>2 DEF q
  <2> QED BY <2>2, <2>4, <2>5, ReadMoves
<1>3. CASE CommitShift(r)
  <2>1. Done(r) \/ (/\ c \in ShiftCommand
                    /\ req' = [req EXCEPT ![r] = [Idle EXCEPT !.at = "header",
                                              !.command = c, !.retried = TRUE]])
    BY <1>3 DEF CommitShift
  <2> QED BY <2>1, <1>2, DoneSound
<1>4. CASE CommitHandover(r)
  <2>1. Done(r) \/ (c.op = "acceptHandover" /\ Go(r, "successor"))
    BY <1>4 DEF CommitHandover
  <2>2. c \in Command /\ req[r].at = "commit" /\ req[r].unread = {}
    BY <1>1, <1>4 DEF CommitHandover, Sound
  <2>3. c.op = "acceptHandover" => req[r].seen # NoShift
    BY <1>1, <1>4, <2>2, CommandSort DEF CommitHandover, Sound, AllOps
  <2> QED BY <1>1, <2>1, <2>2, <2>3, DoneSound, GoSound
<1>5. CASE CommitOpen(r) \/ CommitCorridor(r) \/ CommitSuccessor(r)
           \/ CommitRegister(r) \/ Crash(r)
  BY <1>5, DoneSound DEF CommitOpen, CommitCorridor, CommitSuccessor, CommitRegister, Crash
<1> QED BY <1>3, <1>4, <1>5

(* A register command makes a row of a row.                                *)
LEMMA RegisterOutcomeType ==
  ASSUME NEW op \in RegisterOps \ {"provision"}, NEW row \in RegisterRow,
         NEW hasActive, NEW d \in RegisterOutcome(op, row, hasActive)
  PROVE  d \in RegisterRow
<1>1. ASSUME NEW k \in RegisterRow
      PROVE  BumpRow(k) \in RegisterRow
  BY <1>1 DEF BumpRow, RegisterRow
<1>2. \/ d = row
      \/ d = BumpRow([row EXCEPT !.status = "active"])
      \/ d = BumpRow([row EXCEPT !.status = "inactive"])
      \/ d = BumpRow([row EXCEPT !.status = "inactive", !.archived = TRUE])
      \/ d = BumpRow([row EXCEPT !.duty = "open"])
      \/ d = BumpRow([row EXCEPT !.duty = "suspended"])
      \/ d = BumpRow([row EXCEPT !.duty = "closed"])
  BY DEF RegisterOutcome, RegisterOps, When
<1>3. /\ [row EXCEPT !.status = "active"] \in RegisterRow
      /\ [row EXCEPT !.status = "inactive"] \in RegisterRow
      /\ [row EXCEPT !.status = "inactive", !.archived = TRUE] \in RegisterRow
      /\ [row EXCEPT !.duty = "open"] \in RegisterRow
      /\ [row EXCEPT !.duty = "suspended"] \in RegisterRow
      /\ [row EXCEPT !.duty = "closed"] \in RegisterRow
  BY DEF RegisterRow
<1> QED BY <1>1, <1>2, <1>3

(* Register rows stay register rows.                                       *)
LEMMA RegisterTypes ==
  ASSUME CustodyInv, NEW r \in Requests, Step(r)
  PROVE  register' \in [Registers -> RegisterRow \cup {NoRegister}]
<1> DEFINE c == req[r].command
           row == req[r].row
<1>1. /\ register \in [Registers -> RegisterRow \cup {NoRegister}]
      /\ req[r] \in Request /\ Sound(req[r], shift)
  BY DEF CustodyInv, TypeOK
<1>2. CASE CommitCorridor(r)
  <2>1. row \in RegisterRow
    BY <1>1, <1>2 DEF CommitCorridor, Sound, Request
  <2>2. \/ register' = register
        \/ \E k, b : \E d \in RegisterOutcome("closeDuty", row, b) :
              register' = [register EXCEPT ![k] = d]
    BY <1>2 DEF CommitCorridor
  <2> QED BY <1>1, <2>1, <2>2, RegisterOutcomeType DEF RegisterOps
<1>3. CASE CommitRegister(r)
  <2>1. /\ c.op # "provision" => row \in RegisterRow
        /\ c.op \in RegisterOps
    BY <1>1, <1>3, CommandSort DEF CommitRegister, Sound, Request
  <2>2. \/ register' = register
        \/ register' = [register EXCEPT ![c.register] =
             [status |-> "provisioned", duty |-> "closed", archived |-> FALSE,
              version |-> 1]]
        \/ /\ c.op # "provision"
           /\ \E b : \E d \in RegisterOutcome(c.op, row, b) :
                register' = [register EXCEPT ![c.register] = d]
    BY <1>3 DEF CommitRegister
  <2>3. [status |-> "provisioned", duty |-> "closed", archived |-> FALSE,
         version |-> 1] \in RegisterRow
    BY DEF RegisterRow
  <2> QED BY <1>1, <2>1, <2>2, <2>3, RegisterOutcomeType
<1>4. CASE ~CommitCorridor(r) /\ ~CommitRegister(r)
  BY <1>1, <1>4 DEF Step, Begin, LookupAttribution, ReadHeader, ReadChild,
     Decide, ReadRegister, ReadActive, CommitShift, CommitOpen,
     CommitHandover, CommitSuccessor, Crash
<1> QED BY <1>2, <1>3, <1>4

-----------------------------------------------------------------------------
(* The inductive invariant holds at the start and after every step.        *)
LEMMA CustodyInit == Init => CustodyInv
<1> SUFFICES ASSUME Init PROVE CustodyInv
  OBVIOUS
<1>1. Idle \in Request /\ \A r \in Requests : req[r] = Idle /\ Sound(Idle, shift)
  BY IdleSound DEF Init
<1> QED BY <1>1, StartRegisterAssumption DEF Init, CustodyInv, TypeOK

LEMMA StepSound ==
  ASSUME CustodyInv, NEW r \in Requests, Step(r)
  PROVE  /\ [LedgerNext]_shift /\ LedgerTypeOK' /\ Advances(shift, shift')
         /\ req' \in [Requests -> Request]
         /\ \A p \in Requests \ {r} : req'[p] = req[p]
         /\ Sound(req'[r], shift')
<1>1. [LedgerNext]_shift
  BY StepIsLedger
<1>2. LedgerTypeOK' /\ Advances(shift, shift')
  BY <1>1, LedgerAdvances DEF CustodyInv, TypeOK, LedgerTypeOK
<1> QED BY <1>1, <1>2, BeginSound, HeaderSound, ChildrenSound, DecideSound, RowSound,
           CommitSound DEF Step

LEMMA CustodyStep == CustodyInv /\ [Next]_vars => CustodyInv' /\ [LedgerNext]_shift
<1> SUFFICES ASSUME CustodyInv, [Next]_vars PROVE CustodyInv' /\ [LedgerNext]_shift
  OBVIOUS
<1>1. CASE Next
  <2>1. PICK r \in Requests : Step(r)
    BY <1>1 DEF Next
  <2>2. /\ [LedgerNext]_shift /\ LedgerTypeOK' /\ Advances(shift, shift')
        /\ req' \in [Requests -> Request]
        /\ \A p \in Requests \ {r} : req'[p] = req[p]
        /\ Sound(req'[r], shift')
    BY <2>1, StepSound
  <2>3. register' \in [Registers -> RegisterRow \cup {NoRegister}]
    BY <2>1, RegisterTypes
  <2>4. \A p \in Requests \ {r} : Sound(req[p], shift')
    BY <2>2, SoundStays DEF CustodyInv, TypeOK, LedgerTypeOK
  <2> QED BY <2>2, <2>3, <2>4 DEF CustodyInv, TypeOK, LedgerTypeOK
<1>2. CASE UNCHANGED vars
  BY <1>2 DEF vars, CustodyInv, TypeOK
<1> QED BY <1>1, <1>2

(* Every request is in a stage its command allows, and what it read is     *)
(* current while the version it read still stands (persistShiftGraph).     *)
THEOREM CustodyInvariant == Spec => []CustodyInv
  BY CustodyInit, CustodyStep, PTL DEF Spec

(* Types are kept, and what a request has read is never contradicted by    *)
(* the store while the version it read still stands.                       *)
THEOREM CustodyTypes == Spec => []TypeOK
<1>1. CustodyInv => TypeOK
  BY DEF CustodyInv
<1> QED BY <1>1, CustodyInit, CustodyStep, PTL DEF Spec

(* However header, children and commits interleave, what was read under a  *)
(* version is what stands under it (loadShiftGraph).                       *)
THEOREM ReadsAreConsistent == Spec => []ReadIsConsistent
<1>1. CustodyInv => ReadIsConsistent
  BY DEF CustodyInv, ReadIsConsistent, Sound
<1> QED BY <1>1, CustodyInit, CustodyStep, PTL DEF Spec

(* Whatever the interleaving of concurrent requests and crashes, the store *)
(* behaves as the ledger: one whole command at a time, on current data.    *)
THEOREM CustodyImplementsLedger == Spec => LedgerSpec
<1>1. Init => LedgerInit
  BY DEF Init, LedgerInit
<1> QED BY <1>1, CustodyInit, CustodyStep, PTL DEF Spec, LedgerSpec

(* Hence recorded custody survives every race of requests.                   *)
THEOREM CustodyKept == Spec => CustodyOnlyGrows /\ ClosedIsFrozen
  BY CustodyImplementsLedger, CustodyNeverLost, ClosedStaysFrozen, PTL

(* Two payouts that race for the same cash do not both get it.             *)
THEOREM CustodyPayoutsCovered == Spec => PayoutIsCovered
  BY CustodyImplementsLedger, PayoutsAreCovered, PTL

(* Counts cover the drawer in every race, unless a client counts apart     *)
(* from the close (commitCloseCorridor, closeFinancialShiftWithFinalCount). *)
THEOREM CountsCoverDrawer ==
  ASSUME "finalCount" \notin Ops
  PROVE  Spec => []CountCoversDrawer
<1>1. AllCounted => CountCoversDrawer
  BY DEF AllCounted, Counted, CountCoversDrawer
<1> QED BY <1>1, CustodyImplementsLedger, CountsAreWhole, PTL

-----------------------------------------------------------------------------
(* A handover is written once: the shift it closes cannot be handed over   *)
(* again, and a closed shift keeps its count.                              *)
LEMMA HandedOverStays ==
  ASSUME LedgerTypeOK, EndIsAccounted, [LedgerNext]_shift,
         NEW s \in Shifts, Exists(s), shift[s].reason = "handover"
  PROVE  shift'[s].reason = "handover" /\ shift'[s].finals = shift[s].finals
<1>1. shift[s] \in Graph /\ shift[s].status \in Terminal
  BY DEF LedgerTypeOK, EndIsAccounted, Accounted, Exists
<1>2. shift'[s] = shift[s] \/ shift'[s] = Enter(shift[s], "archived")
  BY <1>1, StoredStep, TerminalOutcome
<1> QED BY <1>1, <1>2, StepFields

(* Two accepting requests never both get as far as the successor: the      *)
(* second finds the version moved.                                         *)
LEMMA SuccessorStep ==
  ASSUME CustodyInv, EndIsAccounted, SuccessorOnce, NEW r \in Requests, Step(r)
  PROVE  SuccessorOnce'
<1>1. /\ [LedgerNext]_shift /\ LedgerTypeOK
      /\ \A p \in Requests \ {r} : req'[p] = req[p]
  BY StepSound DEF CustodyInv, TypeOK, LedgerTypeOK
<1>2. ASSUME NEW p \in Requests, req[p].at = "successor"
      PROVE  LET s == req[p].command.shift IN
             /\ shift[s].reason = "handover" /\ shift'[s].reason = "handover"
             /\ shift'[s].finals = req[p].seen.finals
  <2>1. req[p].command.shift \in Shifts /\ Exists(req[p].command.shift)
    BY <1>2, CommandInput DEF CustodyInv, Sound, ReadsAgree, Exists
  <2>2. /\ shift[req[p].command.shift].reason = "handover"
        /\ shift[req[p].command.shift].finals = req[p].seen.finals
    BY <1>2 DEF SuccessorOnce
  <2> QED BY <1>1, <2>1, <2>2, HandedOverStays
<1>3. CASE req'[r].at # "successor"
  <2> SUFFICES ASSUME NEW p \in Requests, req'[p].at = "successor"
               PROVE  LET s == req'[p].command.shift IN
                      /\ shift'[s].reason = "handover"
                      /\ shift'[s].finals = req'[p].seen.finals
                      /\ \A q \in Requests \ {p} :
                           req'[q].at = "successor" => req'[q].command.shift # s
    BY DEF SuccessorOnce
  <2>1. p # r /\ req'[p] = req[p]
    BY <1>1, <1>3
  <2>2. ASSUME NEW q \in Requests \ {p}, req'[q].at = "successor"
        PROVE  req'[q].command.shift # req[p].command.shift
    <3>1. q # r /\ req'[q] = req[q]
      BY <1>1, <1>3, <2>2
    <3> QED BY <2>1, <2>2, <3>1 DEF SuccessorOnce
  <2> QED BY <1>2, <2>1, <2>2
<1>4. CASE req'[r].at = "successor"
  <2> DEFINE c == req[r].command
             g == req[r].seen
  <2>1. CommitHandover(r) /\ Go(r, "successor")
    <3>1. ASSUME Done(r) PROVE FALSE
      <4>1. req'[r].at = "idle"
        BY <3>1 DEF Done, Idle, CustodyInv, TypeOK
      <4> QED BY <1>4, <4>1
    <3>2. ASSUME NEW stage \in Stage, Go(r, stage), stage # "successor" PROVE FALSE
      BY <1>4, <3>2, GoMoves
    <3>3. CASE \E d \in Command : Begin(r, d)
      <4> PICK d \in Command : Begin(r, d)
        BY <3>3
      <4>1. PICK v : req' = [req EXCEPT ![r] = [Idle EXCEPT !.at = FirstStage(d),
                                                            !.command = d,
                                                            !.expected = v]]
        BY DEF Begin
      <4>2. req'[r].at = FirstStage(d)
        BY <4>1 DEF Idle, CustodyInv, TypeOK
      <4> QED BY <1>4, <4>2 DEF FirstStage
    <3>4. CASE LookupAttribution(r)
      BY <3>1, <3>2, <3>4 DEF LookupAttribution, Stage
    <3>5. CASE ReadHeader(r)
      <4>1. \/ Done(r) \/ Go(r, "register")
            \/ req'[r].at = "children"
        BY <3>5 DEF ReadHeader, CustodyInv, TypeOK, Request
      <4> QED BY <1>4, <3>1, <3>2, <4>1 DEF Stage
    <3>6. CASE \E table \in ChildTables : ReadChild(r, table)
      <4>1. req'[r].at = "children"
        BY <3>6 DEF ReadChild, CustodyInv, TypeOK, Request
      <4> QED BY <1>4, <4>1
    <3>7. CASE Decide(r)
      BY <3>1, <3>2, <3>7 DEF Decide, Stage
    <3>8. CASE ReadRegister(r) \/ ReadActive(r)
      <4>1. \/ Done(r) \/ Go(r, "commit")
            \/ req'[r].at \in {"active", "commit"}
        BY <3>8 DEF ReadRegister, ReadActive, CustodyInv, TypeOK, Request
      <4> QED BY <1>4, <3>1, <3>2, <4>1 DEF Stage
    <3>9. CASE CommitShift(r)
      <4>1. Done(r) \/ req'[r].at = "header"
        BY <3>9 DEF CommitShift, CustodyInv, TypeOK, Idle
      <4> QED BY <1>4, <3>1, <4>1
    <3>10. CASE \/ CommitOpen(r) \/ CommitCorridor(r) \/ CommitSuccessor(r)
                \/ CommitRegister(r) \/ Crash(r)
      BY <3>1, <3>10 DEF CommitOpen, CommitCorridor, CommitSuccessor, CommitRegister, Crash
    <3>11. CASE CommitHandover(r)
      BY <3>1, <3>11 DEF CommitHandover
    <3> QED BY <3>3, <3>4, <3>5, <3>6, <3>7, <3>8, <3>9, <3>10, <3>11 DEF Step
  <2>2. /\ c \in ShiftCommand /\ c.op = "acceptHandover" /\ c.shift \in Shifts
        /\ req[r].at = "commit"
    BY <2>1, CommandSort DEF CommitHandover, CustodyInv, Sound, AllOps
  <2>3. PICK h \in Outcome(c, g) :
          /\ CanWrite(c.shift, g.version, h)
          /\ shift' = [shift EXCEPT ![c.shift] = h]
    <3>1. ~Done(r)
      BY <1>4 DEF Done, Idle, CustodyInv, TypeOK
    <3> QED BY <2>1, <3>1 DEF CommitHandover
  <2>4. shift[c.shift] = g /\ g \in Graph /\ Exists(c.shift)
    BY <2>2, <2>3, WriterIsCurrent DEF Exists, CustodyInv, TypeOK
  <2>5. /\ g.status = "handover_pending"
        /\ h = Finish([g EXCEPT !.handover = "accepted"], "handover")
    BY <2>2 DEF Outcome, AcceptHandover, When
  <2>6. h.reason = "handover" /\ h.finals = g.finals
    <3> DEFINE k == [g EXCEPT !.handover = "accepted"]
    <3>1. k \in Graph /\ k.finals = g.finals
      BY <2>4 DEF Graph
    <3> HIDE DEF k
    <3> QED BY <2>5, <3>1, StepFields DEF k
  <2>7. g.reason # "handover"
    BY <2>2, <2>4, <2>5 DEF EndIsAccounted, Accounted, Terminal
  <2>8. /\ req'[r].command = c /\ req'[r].seen = g
        /\ shift'[c.shift] = h
    BY <2>1, <2>2, <2>3, GoMoves DEF Stage, CustodyInv, TypeOK
  <2>9. \A q \in Requests \ {r} : req[q].at = "successor" => req[q].command.shift # c.shift
    BY <1>2, <2>4, <2>7
  <2> SUFFICES ASSUME NEW p \in Requests, req'[p].at = "successor"
               PROVE  LET s == req'[p].command.shift IN
                      /\ shift'[s].reason = "handover"
                      /\ shift'[s].finals = req'[p].seen.finals
                      /\ \A q \in Requests \ {p} :
                           req'[q].at = "successor" => req'[q].command.shift # s
    BY DEF SuccessorOnce
  <2>10. CASE p = r
    BY <1>1, <2>6, <2>8, <2>9, <2>10
  <2>11. CASE p # r
    <3>1. req'[p] = req[p]
      BY <1>1, <2>11
    <3>2. ASSUME NEW q \in Requests \ {p}, req'[q].at = "successor"
          PROVE  req'[q].command.shift # req[p].command.shift
      <4>1. CASE q = r
        BY <2>8, <2>9, <2>11, <3>1, <4>1
      <4>2. CASE q # r
        <5>1. req'[q] = req[q]
          BY <1>1, <4>2
        <5> QED BY <3>1, <3>2, <5>1 DEF SuccessorOnce
      <4> QED BY <4>1, <4>2
    <3> QED BY <1>2, <3>1, <3>2
  <2> QED BY <2>10, <2>11
<1> QED BY <1>3, <1>4

(* One accepted handover opens one successor, from the count on record of  *)
(* a shift that is closed (acceptHandover of FinancialShiftDomainService). *)
THEOREM HandoverOnce == Spec => []SuccessorOnce
<1>1. Init => SuccessorOnce
  BY DEF Init, Idle, SuccessorOnce
<1>2. CustodyInv /\ EndIsAccounted /\ SuccessorOnce /\ [Next]_vars => SuccessorOnce'
  <2>1. CustodyInv /\ EndIsAccounted /\ SuccessorOnce /\ Next => SuccessorOnce'
    BY SuccessorStep DEF Next
  <2>2. SuccessorOnce /\ UNCHANGED vars => SuccessorOnce'
    BY DEF vars, SuccessorOnce
  <2> QED BY <2>1, <2>2
<1> QED BY <1>1, <1>2, CustodyInvariant, CustodyImplementsLedger, EndsAreAccounted, PTL DEF Spec

-----------------------------------------------------------------------------
(* Register rows.  A row that is not in the catalog is off duty, and an    *)
(* archived one is not active.                                             *)
Lawful(row) ==
  /\ row.archived => row.status = "inactive"
  /\ row.status # "active" => row.duty = "closed"

RegOf(q) ==
  IF q.command.op \in {"closeWithFinalCount", "acceptHandover"}
  THEN q.seen.register ELSE q.command.register

(* A row that was read is no newer than the stored one, and is the stored  *)
(* one if its version is; the version a client sent is no newer than both. *)
RowAgrees(q, rows) ==
  /\ q.row # NoRegister =>
       /\ q.at \in {"active", "commit", "successor"} /\ RegOf(q) \in Registers
       /\ rows[RegOf(q)] # NoRegister
       /\ q.row.version <= rows[RegOf(q)].version
       /\ q.row.version = rows[RegOf(q)].version => q.row = rows[RegOf(q)]
       /\ q.command \in RegisterCommand => q.expected <= q.row.version
  /\ q.at # "idle" /\ q.command \in RegisterCommand /\ q.expected # 0 =>
       /\ rows[q.command.register] # NoRegister
       /\ q.expected <= rows[q.command.register].version
  /\ \/ q.at = "successor"
     \/ q.at \in {"active", "commit"} /\ q.command.op \in {"openShift", "acceptHandover"}
     => q.row # NoRegister

RowsInv ==
  /\ \A k \in Registers : register[k] # NoRegister => Lawful(register[k])
  /\ \A r \in Requests : RowAgrees(req[r], register)

(* Active shifts and calls about to open one: as many as there are calls.  *)
CallsInv ==
  \A k \in Registers :
    /\ IsFiniteSet(ActiveOn(k))
    /\ Cardinality(ActiveOn(k)) + Cardinality(Opening(k)) <= Cardinality(Requests)

(* The active shift a call that ends a duty may still find at its write.   *)
MayRemain(q) == IF ClosesDuty(q.command) THEN {q.command.shift} ELSE {}

(* What a request knows for good: the row that hosts a successor hosted    *)
(* it, and a shift that was read closed stays closed.                      *)
Settled(q, shifts) ==
  /\ q.at = "successor" => CanHostShift(q.row)
  /\ q.seen # NoShift => (q.seen.status \in Terminal =>
       shifts[q.command.shift].status \in Terminal)

SettledInv == \A r \in Requests : Settled(req[r], shift)

-----------------------------------------------------------------------------
(* The steps of a request, from record p to record n: what they read and   *)
(* what they leave alone.                                                  *)
Kept(p, n) ==
  n.command = p.command /\ n.expected = p.expected /\ n.seen = p.seen

Begins(p, n) ==
  /\ p.at = "idle" /\ n.at \in {"lookup", "header", "register"}
  /\ n.command \in Command /\ n.seen = NoShift /\ n.row = NoRegister
  /\ n.expected = 0 \/ n.expected = CurrentVersion(n.command)

Reads(p, n) ==
  /\ p.at \in {"lookup", "header", "children", "commit"}
  /\ n.at \in {"header", "children", "register"}
  /\ n.command = p.command /\ n.expected \in {0, p.expected} /\ n.row = NoRegister
  /\ \/ n.seen = NoShift
     \/ p.seen # NoShift /\ n.seen.status = p.seen.status
     \/ n.seen.status = shift[p.command.shift].status

GoesToWrite(p, n) ==
  /\ p.at \in {"children", "register"} /\ n.at = "commit"
  /\ Kept(p, n) /\ n.row = NoRegister
  /\ ~EndsDuty(p.command) /\ p.command.op \notin {"openShift", "acceptHandover"}

ReadsRow(p, n) ==
  /\ p.at = "register" /\ n.at \in {"active", "commit"} /\ Kept(p, n)
  /\ RegOf(p) \in Registers /\ register[RegOf(p)] # NoRegister
  /\ n.row = register[RegOf(p)]
  /\ n.at = "commit" => ~EndsDuty(p.command) /\ p.command.op # "openShift"

FindsActive(p, n) ==
  /\ p.at = "active" /\ n.at = "commit" /\ Kept(p, n) /\ n.row = p.row
  /\ n.active \subseteq ActiveOn(RegOf(p))
  /\ n.active = {} => ActiveOn(RegOf(p)) = {}

HandsOver(p, n) ==
  /\ p.at = "commit" /\ p.command.op = "acceptHandover" /\ n.at = "successor"
  /\ Kept(p, n) /\ n.row = p.row /\ CanHostShift(p.row)

Turn(p, n) ==
  \/ n = Idle /\ p.at # "idle"
  \/ HandsOver(p, n) /\ UNCHANGED register
  \/ /\ Begins(p, n) \/ Reads(p, n) \/ GoesToWrite(p, n) \/ ReadsRow(p, n) \/ FindsActive(p, n)
     /\ UNCHANGED <<shift, register>>

(* The register a command that reads its row works on.                     *)
LEMMA WorksOn ==
  ASSUME CustodyInv, NEW r \in Requests, req[r].at \in {"register", "active", "commit", "successor"},
         \/ req[r].at \in {"register", "active", "successor"}
         \/ req[r].command \notin ShiftCommand
         \/ req[r].command.op \in {"closeWithFinalCount", "acceptHandover"}
  PROVE  RegOf(req[r]) \in Registers
<1> DEFINE c == req[r].command
<1>1. /\ c \in Command /\ req[r] \in Request /\ Sound(req[r], shift)
  BY DEF CustodyInv, TypeOK, Sound
<1>2. c.op \in {"closeWithFinalCount", "acceptHandover"} => c \in ShiftCommand
  BY <1>1, CommandSort DEF AllOps
<1>3. c \in ShiftCommand => req[r].seen \in Graph
                            /\ c.op \in {"closeWithFinalCount", "acceptHandover"}
  BY <1>1 DEF Sound, Request
<1>4. c \notin ShiftCommand => c.register \in Registers
  BY <1>1, CommandSort DEF Command
<1> QED BY <1>2, <1>3, <1>4 DEF RegOf, Graph

(* A request that goes on keeps what it has read.                          *)
LEMMA MovesOn ==
  ASSUME CustodyInv, NEW r \in Requests, NEW stage \in Stage, Go(r, stage)
  PROVE  /\ req'[r].at = stage /\ Kept(req[r], req'[r])
         /\ req'[r].row = req[r].row
  BY GoMoves DEF Kept

(* Every action of a service turns its request in one of the ways above.   *)
LEMMA StepShape ==
  ASSUME CustodyInv, NEW r \in Requests, RowAgrees(req[r], register), Step(r)
  PROVE  Turn(req[r], req'[r])
<1> DEFINE c == req[r].command
           p == req[r]
           n == req'[r]
<1>1. p \in Request /\ Sound(p, shift) /\ req \in [Requests -> Request]
  BY DEF CustodyInv, TypeOK
<1>2. p.at \notin {"active", "commit", "successor"} => p.row = NoRegister
  BY DEF RowAgrees
<1>3. ASSUME Done(r), p.at # "idle" PROVE Turn(p, n)
  <2>1. n = Idle
    BY <1>1, <1>3 DEF Done
  <2> QED BY <1>3, <2>1 DEF Turn
<1>4. ASSUME NEW d \in Command, Begin(r, d) PROVE Turn(p, n)
  <2>1. PICK v \in {0} \cup When(TakesVersion(d), CurrentVersion(d)) :
          req' = [req EXCEPT ![r] = [Idle EXCEPT !.at = FirstStage(d),
                                                 !.command = d, !.expected = v]]
    BY <1>4 DEF Begin
  <2>2. v = 0 \/ v = CurrentVersion(d)
    BY DEF When
  <2>3. n = [Idle EXCEPT !.at = FirstStage(d), !.command = d, !.expected = v]
    BY <1>1, <2>1
  <2>4. Idle \in Request /\ Idle.seen = NoShift /\ Idle.row = NoRegister
    BY IdleSound DEF Idle
  <2>5. /\ n.at = FirstStage(d) /\ n.command = d /\ n.expected = v
        /\ n.seen = NoShift /\ n.row = NoRegister
    BY <2>3, <2>4 DEF Request
  <2>6. FirstStage(d) \in {"lookup", "register", "header"}
    BY DEF FirstStage
  <2> QED BY <1>4, <2>2, <2>5, <2>6 DEF Turn, Begins, Begin
<1>5. CASE LookupAttribution(r)
  <2>1. CASE Done(r)
    BY <1>3, <1>5, <2>1 DEF LookupAttribution
  <2>2. CASE Go(r, "header")
    <3>1. n.at = "header" /\ Kept(p, n) /\ n.row = NoRegister /\ p.seen = NoShift
      BY <1>1, <1>2, <1>5, <2>2, MovesOn DEF LookupAttribution, Sound, Stage
    <3> QED BY <1>5, <3>1 DEF Turn, Reads, Kept, LookupAttribution
  <2> QED BY <1>5, <2>1, <2>2 DEF LookupAttribution
<1>6. CASE ReadHeader(r)
  <2> DEFINE g == shift[c.shift]
  <2>1. CASE Done(r)
    BY <1>3, <1>6, <2>1 DEF ReadHeader
  <2>2. CASE Go(r, "register")
    <3>1. n.at = "register" /\ Kept(p, n) /\ n.row = NoRegister /\ p.seen = NoShift
      BY <1>1, <1>2, <1>6, <2>2, MovesOn DEF ReadHeader, Sound, Stage
    <3> QED BY <1>6, <3>1 DEF Turn, Reads, Kept, ReadHeader
  <2>3. CASE /\ g # NoShift
             /\ req' = [req EXCEPT
                  ![r].at = "children", ![r].unread = ChildTables,
                  ![r].seen = [g EXCEPT !.moves = {}, !.interim = FALSE, !.finals = {},
                                        !.handover = "none", !.attrs = {}]]
    <3> DEFINE h == [g EXCEPT !.moves = {}, !.interim = FALSE, !.finals = {},
                              !.handover = "none", !.attrs = {}]
    <3>1. g \in Graph
      <4>1. p.at = "header" /\ c \in ShiftCommand \cup OpenCommand /\ c \in Command
        BY <1>1, <1>6 DEF ReadHeader, Sound
      <4> QED BY <2>3, <4>1, CommandSort DEF CustodyInv, TypeOK
    <3>2. h.status = g.status
      BY <3>1 DEF Graph
    <3>3. req' = [req EXCEPT ![r].at = "children", ![r].unread = ChildTables, ![r].seen = h]
      BY <2>3
    <3> HIDE DEF h
    <3>4. /\ n.at = "children" /\ n.seen = h /\ n.command = c
          /\ n.expected = p.expected /\ n.row = p.row
      BY <1>1, <3>3 DEF Request
    <3> QED BY <1>2, <1>6, <3>2, <3>4 DEF Turn, Reads, ReadHeader
  <2> QED BY <1>6, <2>1, <2>2, <2>3 DEF ReadHeader
<1>7. ASSUME NEW table \in ChildTables, ReadChild(r, table) PROVE Turn(p, n)
  <2> DEFINE g == shift[c.shift]
             seen == req[r].seen
             read == CASE table = "movements"    -> [seen EXCEPT !.moves = g.moves]
                       [] table = "counts"       -> [seen EXCEPT !.interim = g.interim,
                                                                 !.finals = g.finals]
                       [] table = "handovers"    -> [seen EXCEPT !.handover = g.handover]
                       [] table = "attributions" -> [seen EXCEPT !.attrs = g.attrs]
  <2>1. p.at = "children" /\ p.seen \in Graph /\ p.seen # NoShift
    BY <1>1, <1>7 DEF ReadChild, Sound, Request
  <2>2. read.status = p.seen.status
    BY <2>1 DEF Graph, ChildTables
  <2>3. req' = [req EXCEPT ![r] = [req[r] EXCEPT !.unread = @ \ {table}, !.seen = read]]
    BY <1>7 DEF ReadChild
  <2> HIDE DEF read
  <2>4. /\ n.at = "children" /\ n.seen = read /\ n.command = c
        /\ n.expected = p.expected /\ n.row = p.row
    BY <1>1, <2>1, <2>3 DEF Request
  <2> QED BY <1>2, <1>7, <2>1, <2>2, <2>4 DEF Turn, Reads, ReadChild
<1>8. CASE Decide(r)
  <2>1. CASE Done(r)
    BY <1>3, <1>8, <2>1 DEF Decide
  <2>2. CASE Go(r, "register")
    <3>1. n.at = "register" /\ Kept(p, n) /\ n.row = NoRegister /\ p.seen # NoShift
      BY <1>1, <1>2, <1>8, <2>2, MovesOn DEF Decide, Sound, Stage
    <3> QED BY <1>8, <3>1 DEF Turn, Reads, Kept, Decide
  <2>3. CASE Go(r, "commit") /\ ~ClosesDuty(c) /\ c.op # "acceptHandover"
    <3>1. n.at = "commit" /\ Kept(p, n) /\ n.row = NoRegister /\ c \in ShiftCommand
      BY <1>1, <1>2, <1>8, <2>3, MovesOn DEF Decide, Sound, Stage
    <3>2. ~EndsDuty(c) /\ c.op # "openShift"
      BY <2>3, <3>1, CommandInput DEF EndsDuty, AllOps, PlainOps
    <3> QED BY <1>8, <2>3, <3>1, <3>2 DEF Turn, GoesToWrite, Decide
  <2> QED BY <1>8, <2>1, <2>2, <2>3 DEF Decide
<1>9. CASE ReadRegister(r)
  <2>1. CASE Done(r)
    BY <1>3, <1>9, <2>1 DEF ReadRegister
  <2>2. CASE Go(r, "commit") /\ c.op = "provision"
    <3>1. n.at = "commit" /\ Kept(p, n) /\ n.row = NoRegister
      BY <1>1, <1>2, <1>9, <2>2, MovesOn DEF ReadRegister, Stage
    <3>2. ~EndsDuty(c)
      BY <2>2 DEF EndsDuty, ClosesDuty
    <3> QED BY <1>9, <2>2, <3>1, <3>2 DEF Turn, GoesToWrite, ReadRegister
  <2>3. CASE ~Done(r) /\ c.op # "provision"
    <3> DEFINE row == register[RegisterOf(r)]
               stage == IF \/ c.op \in {"openShift", "deactivate",
                                        "archiveRegister", "closeDuty"}
                           \/ ClosesDuty(c)
                        THEN "active" ELSE "commit"
    <3>1. RegisterOf(r) = RegOf(p)
      BY DEF RegisterOf, RegOf
    <3>2. /\ p.at = "register" /\ row # NoRegister
          /\ req' = [req EXCEPT ![r].row = row, ![r].at = stage]
      BY <1>9, <2>3 DEF ReadRegister
    <3>3. RegOf(p) \in Registers
      BY <3>2, WorksOn
    <3> HIDE DEF row, stage
    <3>4. n.at = stage /\ n.row = row /\ Kept(p, n)
      BY <1>1, <3>2 DEF Request, Kept
    <3>5. stage \in {"active", "commit"}
          /\ (stage = "commit" => ~EndsDuty(c) /\ c.op # "openShift")
      BY DEF stage, EndsDuty
    <3> QED BY <1>9, <3>1, <3>2, <3>3, <3>4, <3>5 DEF Turn, ReadsRow, ReadRegister, row
  <2> QED BY <1>9, <2>1, <2>2, <2>3 DEF ReadRegister
<1>10. CASE ReadActive(r)
  <2>1. RegisterOf(r) = RegOf(p)
    BY DEF RegisterOf, RegOf
  <2>2. PICK found \in SUBSET ActiveOn(RegOf(p)) :
          /\ Cardinality(found) = (IF ActiveOn(RegOf(p)) = {} THEN 0 ELSE 1)
          /\ req' = [req EXCEPT ![r].active = found, ![r].at = "commit"]
    BY <1>10, <2>1 DEF ReadActive
  <2>3. found = {} => ActiveOn(RegOf(p)) = {}
    BY <2>2, FS_EmptySet
  <2>4. n.at = "commit" /\ n.active = found /\ Kept(p, n) /\ n.row = p.row
    BY <1>1, <2>2 DEF Request, Kept
  <2> QED BY <1>10, <2>2, <2>3, <2>4 DEF Turn, FindsActive, ReadActive
<1>11. CASE CommitShift(r)
  <2>1. CASE Done(r)
    BY <1>3, <1>11, <2>1 DEF CommitShift
  <2>2. CASE ~Done(r)
    <3>1. /\ req' = [req EXCEPT ![r] = [Idle EXCEPT !.at = "header", !.command = c,
                                                    !.retried = TRUE]]
          /\ UNCHANGED <<shift, register>> /\ p.at = "commit"
      BY <1>11, <2>2 DEF CommitShift
    <3>2. n = [Idle EXCEPT !.at = "header", !.command = c, !.retried = TRUE]
      BY <1>1, <3>1
    <3>3. Idle \in Request /\ Idle.seen = NoShift /\ Idle.row = NoRegister /\ Idle.expected = 0
      BY IdleSound DEF Idle
    <3>4. /\ n.at = "header" /\ n.command = c /\ n.expected = 0
          /\ n.seen = NoShift /\ n.row = NoRegister
      BY <3>2, <3>3 DEF Request
    <3> QED BY <3>1, <3>4 DEF Turn, Reads
  <2> QED BY <2>1, <2>2
<1>12. CASE CommitHandover(r)
  <2>1. CASE Done(r)
    BY <1>3, <1>12, <2>1 DEF CommitHandover
  <2>2. CASE ~Done(r)
    <3>1. /\ Go(r, "successor") /\ CanHostShift(p.row) /\ p.at = "commit"
          /\ c.op = "acceptHandover" /\ UNCHANGED register
      BY <1>12, <2>2 DEF CommitHandover
    <3>2. n.at = "successor" /\ Kept(p, n) /\ n.row = p.row
      BY <3>1, MovesOn DEF Stage
    <3> QED BY <3>1, <3>2 DEF Turn, HandsOver
  <2> QED BY <2>1, <2>2
<1>13. CASE \/ CommitOpen(r) \/ CommitCorridor(r) \/ CommitSuccessor(r)
            \/ CommitRegister(r) \/ Crash(r)
  BY <1>3, <1>13 DEF CommitOpen, CommitCorridor, CommitSuccessor, CommitRegister, Crash
<1> QED BY <1>4, <1>5, <1>6, <1>7, <1>8, <1>9, <1>10, <1>11, <1>12, <1>13 DEF Step

-----------------------------------------------------------------------------
(* What a register command makes of a row.                                 *)
RowSteps(row, d) ==
  /\ d \in RegisterRow /\ Lawful(d)
  /\ d # row =>
       /\ d.version = row.version + 1
       /\ ~row.archived
       /\ <<row.status, d.status>> \in
            {<<"provisioned", "active">>, <<"active", "inactive">>,
             <<"inactive", "active">>, <<"active", "active">>,
             <<"inactive", "inactive">>}

(* A register command turns a lawful row into a lawful one.                *)
LEMMA OutcomeLawful ==
  ASSUME NEW row \in RegisterRow, Lawful(row), NEW op \in RegisterOps \ {"provision"},
         NEW hasActive \in BOOLEAN, NEW d \in RegisterOutcome(op, row, hasActive)
  PROVE  RowSteps(row, d)
<1> DEFINE New(status, duty, archived) ==
             BumpRow([row EXCEPT !.status = status, !.duty = duty, !.archived = archived])
<1>0. /\ row.status \in {"provisioned", "active", "inactive"}
      /\ row.duty \in {"closed", "open", "suspended"} /\ row.archived \in BOOLEAN
      /\ row.version \in Nat
  BY DEF RegisterRow
<1>1. ASSUME d = row PROVE RowSteps(row, d)
  BY <1>1 DEF RowSteps
<1>2. ASSUME NEW status \in {"provisioned", "active", "inactive"},
             NEW duty \in {"closed", "open", "suspended"}, NEW archived \in BOOLEAN,
             d = New(status, duty, archived), ~row.archived,
             archived => status = "inactive", status # "active" => duty = "closed",
             <<row.status, status>> \in
                {<<"provisioned", "active">>, <<"active", "inactive">>,
                 <<"inactive", "active">>, <<"active", "active">>,
                 <<"inactive", "inactive">>}
      PROVE  RowSteps(row, d)
  <2>1. /\ d \in RegisterRow /\ d.status = status /\ d.duty = duty
        /\ d.archived = archived /\ d.version = row.version + 1
    <3> DEFINE e == [row EXCEPT !.status = status, !.duty = duty, !.archived = archived]
    <3>1. /\ e \in RegisterRow /\ e.status = status /\ e.duty = duty
          /\ e.archived = archived /\ e.version = row.version
      BY DEF RegisterRow
    <3>2. d = [e EXCEPT !.version = e.version + 1]
      BY <1>2 DEF BumpRow
    <3> HIDE DEF e
    <3>3. e.version + 1 \in Nat \ {0}
      BY <3>1 DEF RegisterRow
    <3> QED BY <3>1, <3>2, <3>3 DEF RegisterRow
  <2>2. Lawful(d)
    <3>1. d.archived => d.status = "inactive"
      BY <1>2, <2>1
    <3>2. d.status # "active" => d.duty = "closed"
      BY <1>2, <2>1
    <3> QED BY <3>1, <3>2 DEF Lawful
  <2> QED BY <1>2, <2>1, <2>2 DEF RowSteps
<1>3. /\ \A status : [row EXCEPT !.status = status]
                       = [row EXCEPT !.status = status, !.duty = row.duty, !.archived = row.archived]
      /\ \A status, archived : [row EXCEPT !.status = status, !.archived = archived]
                       = [row EXCEPT !.status = status, !.duty = row.duty, !.archived = archived]
      /\ \A duty : [row EXCEPT !.duty = duty]
                       = [row EXCEPT !.status = row.status, !.duty = duty, !.archived = row.archived]
  BY DEF RegisterRow
<1>4. CASE op = "activate"
  <2>1. \/ d = row
        \/ /\ ~row.archived /\ row.status # "active"
           /\ d = New("active", row.duty, row.archived)
    BY <1>3, <1>4 DEF RegisterOutcome, When
  <2> QED BY <1>0, <1>1, <1>2, <2>1 DEF Lawful
<1>5. CASE op = "deactivate"
  <2>1. \/ d = row
        \/ /\ ~row.archived /\ row.duty = "closed" /\ row.status = "active"
           /\ d = New("inactive", row.duty, row.archived)
    BY <1>3, <1>5 DEF RegisterOutcome, When
  <2> QED BY <1>0, <1>1, <1>2, <2>1 DEF Lawful
<1>6. CASE op = "archiveRegister"
  <2>1. \/ d = row
        \/ /\ ~row.archived /\ row.duty = "closed" /\ row.status \in {"active", "inactive"}
           /\ d = New("inactive", row.duty, TRUE)
    BY <1>3, <1>6 DEF RegisterOutcome, When
  <2> QED BY <1>0, <1>1, <1>2, <2>1 DEF Lawful
<1>7. CASE op \in {"openDuty", "resumeDuty"}
  <2>1. \/ d = row
        \/ /\ row.status = "active" /\ d = New(row.status, "open", row.archived)
    BY <1>3, <1>7 DEF RegisterOutcome, When
  <2> QED BY <1>0, <1>1, <1>2, <2>1 DEF Lawful
<1>8. CASE op = "suspendDuty"
  <2>1. \/ d = row
        \/ /\ row.status = "active" /\ d = New(row.status, "suspended", row.archived)
    BY <1>3, <1>8 DEF RegisterOutcome, When
  <2> QED BY <1>0, <1>1, <1>2, <2>1 DEF Lawful
<1>9. CASE op = "closeDuty"
  <2>1. \/ d = row
        \/ /\ row.duty # "closed" /\ d = New(row.status, "closed", row.archived)
    BY <1>3, <1>9 DEF RegisterOutcome, When
  <2> QED BY <1>0, <1>1, <1>2, <2>1 DEF Lawful
<1> QED BY <1>4, <1>5, <1>6, <1>7, <1>8, <1>9 DEF RegisterOps

(* A request at its write holds the row as it is stored, once the version  *)
(* check lets it through.                                                  *)
LEMMA RowIsCurrent ==
  ASSUME CustodyInv, RowsInv, NEW r \in Requests, req[r].row # NoRegister,
         \/ register[RegOf(req[r])].version = req[r].row.version
         \/ /\ req[r].command \in RegisterCommand
            /\ register[RegOf(req[r])].version = CheckedVersion(r, req[r].row.version)
  PROVE  /\ RegOf(req[r]) \in Registers /\ req[r].row \in RegisterRow
         /\ register[RegOf(req[r])] = req[r].row /\ Lawful(req[r].row)
<1> DEFINE q == req[r]
           k == RegOf(q)
<1>1. /\ RowAgrees(q, register) /\ q \in Request /\ k \in Registers
      /\ register[k] \in RegisterRow /\ q.row \in RegisterRow
  BY DEF RowsInv, RowAgrees, CustodyInv, TypeOK, Request
<1>2. q.row.version \in Nat /\ register[k].version \in Nat /\ q.expected \in Nat
  BY <1>1 DEF RegisterRow, Request
<1>3. register[k].version = q.row.version
  BY <1>1, <1>2 DEF RowAgrees, CheckedVersion
<1> QED BY <1>1, <1>3 DEF RowAgrees, RowsInv

(* The four ways a row changes, all of them one command on the row as it   *)
(* then stands.                                                            *)
NewRow == [status |-> "provisioned", duty |-> "closed", archived |-> FALSE, version |-> 1]

Writes(r, k, d) ==
  LET p == req[r] IN
  \/ p.command \in RegisterCommand /\ register[k] = NoRegister /\ d = NewRow
  \/ /\ p.at = "commit" /\ p.row = register[k] /\ register[k] # NoRegister /\ k = RegOf(p)
     /\ \/ /\ p.command \in RegisterCommand
           /\ d \in RegisterOutcome(p.command.op, register[k], p.active # {})
           /\ p.command.op # "provision"
           /\ shift' = shift
        \/ /\ ClosesDuty(p.command)
           /\ d \in RegisterOutcome("closeDuty", register[k],
                                    p.active \ {p.command.shift} # {})
           /\ \/ p.seen.status \in Terminal /\ shift' = shift
              \/ /\ p.seen.status \notin Terminal
                 /\ \E h \in Outcome(p.command, p.seen) :
                      /\ CanWrite(p.command.shift, p.seen.version, h)
                      /\ shift' = [shift EXCEPT ![p.command.shift] = h]

(* A row is written by the commit of a call, and only along its life       *)
(* cycle.                                                                  *)
LEMMA RegisterStep ==
  ASSUME CustodyInv, RowsInv, NEW r \in Requests, Step(r), register' # register
  PROVE  \E k \in Registers :
           \E d \in RegisterRow :
             /\ register' = [register EXCEPT ![k] = d]
             /\ Lawful(d) /\ Writes(r, k, d)
             /\ register[k] # NoRegister => register[k] \in RegisterRow /\ RowSteps(register[k], d)
<1> DEFINE c == req[r].command
           p == req[r]
<1>0. /\ Sound(p, shift) /\ p \in Request /\ RowAgrees(p, register)
      /\ \A k \in Registers : register[k] \in RegisterRow \cup {NoRegister}
  BY DEF CustodyInv, TypeOK, RowsInv
<1>1. CASE CommitRegister(r)
  <2> DEFINE k == c.register
             written == IF c.op = "provision" THEN {}
                        ELSE RegisterOutcome(c.op, p.row, p.active # {}) \ {p.row}
  <2>1. /\ c \in RegisterCommand /\ c \in Command /\ k \in Registers /\ c.op \in RegisterOps
        /\ p.at = "commit" /\ shift' = shift
    BY <1>0, <1>1, CommandSort DEF CommitRegister, Sound
  <2>2. CASE c.op = "provision"
    <3>1. register[k] = NoRegister /\ register' = [register EXCEPT ![k] = NewRow]
      BY <1>1, <2>2 DEF CommitRegister, NewRow
    <3>2. NewRow \in RegisterRow /\ Lawful(NewRow)
      BY DEF NewRow, RegisterRow, Lawful
    <3> QED BY <2>1, <3>1, <3>2 DEF Writes
  <2>3. CASE c.op # "provision"
    <3>1. PICK d \in RegisterOutcome(c.op, p.row, p.active # {}) :
            /\ register' = [register EXCEPT ![k] = d]
            /\ register[k].version = CheckedVersion(r, p.row.version)
      BY <1>1, <2>3 DEF CommitRegister
    <3>2. RegOf(p) = k /\ p.row # NoRegister
      BY <1>0, <2>1, <2>3 DEF RegOf, RegisterOps, Sound
    <3>3. register[k] = p.row /\ p.row \in RegisterRow /\ Lawful(p.row)
      BY <2>1, <3>1, <3>2, RowIsCurrent
    <3>4. RowSteps(p.row, d)
      BY <2>1, <2>3, <3>3, OutcomeLawful
    <3>5. d \in RegisterRow /\ Lawful(d)
      BY <3>4 DEF RowSteps
    <3>6. Writes(r, k, d)
      BY <2>1, <2>3, <3>1, <3>2, <3>3 DEF Writes
    <3> QED BY <2>1, <3>1, <3>3, <3>4, <3>5, <3>6
  <2> QED BY <2>2, <2>3
<1>2. CASE CommitCorridor(r)
  <2> DEFINE g == p.seen
             k == g.register
             dutyAfter == {d \in RegisterOutcome("closeDuty", p.row, p.active \ {c.shift} # {}) :
                             d = p.row \/ register[k].version = p.row.version}
             shiftAfter == {h \in Outcome(c, g) : CanWrite(c.shift, g.version, h)}
  <2>1. PICK d \in dutyAfter :
          /\ register' = IF d = p.row THEN register ELSE [register EXCEPT ![k] = d]
          /\ \/ g.status \in Terminal /\ shift' = shift
             \/ /\ g.status \notin Terminal
                /\ \E h \in shiftAfter : shift' = [shift EXCEPT ![c.shift] = h]
    BY <1>2 DEF CommitCorridor
  <2>2. /\ d \in RegisterOutcome("closeDuty", p.row, p.active \ {c.shift} # {})
        /\ register[k].version = p.row.version
        /\ register' = [register EXCEPT ![k] = d]
    BY <2>1
  <2>3. RegOf(p) = k /\ p.row # NoRegister /\ p.at = "commit" /\ ClosesDuty(c)
    BY <1>0, <1>2 DEF RegOf, Sound, CommitCorridor, ClosesDuty
  <2>4. k \in Registers /\ register[k] = p.row /\ p.row \in RegisterRow /\ Lawful(p.row)
    BY <2>2, <2>3, RowIsCurrent
  <2>5. RowSteps(p.row, d)
    BY <2>2, <2>4, OutcomeLawful DEF RegisterOps
  <2>6. Writes(r, k, d)
    BY <2>1, <2>2, <2>3, <2>4 DEF Writes
  <2> QED BY <2>2, <2>4, <2>5, <2>6 DEF RowSteps
<1>3. register' = register \/ CommitRegister(r) \/ CommitCorridor(r)
  BY DEF Step, Begin, LookupAttribution, ReadHeader, ReadChild, Decide, ReadRegister,
     ReadActive, CommitShift, CommitOpen, CommitHandover, CommitSuccessor, Crash
<1> QED BY <1>1, <1>2, <1>3

-----------------------------------------------------------------------------
(* A stored row never goes away, and changes only to the next version.     *)
RowAdvances(old, new) ==
  \A k \in Registers : old[k] # NoRegister =>
    /\ new[k] # NoRegister
    /\ new[k] = old[k] \/ new[k].version > old[k].version

(* Rows only change under a later version, and stay lawful.                *)
LEMMA RowsAdvance ==
  ASSUME CustodyInv, RowsInv, NEW r \in Requests, Step(r)
  PROVE  /\ RowAdvances(register, register')
         /\ register' \in [Registers -> RegisterRow \cup {NoRegister}]
         /\ \A k \in Registers : register'[k] # NoRegister => Lawful(register'[k])
<1>1. CASE register' = register
  BY <1>1 DEF RowAdvances, CustodyInv, TypeOK, RowsInv
<1>2. CASE register' # register
  <2>1. PICK k \in Registers, d \in RegisterRow :
          /\ register' = [register EXCEPT ![k] = d]
          /\ Lawful(d)
          /\ register[k] # NoRegister => register[k] \in RegisterRow /\ RowSteps(register[k], d)
    BY <1>2, RegisterStep
  <2>2. register[k] # NoRegister => d = register[k] \/ d.version > register[k].version
    BY <2>1 DEF RowSteps, RegisterRow
  <2> QED BY <2>1, <2>2, NoRegisterAssumption DEF RowAdvances, CustodyInv, TypeOK, RowsInv
<1> QED BY <1>1, <1>2

(* What a request has read of a row survives the commits of others.        *)
LEMMA RowStays ==
  ASSUME NEW old \in [Registers -> RegisterRow \cup {NoRegister}],
         NEW new \in [Registers -> RegisterRow \cup {NoRegister}], RowAdvances(old, new),
         NEW q \in Request, RowAgrees(q, old),
         q.command \in RegisterCommand => q.command.register \in Registers
  PROVE  RowAgrees(q, new)
<1>1. ASSUME NEW k \in Registers, old[k] # NoRegister
      PROVE  /\ new[k] # NoRegister /\ old[k].version \in Nat /\ new[k].version \in Nat
             /\ new[k] = old[k] \/ new[k].version > old[k].version
  BY <1>1, NoRegisterAssumption DEF RowAdvances, RegisterRow
<1>2. q.expected \in Nat /\ (q.row # NoRegister => q.row.version \in Nat)
  BY DEF Request, RegisterRow
<1>3. q.row # NoRegister =>
       /\ new[RegOf(q)] # NoRegister
       /\ q.row.version <= new[RegOf(q)].version
       /\ q.row.version = new[RegOf(q)].version => q.row = new[RegOf(q)]
  <2> SUFFICES ASSUME q.row # NoRegister
               PROVE  /\ new[RegOf(q)] # NoRegister
                      /\ q.row.version <= new[RegOf(q)].version
                      /\ q.row.version = new[RegOf(q)].version => q.row = new[RegOf(q)]
    OBVIOUS
  <2> DEFINE k == RegOf(q)
  <2>1. /\ k \in Registers /\ old[k] # NoRegister /\ q.row.version <= old[k].version
        /\ q.row.version = old[k].version => q.row = old[k]
    BY DEF RowAgrees
  <2> HIDE DEF k
  <2>2. new[k] # NoRegister /\ q.row.version <= new[k].version
        /\ (q.row.version = new[k].version => q.row = new[k])
    BY <1>1, <1>2, <2>1
  <2> QED BY <2>2 DEF k
<1>4. q.at # "idle" /\ q.command \in RegisterCommand /\ q.expected # 0 =>
       /\ new[q.command.register] # NoRegister
       /\ q.expected <= new[q.command.register].version
  <2> SUFFICES ASSUME q.at # "idle", q.command \in RegisterCommand, q.expected # 0
               PROVE  /\ new[q.command.register] # NoRegister
                      /\ q.expected <= new[q.command.register].version
    OBVIOUS
  <2> DEFINE k == q.command.register
  <2>1. k \in Registers /\ old[k] # NoRegister /\ q.expected <= old[k].version
    BY DEF RowAgrees
  <2> HIDE DEF k
  <2>2. new[k] # NoRegister /\ q.expected <= new[k].version
    BY <1>1, <1>2, <2>1
  <2> QED BY <2>2 DEF k
<1> QED BY <1>3, <1>4 DEF RowAgrees

(* The request that steps.                                                 *)
LEMMA TurnAgrees ==
  ASSUME CustodyInv, RowsInv, NEW r \in Requests, Turn(req[r], req'[r]),
         req'[r] \in Request
  PROVE  RowAgrees(req'[r], register')
<1> DEFINE p == req[r]
           n == req'[r]
<1>1. /\ RowAgrees(p, register) /\ p \in Request /\ Sound(p, shift)
      /\ \A k \in Registers : register[k] # NoRegister => register[k] \in RegisterRow
  BY DEF RowsInv, CustodyInv, TypeOK
<1>2. CASE n = Idle
  <2>1. Idle.at = "idle" /\ Idle.row = NoRegister
    BY DEF Idle
  <2> QED BY <1>2, <2>1 DEF RowAgrees
<1>3. CASE HandsOver(p, n) /\ UNCHANGED register
  <2>1. n.row = p.row /\ n.at = "successor" /\ p.at = "commit" /\ Kept(p, n)
        /\ RegOf(n) = RegOf(p) /\ p.row # NoRegister /\ p.command.op = "acceptHandover"
    BY <1>1, <1>3 DEF HandsOver, Kept, RegOf, RowAgrees
  <2> QED BY <1>1, <1>3, <2>1 DEF RowAgrees, Kept
<1>4. CASE Begins(p, n) /\ UNCHANGED register
  <2>1. /\ n.at \in {"lookup", "header", "register"} /\ n.row = NoRegister
        /\ n.expected = 0 \/ n.expected = CurrentVersion(n.command)
        /\ n.command \in Command
    BY <1>4 DEF Begins
  <2>2. ASSUME n.command \in RegisterCommand, n.expected # 0
        PROVE  /\ register[n.command.register] # NoRegister
               /\ n.expected <= register[n.command.register].version
    <3>1. /\ n.expected = register[n.command.register].version
          /\ register[n.command.register] # NoRegister
      BY <2>1, <2>2 DEF CurrentVersion
    <3>2. n.expected \in Nat
      BY DEF Request
    <3> QED BY <3>1, <3>2
  <2> QED BY <1>4, <2>1, <2>2 DEF RowAgrees
<1>5. CASE Reads(p, n) /\ UNCHANGED register
  <2>1. /\ n.at \in {"header", "children", "register"} /\ n.row = NoRegister
        /\ n.command = p.command /\ n.expected \in {0, p.expected} /\ p.at # "idle"
    BY <1>5 DEF Reads
  <2> QED BY <1>1, <1>5, <2>1 DEF RowAgrees
<1>6. CASE GoesToWrite(p, n) /\ UNCHANGED register
  <2>1. /\ n.at = "commit" /\ n.row = NoRegister /\ Kept(p, n) /\ p.at # "idle"
        /\ p.command.op \notin {"openShift", "acceptHandover"}
    BY <1>6 DEF GoesToWrite
  <2> QED BY <1>1, <1>6, <2>1 DEF RowAgrees, Kept
<1>7. CASE ReadsRow(p, n) /\ UNCHANGED register
  <2>1. /\ n.at \in {"active", "commit"} /\ Kept(p, n) /\ p.at = "register"
        /\ RegOf(p) \in Registers /\ register[RegOf(p)] # NoRegister
        /\ n.row = register[RegOf(p)] /\ RegOf(n) = RegOf(p)
    BY <1>7 DEF ReadsRow, Kept, RegOf
  <2>2. n.row.version \in Nat /\ n.expected \in Nat
    BY <1>1, <2>1 DEF RegisterRow, Request
  <2>3. n.command \in RegisterCommand => RegOf(p) = p.command.register
    BY <2>1 DEF Kept, RegOf, RegisterCommand, RegisterOps
  <2>4. n.command \in RegisterCommand => n.expected <= n.row.version
    BY <1>1, <2>1, <2>2, <2>3 DEF RowAgrees, Kept
  <2> QED BY <1>1, <1>7, <2>1, <2>2, <2>4 DEF RowAgrees, Kept
<1>8. CASE FindsActive(p, n) /\ UNCHANGED register
  <2>1. /\ n.at = "commit" /\ Kept(p, n) /\ p.at = "active" /\ n.row = p.row
        /\ RegOf(n) = RegOf(p)
    BY <1>8 DEF FindsActive, Kept, RegOf
  <2> QED BY <1>1, <1>8, <2>1 DEF RowAgrees, Kept
<1> QED BY <1>2, <1>3, <1>4, <1>5, <1>6, <1>7, <1>8 DEF Turn

(* RowsInv is kept by each step of a request.                              *)
LEMMA RowsStep ==
  ASSUME CustodyInv, RowsInv, NEW r \in Requests, Step(r)
  PROVE  RowsInv'
<1>1. /\ req' \in [Requests -> Request]
      /\ \A q \in Requests \ {r} : req'[q] = req[q]
  BY StepSound
<1>2. Turn(req[r], req'[r])
  BY StepShape DEF RowsInv
<1>3. RowAgrees(req'[r], register')
  BY <1>1, <1>2, TurnAgrees
<1>4. /\ RowAdvances(register, register')
      /\ register' \in [Registers -> RegisterRow \cup {NoRegister}]
      /\ \A k \in Registers : register'[k] # NoRegister => Lawful(register'[k])
  BY RowsAdvance
<1>5. ASSUME NEW q \in Requests \ {r} PROVE RowAgrees(req'[q], register')
  <2>1. req'[q] = req[q] /\ RowAgrees(req[q], register) /\ req[q] \in Request
    BY <1>1 DEF RowsInv, CustodyInv, TypeOK
  <2>2. req[q].command \in RegisterCommand => req[q].command.register \in Registers
    BY DEF RegisterCommand
  <2> QED BY <1>4, <2>1, <2>2, RowStays DEF CustodyInv, TypeOK
<1> QED BY <1>3, <1>4, <1>5 DEF RowsInv

(* Rows as the code creates them are lawful; so is the row it starts with. *)
StartIsLawful == StartRegister # NoRegister => Lawful(StartRegister)

LEMMA RowsInit == ASSUME StartIsLawful, Init PROVE RowsInv
<1>1. Idle.at = "idle" /\ Idle.row = NoRegister
  BY DEF Idle
<1>2. /\ \A r \in Requests : req[r] = Idle
      /\ \A k \in Registers : register[k] = StartRegister
  BY DEF Init
<1> QED BY <1>1, <1>2 DEF RowsInv, RowAgrees, StartIsLawful

LEMMA RowsStepOrStutter == CustodyInv /\ RowsInv /\ [Next]_vars => RowsInv'
<1>1. CustodyInv /\ RowsInv /\ Next => RowsInv'
  BY RowsStep DEF Next
<1>2. RowsInv /\ UNCHANGED vars => RowsInv'
  BY DEF vars, RowsInv
<1> QED BY <1>1, <1>2

(* What a request has read of a register agrees with the store while the   *)
(* version it read still stands.                                           *)
THEOREM RowReadsAreConsistent ==
  ASSUME StartIsLawful
  PROVE  Spec => []RowsInv
  BY RowsInit, RowsStepOrStutter, CustodyInvariant, PTL DEF Spec

(* Whatever register and shift commands race, a row moves along the        *)
(* catalog and duty life cycles one version at a time, is off duty while   *)
(* it is out of the catalog, and is archived for good (registerCommands).  *)
THEOREM RegistersLiveInOrder ==
  ASSUME StartIsLawful
  PROVE  Spec => RegisterLifecycle
<1> DEFINE Orderly(k) ==
             LET old == register[k]  new == register'[k] IN
             old # NoRegister /\ new # old =>
               /\ new.version = old.version + 1
               /\ ~old.archived
               /\ <<old.status, new.status>> \in
                    {<<"provisioned", "active">>, <<"active", "inactive">>,
                     <<"inactive", "active">>, <<"active", "active">>,
                     <<"inactive", "inactive">>}
               /\ new.status # "active" => new.duty = "closed"
<1>1. ASSUME CustodyInv, RowsInv, NEW r \in Requests, Step(r), NEW k \in Registers
      PROVE  Orderly(k)
  <2>1. CASE register' = register
    BY <2>1
  <2>2. CASE register' # register
    <3>1. PICK j \in Registers, d \in RegisterRow :
            /\ register' = [register EXCEPT ![j] = d]
            /\ register[j] # NoRegister => register[j] \in RegisterRow /\ RowSteps(register[j], d)
      BY <1>1, <2>2, RegisterStep
    <3>2. CASE k = j
      <4>1. register'[k] = d
        BY <1>1, <3>1, <3>2 DEF CustodyInv, TypeOK
      <4> QED BY <3>1, <3>2, <4>1 DEF RowSteps, Lawful
    <3>3. CASE k # j
      BY <1>1, <3>1, <3>3 DEF CustodyInv, TypeOK
    <3> QED BY <3>2, <3>3
  <2> QED BY <2>1, <2>2
<1>2. CustodyInv /\ RowsInv /\ [Next]_vars => [\A k \in Registers : Orderly(k)]_vars
  BY <1>1 DEF Next
<1> QED BY <1>2, RowReadsAreConsistent, CustodyInvariant, PTL DEF Spec, RegisterLifecycle

-----------------------------------------------------------------------------
(* Active shifts of a register: they only go, except when one is opened.   *)
Opens(p, k) ==
  \/ /\ p.at = "commit" /\ p.command.op = "openShift" /\ k = p.command.register
     /\ CanHostShift(p.row) /\ p.active = {}
  \/ p.at = "successor" /\ p.command.op = "acceptHandover" /\ k = p.seen.register

(* A stored shift keeps its register and is not revived by any command.    *)
LEMMA StoredActive ==
  ASSUME LedgerTypeOK, [LedgerNext]_shift, NEW s \in Shifts, Exists(s)
  PROVE  /\ shift'[s].register = shift[s].register
         /\ shift[s].status \in Terminal => shift'[s].status \in Terminal
         /\ shift'[s].status \in Active => shift[s].status \in Active
<1>1. /\ shift[s] \in Graph /\ shift'[s] \in Graph
      /\ \/ shift'[s] = shift[s]
         \/ \E c \in ShiftCommand : shift'[s] \in Outcome(c, shift[s])
  BY StoredStep
<1>2. shift'[s].register = shift[s].register
  BY <1>1, OutcomeExtends DEF Extends
<1>3. shift[s].status \in Terminal => shift'[s].status \in Terminal
  <2>1. Enter(shift[s], "archived").status = "archived"
    BY <1>1, StepFields
  <2> QED BY <1>1, <2>1, TerminalOutcome DEF Terminal
<1> QED BY <1>1, <1>2, <1>3 DEF Graph, Active, Terminal

(* Only the write of an opening or of a successor adds an active shift,    *)
(* and one at most.                                                        *)
LEMMA ActiveStep ==
  ASSUME CustodyInv, NEW r \in Requests, Step(r), NEW k \in Registers
  PROVE  \/ ActiveOn(k)' \subseteq ActiveOn(k)
         \/ /\ Opens(req[r], k) /\ register' = register
            /\ \E s \in Shifts : ActiveOn(k)' \subseteq ActiveOn(k) \cup {s}
<1>1. [LedgerNext]_shift /\ LedgerTypeOK /\ LedgerTypeOK'
  BY StepSound DEF CustodyInv, TypeOK, LedgerTypeOK
<1>2. ASSUME NEW s \in Shifts, Exists(s), s \in ActiveOn(k)' PROVE s \in ActiveOn(k)
  BY <1>1, <1>2, StoredActive DEF ActiveOn
<1>3. ASSUME \A s \in Shifts : ~Exists(s) => shift'[s] = shift[s]
      PROVE  ActiveOn(k)' \subseteq ActiveOn(k)
  BY <1>2, <1>3 DEF ActiveOn, Exists
<1>4. ASSUME NEW s \in Shifts, NEW j, NEW float,
             shift' = [shift EXCEPT ![s] = NewShift(j, float)]
      PROVE  /\ ActiveOn(k)' \subseteq ActiveOn(k) \cup {s}
             /\ ~Exists(s) /\ j # k => ActiveOn(k)' \subseteq ActiveOn(k)
  <2>1. NewShift(j, float).register = j /\ shift'[s] = NewShift(j, float)
    BY <1>1, <1>4 DEF NewShift, LedgerTypeOK
  <2>2. \A t \in Shifts \ {s} : shift'[t] = shift[t]
    BY <1>1, <1>4 DEF LedgerTypeOK
  <2> QED BY <2>1, <2>2 DEF ActiveOn, Exists
<1>5. CASE CommitOpen(r)
  BY <1>3, <1>4, <1>5, CommandSort DEF CommitOpen, Opens, CustodyInv, Sound, Command
<1>6. CASE CommitSuccessor(r)
  <2>1. req[r].command.successor \in Shifts /\ req[r].command.op = "acceptHandover"
    BY <1>6, CommandInput DEF CommitSuccessor, CustodyInv, Sound
  <2> QED BY <1>3, <1>4, <1>6, <2>1 DEF CommitSuccessor, Opens
<1>7. ASSUME req[r].command \in ShiftCommand, req[r].at = "commit",
             NEW h, NEW v, CanWrite(req[r].command.shift, v, h),
             v = req[r].seen.version \/ v = CheckedVersion(r, req[r].seen.version),
             shift' = [shift EXCEPT ![req[r].command.shift] = h]
      PROVE  ActiveOn(k)' \subseteq ActiveOn(k)
  <2>1. Exists(req[r].command.shift)
    BY <1>7, WriterIsCurrent
  <2>2. \A s \in Shifts : ~Exists(s) => shift'[s] = shift[s]
    BY <1>1, <1>7, <2>1 DEF LedgerTypeOK
  <2> QED BY <1>3, <2>2
<1>8. CASE CommitShift(r)
  BY <1>3, <1>7, <1>8 DEF CommitShift
<1>9. CASE CommitCorridor(r)
  <2>1. req[r].command \in ShiftCommand
    BY <1>9, CommandSort DEF CommitCorridor, ClosesDuty, CustodyInv, Sound, AllOps
  <2> QED BY <1>3, <1>7, <1>9, <2>1 DEF CommitCorridor
<1>10. CASE CommitHandover(r)
  <2>1. req[r].command \in ShiftCommand
    BY <1>10, CommandSort DEF CommitHandover, CustodyInv, Sound, AllOps
  <2> QED BY <1>3, <1>7, <1>10, <2>1 DEF CommitHandover
<1>11. CASE shift' = shift
  BY <1>3, <1>11
<1> QED BY <1>5, <1>6, <1>8, <1>9, <1>10, <1>11 DEF Step, Begin, LookupAttribution,
     ReadHeader, ReadChild, Decide, ReadRegister, ReadActive, CommitRegister, Crash

(* What the first transaction of an accepted handover does to the shift.   *)
LEMMA HandedOver ==
  ASSUME CustodyInv, NEW r \in Requests, Step(r), HandsOver(req[r], req'[r])
  PROVE  LET g == req[r].seen  s == req[r].command.shift IN
         /\ s \in Shifts /\ g \in Graph /\ shift[s] = g /\ Exists(s)
         /\ g.register \in Registers /\ g.status \in Active
         /\ shift'[s].status = "closed"
<1> DEFINE c == req[r].command
           g == req[r].seen
<1>1. c \in ShiftCommand /\ c.shift \in Shifts /\ req[r].at = "commit" /\ c.op = "acceptHandover"
      /\ ~ClosesDuty(c)
  BY CommandSort DEF HandsOver, CustodyInv, Sound, AllOps, ClosesDuty
<1>2. ~Done(r)
  BY DEF Done, Idle, HandsOver, CustodyInv, TypeOK
<1>3. PICK h \in Outcome(c, g) :
        /\ CanWrite(c.shift, g.version, h)
        /\ shift' = [shift EXCEPT ![c.shift] = h]
  <2>1. CommitHandover(r)
    <3>1. c \notin RegisterCommand
      BY <1>1 DEF RegisterCommand, RegisterOps
    <3> QED BY <1>1, <1>2, <3>1 DEF Step, Begin, LookupAttribution, ReadHeader, ReadChild,
               Decide, ReadRegister, ReadActive, CommitShift, CommitOpen, CommitCorridor,
               CommitSuccessor, CommitRegister, Crash
  <2> QED BY <1>2, <2>1 DEF CommitHandover
<1>4. shift[c.shift] = g /\ g \in Graph /\ Exists(c.shift)
  BY <1>1, <1>3, WriterIsCurrent DEF Exists, CustodyInv, TypeOK
<1>5. /\ g.status = "handover_pending"
      /\ h = Finish([g EXCEPT !.handover = "accepted"], "handover")
  BY <1>1 DEF Outcome, AcceptHandover, When
<1>6. h.status = "closed"
  <2> DEFINE k == [g EXCEPT !.handover = "accepted"]
  <2>1. k \in Graph
    BY <1>4 DEF Graph
  <2> HIDE DEF k
  <2> QED BY <1>5, <2>1, StepFields DEF k
<1>7. shift'[c.shift] = h
  BY <1>1, <1>3 DEF CustodyInv, TypeOK
<1> QED BY <1>1, <1>4, <1>5, <1>6, <1>7 DEF Active, Graph

-----------------------------------------------------------------------------
(* How the active shifts and the openings of a register change together.   *)
LEMMA OpeningStep ==
  ASSUME CustodyInv, RowsInv, NEW r \in Requests, Step(r), NEW k \in Registers
  PROVE  \/ ActiveOn(k)' \subseteq ActiveOn(k) /\ Opening(k)' \subseteq Opening(k)
         \/ /\ \E s \in Shifts : ActiveOn(k)' \subseteq ActiveOn(k) \cup {s}
            /\ r \in Opening(k) /\ Opening(k)' \subseteq Opening(k) \ {r}
         \/ ActiveOn(k)' = {}
         \/ /\ \E s \in ActiveOn(k) : ActiveOn(k)' \subseteq ActiveOn(k) \ {s}
            /\ Opening(k)' \subseteq Opening(k) \cup {r}
<1> DEFINE p == req[r]
           n == req'[r]
<1>1. /\ \A q \in Requests \ {r} : req'[q] = req[q]
      /\ Turn(p, n)
  BY StepSound, StepShape DEF RowsInv
<1>2. Opening(k)' \subseteq Opening(k) \cup {r}
  BY <1>1 DEF Opening
<1>3. /\ Idle.at = "idle"
      /\ n.at \notin {"commit", "successor"} => Opening(k)' \subseteq Opening(k) \ {r}
  BY <1>1 DEF Opening, Idle
<1>4. UNCHANGED shift => ActiveOn(k)' = ActiveOn(k)
  BY DEF ActiveOn, Exists
<1>5. CASE n = Idle
  <2>1. Opening(k)' \subseteq Opening(k) \ {r}
    BY <1>3, <1>5
  <2>2. Opens(p, k) => r \in Opening(k)
    BY DEF Opens, Opening
  <2> QED BY <2>1, <2>2, ActiveStep
<1>6. CASE HandsOver(p, n)
  <2>1. ActiveOn(k)' \subseteq ActiveOn(k)
    <3>1. ~Opens(p, k)
      BY <1>6 DEF HandsOver, Opens
    <3> QED BY <3>1, ActiveStep
  <2>2. CASE k = p.seen.register
    <3> PICK s \in Shifts : s = p.command.shift
      BY <1>6, HandedOver
    <3>1. s \in ActiveOn(k) /\ shift'[s].status = "closed"
      BY <1>6, <2>2, HandedOver DEF ActiveOn
    <3>2. s \notin ActiveOn(k)'
      BY <3>1 DEF ActiveOn, Active
    <3> QED BY <1>2, <2>1, <3>1, <3>2
  <2>3. CASE k # p.seen.register
    <3>1. r \notin Opening(k)'
      BY <1>6, <2>3 DEF HandsOver, Kept, Opening
    <3> QED BY <1>2, <2>1, <3>1
  <2> QED BY <2>2, <2>3
<1>7. CASE (Begins(p, n) \/ Reads(p, n)) /\ UNCHANGED shift
  <2>1. n.at \notin {"commit", "successor"}
    BY <1>7 DEF Begins, Reads
  <2> QED BY <1>3, <1>4, <1>7, <2>1
<1>8. CASE (GoesToWrite(p, n) \/ ReadsRow(p, n)) /\ UNCHANGED shift
  <2>1. r \notin Opening(k)'
    BY <1>8 DEF GoesToWrite, ReadsRow, Kept, Opening
  <2> QED BY <1>2, <1>4, <1>8, <2>1
<1>9. CASE FindsActive(p, n) /\ UNCHANGED shift
  <2>1. CASE r \in Opening(k)'
    <3>1. n.active = {} /\ RegOf(p) = k
      BY <1>9, <2>1 DEF Opening, FindsActive, Kept, RegOf
    <3> QED BY <1>4, <1>9, <3>1 DEF FindsActive
  <2> QED BY <1>2, <1>4, <1>9, <2>1
<1> QED BY <1>1, <1>5, <1>6, <1>7, <1>8, <1>9 DEF Turn

LEMMA OneElementMore ==
  ASSUME NEW S, IsFiniteSet(S), NEW x
  PROVE  /\ IsFiniteSet(S \cup {x}) /\ Cardinality(S) \in Nat
         /\ Cardinality(S \cup {x}) <= Cardinality(S) + 1
<1>1. Cardinality(S) \in Nat
  BY FS_CardinalityType
<1> QED BY <1>1, FS_AddElement

(* The sum of both never passes the number of calls.                       *)
LEMMA CallsStep ==
  ASSUME CustodyInv, RowsInv, CallsInv, NEW r \in Requests, Step(r)
  PROVE  CallsInv'
<1> SUFFICES ASSUME NEW k \in Registers
             PROVE  /\ IsFiniteSet(ActiveOn(k)')
                    /\ Cardinality(ActiveOn(k)') + Cardinality(Opening(k)')
                         <= Cardinality(Requests)
  BY DEF CallsInv
<1> DEFINE A == ActiveOn(k)
           B == ActiveOn(k)'
           O == Opening(k)
           P == Opening(k)'
           N == Cardinality(Requests)
<1>1. /\ IsFiniteSet(A) /\ IsFiniteSet(O) /\ IsFiniteSet(P)
      /\ Cardinality(A) + Cardinality(O) <= N
      /\ N \in Nat /\ Cardinality(P) <= N
  <2>1. O \subseteq Requests /\ P \subseteq Requests
    BY DEF Opening
  <2> QED BY <2>1, RequestsAssumption, FS_Subset, FS_CardinalityType DEF CallsInv
<1>2. \/ B \subseteq A /\ P \subseteq O
      \/ (\E s \in Shifts : B \subseteq A \cup {s}) /\ r \in O /\ P \subseteq O \ {r}
      \/ B = {}
      \/ (\E s \in A : B \subseteq A \ {s}) /\ P \subseteq O \cup {r}
  BY OpeningStep
<1> HIDE DEF A, B, O, P, N
<1>3. CASE B \subseteq A /\ P \subseteq O
  <2>1. /\ IsFiniteSet(B) /\ Cardinality(B) <= Cardinality(A)
        /\ Cardinality(P) <= Cardinality(O)
    BY <1>1, <1>3, FS_Subset
  <2>2. /\ Cardinality(A) \in Nat /\ Cardinality(B) \in Nat
        /\ Cardinality(O) \in Nat /\ Cardinality(P) \in Nat
    BY <1>1, <2>1, FS_CardinalityType
  <2> QED BY <1>1, <2>1, <2>2 DEF B, P, N
<1>4. CASE (\E s \in Shifts : B \subseteq A \cup {s}) /\ r \in O /\ P \subseteq O \ {r}
  <2>1. PICK s : B \subseteq A \cup {s}
    BY <1>4
  <2>2. /\ IsFiniteSet(A \cup {s}) /\ Cardinality(A) \in Nat
        /\ Cardinality(A \cup {s}) <= Cardinality(A) + 1
    BY <1>1, OneElementMore
  <2>3. IsFiniteSet(B) /\ Cardinality(B) <= Cardinality(A \cup {s})
    BY <2>1, <2>2, FS_Subset
  <2>4. /\ IsFiniteSet(O \ {r}) /\ Cardinality(O) \in Nat
        /\ Cardinality(O \ {r}) = Cardinality(O) - 1
    BY <1>1, <1>4, FS_RemoveElement, FS_CardinalityType
  <2>5. Cardinality(P) <= Cardinality(O \ {r})
    BY <1>4, <2>4, FS_Subset
  <2>6. /\ Cardinality(B) \in Nat /\ Cardinality(P) \in Nat
        /\ Cardinality(A \cup {s}) \in Nat /\ Cardinality(O \ {r}) \in Nat
    BY <1>1, <2>2, <2>3, <2>4, FS_CardinalityType
  <2> QED BY <1>1, <2>2, <2>3, <2>4, <2>5, <2>6 DEF B, P, N
<1>5. CASE B = {}
  <2>1. IsFiniteSet(B) /\ Cardinality(B) = 0
    BY <1>5, FS_EmptySet
  <2>2. Cardinality(P) \in Nat
    BY <1>1, FS_CardinalityType
  <2> QED BY <1>1, <2>1, <2>2 DEF B, P, N
<1>6. CASE (\E s \in A : B \subseteq A \ {s}) /\ P \subseteq O \cup {r}
  <2>1. PICK s \in A : B \subseteq A \ {s}
    BY <1>6
  <2>2. /\ IsFiniteSet(A \ {s}) /\ Cardinality(A) \in Nat
        /\ Cardinality(A \ {s}) = Cardinality(A) - 1
    BY <1>1, FS_RemoveElement, FS_CardinalityType
  <2>3. IsFiniteSet(B) /\ Cardinality(B) <= Cardinality(A \ {s})
    BY <2>1, <2>2, FS_Subset
  <2>4. /\ IsFiniteSet(O \cup {r}) /\ Cardinality(O) \in Nat
        /\ Cardinality(O \cup {r}) <= Cardinality(O) + 1
    BY <1>1, OneElementMore
  <2>5. Cardinality(P) <= Cardinality(O \cup {r})
    BY <1>6, <2>4, FS_Subset
  <2>6. /\ Cardinality(B) \in Nat /\ Cardinality(P) \in Nat
        /\ Cardinality(A \ {s}) \in Nat /\ Cardinality(O \cup {r}) \in Nat
    BY <1>1, <2>2, <2>3, <2>4, FS_CardinalityType
  <2> QED BY <1>1, <2>2, <2>3, <2>4, <2>5, <2>6 DEF B, P, N
<1> QED BY <1>2, <1>3, <1>4, <1>5, <1>6

(* However openings, handovers, closes and crashes race, the active shifts *)
(* of a register and the calls about to open one are never more than the   *)
(* calls there are at a time (openFinancialShift, acceptHandover).  Two    *)
(* active shifts do come up, see the run race_open; with one call at a     *)
(* time they cannot (OL-INV-02), and what one race leaves behind another   *)
(* does not add to.                                                        *)
THEOREM RacesDoNotAddUp ==
  ASSUME StartIsLawful
  PROVE  Spec => []ActiveWithinCalls
<1>1. Init => CallsInv
  <2> SUFFICES ASSUME Init, NEW k \in Registers
               PROVE  /\ IsFiniteSet(ActiveOn(k))
                      /\ Cardinality(ActiveOn(k)) + Cardinality(Opening(k))
                           <= Cardinality(Requests)
    BY DEF CallsInv
  <2>1. ActiveOn(k) = {} /\ Opening(k) = {}
    BY DEF Init, ActiveOn, Exists, Opening, Idle
  <2> QED BY <2>1, FS_EmptySet, RequestsAssumption, FS_CardinalityType
<1>2. CustodyInv /\ RowsInv /\ CallsInv /\ [Next]_vars => CallsInv'
  <2>1. CustodyInv /\ RowsInv /\ CallsInv /\ Next => CallsInv'
    BY CallsStep DEF Next
  <2>2. CallsInv /\ UNCHANGED vars => CallsInv'
    BY DEF vars, CallsInv, ActiveOn, Exists, Opening
  <2> QED BY <2>1, <2>2
<1>3. CallsInv => ActiveWithinCalls
  BY DEF CallsInv, ActiveWithinCalls
<1> QED BY <1>1, <1>2, <1>3, CustodyInvariant, RowReadsAreConsistent, PTL DEF Spec

-----------------------------------------------------------------------------
(* Registers that lose their duty under an active shift.                   *)
(* A call that closes the duty of a register leaves its shift closed.      *)
LEMMA CloseIsTerminal ==
  ASSUME NEW g \in Graph, NEW actual \in Amounts, NEW h \in CloseWithFinalCount(g, actual)
  PROVE  h.status \in Terminal
<1>1. ASSUME NEW k \in Graph, NEW e \in Close(k) PROVE e.status \in Terminal
  <2>1. (e = k /\ k.status \in Terminal) \/ e = Finish(k, "normal")
    BY <1>1 DEF Close, When
  <2> QED BY <1>1, <2>1, StepFields DEF Terminal
<1>2. \A k \in RecordFinalCount(g, actual) : k \in Graph
  BY FinalCountExtends DEF Extends
<1>3. \/ g.status \in Terminal /\ h = g
      \/ \E k \in RecordFinalCount(g, actual) : h \in Close(k)
  BY DEF CloseWithFinalCount, When
<1> QED BY <1>1, <1>2, <1>3

(* A row on duty stays on duty unless the command ends the duty and was    *)
(* told of no active shift.                                                *)
LEMMA DutyOutcome ==
  ASSUME NEW row \in RegisterRow, row.duty # "closed", row.status = "active",
         NEW op \in RegisterOps \ {"provision"}, NEW hasActive \in BOOLEAN,
         NEW d \in RegisterOutcome(op, row, hasActive)
  PROVE  \/ d.duty # "closed" /\ d.status = "active"
         \/ op = "closeDuty" /\ ~hasActive
<1>1. CASE op \in {"activate", "deactivate", "archiveRegister"}
  <2>1. d = row
    BY <1>1 DEF RegisterOutcome, When
  <2> QED BY <2>1
<1>2. CASE op \in {"openDuty", "resumeDuty", "suspendDuty"}
  <2>1. d = row \/ \E duty \in {"open", "suspended"} : d = BumpRow([row EXCEPT !.duty = duty])
    BY <1>2 DEF RegisterOutcome, When
  <2>2. ASSUME NEW duty \in {"open", "suspended"}
        PROVE  LET e == BumpRow([row EXCEPT !.duty = duty]) IN
               e.duty = duty /\ e.status = "active"
    BY DEF BumpRow, RegisterRow
  <2> QED BY <2>1, <2>2
<1>3. CASE op = "closeDuty"
  BY <1>3 DEF RegisterOutcome, When
<1> QED BY <1>1, <1>2, <1>3 DEF RegisterOps

(* What a request knows for good survives its steps and those of others.   *)
LEMMA SettledStep ==
  ASSUME CustodyInv, RowsInv, SettledInv, NEW r \in Requests, Step(r)
  PROVE  SettledInv'
<1> SUFFICES ASSUME NEW q \in Requests PROVE Settled(req'[q], shift')
  BY DEF SettledInv, Settled, CanHostShift
<1> DEFINE p == req[r]
           n == req'[r]
<1>1. /\ \A o \in Requests \ {r} : req'[o] = req[o]
      /\ [LedgerNext]_shift /\ LedgerTypeOK
  BY StepSound DEF CustodyInv, TypeOK, LedgerTypeOK
<1>2. Turn(p, n)
  BY StepShape DEF RowsInv
<1>3. ASSUME NEW o \in Requests, req[o].seen # NoShift, req[o].seen.status \in Terminal
      PROVE  shift'[req[o].command.shift].status \in Terminal
  <2>1. /\ req[o].command.shift \in Shifts /\ Exists(req[o].command.shift)
    BY <1>3, CommandInput DEF CustodyInv, Sound, ReadsAgree, Exists
  <2>2. shift[req[o].command.shift].status \in Terminal
    BY <1>3 DEF SettledInv, Settled
  <2> QED BY <1>1, <2>1, <2>2, StoredActive
<1>4. CASE q # r
  BY <1>1, <1>3, <1>4 DEF SettledInv, Settled
<1>5. CASE q = r
  <2>1. CASE n = Idle
    <3>1. Idle.at = "idle" /\ Idle.seen = NoShift
      BY DEF Idle
    <3> QED BY <1>5, <2>1, <3>1 DEF Settled
  <2>2. CASE HandsOver(p, n)
    <3>1. n.row = p.row /\ Kept(p, n) /\ CanHostShift(p.row)
      BY <2>2 DEF HandsOver
    <3> QED BY <1>3, <1>5, <3>1 DEF Settled, Kept
  <2>3. CASE Begins(p, n)
    BY <1>5, <2>3 DEF Begins, Settled
  <2>4. CASE Reads(p, n) /\ UNCHANGED <<shift, register>>
    BY <1>5, <2>4 DEF Reads, Settled, SettledInv
  <2>5. CASE (GoesToWrite(p, n) \/ ReadsRow(p, n) \/ FindsActive(p, n))
             /\ UNCHANGED <<shift, register>>
    <3>1. Kept(p, n) /\ n.at # "successor"
      BY <2>5 DEF GoesToWrite, ReadsRow, FindsActive
    <3> QED BY <1>5, <2>5, <3>1 DEF Kept, Settled, SettledInv
  <2> QED BY <1>2, <2>1, <2>2, <2>3, <2>4, <2>5 DEF Turn
<1> QED BY <1>4, <1>5

(* A row changes under an active shift only to another one on duty.        *)
LEMMA DutyKept ==
  ASSUME CustodyInv, RowsInv, SettledInv, NEW r \in Requests, Step(r),
         NEW k \in Registers, OnDuty(k),
         ActiveOn(k)' # {}, ActiveOn(k)' \subseteq ActiveOn(k)
  PROVE  \/ OnDuty(k)'
         \/ /\ req[r].at = "commit" /\ EndsDuty(req[r].command) /\ RegisterOf(r) = k
            /\ ~(ActiveOn(k) \subseteq req[r].active)
<1> SUFFICES ASSUME req[r].at = "commit" /\ EndsDuty(req[r].command) /\ RegisterOf(r) = k
                      => ActiveOn(k) \subseteq req[r].active
             PROVE  /\ register'[k] # NoRegister
                    /\ register'[k].duty # "closed" /\ register'[k].status = "active"
  BY DEF OnDuty
<1> DEFINE p == req[r]
           c == req[r].command
<1>1. /\ register[k] # NoRegister /\ register[k] \in RegisterRow
      /\ register[k].duty # "closed" /\ register[k].status = "active"
  BY DEF OnDuty, CustodyInv, TypeOK
<1>2. CASE register'[k] = register[k]
  BY <1>1, <1>2
<1>3. CASE register'[k] # register[k]
  <2>1. PICK j \in Registers, d \in RegisterRow :
          /\ register' = [register EXCEPT ![j] = d]
          /\ Writes(r, j, d)
    BY <1>3, RegisterStep
  <2>2. j = k /\ register'[k] = d
    BY <1>3, <2>1 DEF CustodyInv, TypeOK
  <2>3. /\ p.at = "commit" /\ p.row = register[k] /\ k = RegOf(p)
        /\ \/ /\ c \in RegisterCommand /\ c.op # "provision"
              /\ d \in RegisterOutcome(c.op, register[k], p.active # {})
           \/ /\ ClosesDuty(c)
              /\ d \in RegisterOutcome("closeDuty", register[k], p.active \ {c.shift} # {})
    BY <1>1, <2>1, <2>2 DEF Writes
  <2>4. ASSUME EndsDuty(c), p.active \subseteq MayRemain(p)
        PROVE  ActiveOn(k) \subseteq MayRemain(p)
    BY <2>3, <2>4 DEF RegOf, RegisterOf
  <2>5. CASE c \in RegisterCommand /\ c.op # "provision"
             /\ d \in RegisterOutcome(c.op, register[k], p.active # {})
    <3>1. c.op \in RegisterOps /\ ~ClosesDuty(c)
      BY <2>5 DEF RegisterCommand, ClosesDuty, RegisterOps
    <3>2. \/ d.duty # "closed" /\ d.status = "active"
          \/ c.op = "closeDuty" /\ p.active = {}
      BY <1>1, <2>5, <3>1, DutyOutcome
    <3>3. c.op = "closeDuty" /\ p.active = {} => FALSE
      BY <2>4, <3>1 DEF EndsDuty, MayRemain
    <3> QED BY <1>1, <2>2, <3>2, <3>3, NoRegisterAssumption
  <2>6. CASE ClosesDuty(c)
             /\ d \in RegisterOutcome("closeDuty", register[k], p.active \ {c.shift} # {})
    <3>1. \/ d.duty # "closed" /\ d.status = "active"
          \/ p.active \ {c.shift} = {}
      BY <1>1, <2>6, DutyOutcome DEF RegisterOps
    <3>2. CASE p.active \ {c.shift} = {}
      <4>1. ActiveOn(k) \subseteq {c.shift}
        BY <2>4, <2>6, <3>2 DEF EndsDuty, MayRemain
      <4>2. c.shift \in ActiveOn(k)' /\ c.shift \in ActiveOn(k)
        BY <4>1
      <4>3. c \in ShiftCommand /\ c.shift \in Shifts /\ c.op = "closeWithFinalCount"
            /\ p.seen # NoShift
        <5>1. c.op = "closeWithFinalCount" /\ c \in Command
          BY <2>3, <2>6 DEF ClosesDuty, CustodyInv, Sound
        <5> QED BY <2>3, <5>1, CommandSort DEF AllOps, CustodyInv, Sound
      <4>4. p.seen \in Graph
        BY <4>3 DEF CustodyInv, TypeOK, Request
      <4>5. p.seen.status \notin Terminal
        BY <4>2, <4>3 DEF SettledInv, Settled, ActiveOn, Active, Terminal
      <4>6. PICK h \in Outcome(c, p.seen) : shift' = [shift EXCEPT ![c.shift] = h]
        <5>1. c \notin RegisterCommand
          BY <4>3 DEF RegisterCommand, RegisterOps
        <5> QED BY <1>1, <2>1, <2>2, <4>5, <5>1 DEF Writes
      <4>7. h \in CloseWithFinalCount(p.seen, c.actual) /\ c.actual \in Amounts
        BY <4>3, <4>6, CommandInput DEF Outcome
      <4>8. h.status \in Terminal
        BY <4>4, <4>7, CloseIsTerminal
      <4>9. shift'[c.shift] = h
        BY <4>3, <4>6 DEF CustodyInv, TypeOK
      <4>10. shift'[c.shift].status \in Active
        BY <4>2 DEF ActiveOn
      <4> QED BY <4>8, <4>9, <4>10 DEF Active, Terminal
    <3> QED BY <1>1, <2>2, <3>1, <3>2, NoRegisterAssumption
  <2> QED BY <2>3, <2>5, <2>6
<1> QED BY <1>2, <1>3

(* The step that leaves a register off duty under an active shift.         *)
LEMMA OffDutyStep ==
  ASSUME CustodyInv, RowsInv, SettledInv, NEW r \in Requests, Step(r),
         NEW k \in Registers, HostsItsShifts(k), ~HostsItsShifts(k)'
  PROVE  /\ req[r].at \in {"commit", "successor"} /\ req'[r] = Idle
         /\ \/ /\ EndsDuty(req[r].command) /\ RegisterOf(r) = k
               /\ ~(ActiveOn(k) \subseteq req[r].active)
            \/ r \in Opening(k) /\ req[r].row # register[k]
<1> DEFINE p == req[r]
<1>1. ActiveOn(k)' # {} /\ ~OnDuty(k)'
  BY DEF HostsItsShifts
<1>2. Turn(p, req'[r])
  BY StepShape DEF RowsInv
<1>3. UNCHANGED <<shift, register>> => FALSE
  BY DEF HostsItsShifts, OnDuty, ActiveOn, Exists
<1>4. CASE ActiveOn(k)' \subseteq ActiveOn(k)
  <2>1. OnDuty(k)
    BY <1>1, <1>4 DEF HostsItsShifts
  <2>2. /\ p.at = "commit" /\ EndsDuty(p.command) /\ RegisterOf(r) = k
        /\ ~(ActiveOn(k) \subseteq p.active)
    BY <1>1, <1>4, <2>1, DutyKept
  <2>3. ~HandsOver(p, req'[r])
    BY <2>2 DEF HandsOver, EndsDuty, ClosesDuty
  <2> QED BY <1>2, <1>3, <2>2, <2>3 DEF Turn
<1>5. CASE Opens(p, k) /\ register' = register
  <2>1. /\ p.at \in {"commit", "successor"} /\ r \in Opening(k) /\ CanHostShift(p.row)
    BY <1>5 DEF Opens, Opening, SettledInv, Settled
  <2>2. p.row # NoRegister
    BY <1>5 DEF Opens, RowsInv, RowAgrees
  <2>3. p.row # register[k]
    BY <1>1, <1>5, <2>1, <2>2 DEF OnDuty, CanHostShift
  <2>4. ~HandsOver(p, req'[r])
    BY <1>5 DEF HandsOver, Opens
  <2> QED BY <1>2, <1>3, <2>1, <2>3, <2>4 DEF Turn
<1> QED BY <1>4, <1>5, ActiveStep

(* Whatever opens, closes, handovers and register commands race, a         *)
(* register is off duty or out of the catalog under an active shift only   *)
(* by a call that could not know: an end of duty that had not seen every   *)
(* active shift, or an opening decided on an older row of the register     *)
(* (OL-INV-06, CR-INV-04; closeDuty, commitCloseCorridor, openShift).      *)
THEOREM DutyIsLostUnseen ==
  ASSUME StartIsLawful
  PROVE  Spec => OffDutyUnseen
<1> DEFINE Unseen(k) ==
      HostsItsShifts(k) /\ ~HostsItsShifts(k)' =>
        \E r \in Requests :
          /\ req[r].at \in {"commit", "successor"} /\ req'[r] = Idle
          /\ \/ /\ EndsDuty(req[r].command) /\ RegisterOf(r) = k
                /\ ~(ActiveOn(k) \subseteq req[r].active)
             \/ r \in Opening(k) /\ req[r].row # register[k]
<1>1. Init => SettledInv
  <2> SUFFICES ASSUME Init PROVE SettledInv
    OBVIOUS
  <2>1. Idle.at = "idle" /\ Idle.seen = NoShift
    BY DEF Idle
  <2> QED BY <2>1 DEF Init, SettledInv, Settled
<1>2. CustodyInv /\ RowsInv /\ SettledInv /\ [Next]_vars => SettledInv'
  <2>1. CustodyInv /\ RowsInv /\ SettledInv /\ Next => SettledInv'
    BY SettledStep DEF Next
  <2>2. SettledInv /\ UNCHANGED vars => SettledInv'
    BY DEF vars, SettledInv, Settled
  <2> QED BY <2>1, <2>2
<1>3. CustodyInv /\ RowsInv /\ SettledInv /\ [Next]_vars
        => [\A k \in Registers : Unseen(k)]_vars
  <2> SUFFICES ASSUME CustodyInv, RowsInv, SettledInv, Next, NEW k \in Registers
               PROVE  Unseen(k)
    OBVIOUS
  <2>1. PICK r \in Requests : Step(r)
    BY DEF Next
  <2> QED BY <2>1, OffDutyStep
<1> QED BY <1>1, <1>2, <1>3, CustodyInvariant, RowReadsAreConsistent, PTL DEF Spec, OffDutyUnseen
=============================================================================

CONSTANTS
  s1 = s1
  s2 = s2
  reg1 = reg1
  sale = sale
  refund = refund
  NoShift = NoShift
  MaxVersion = 5
  Shifts = {s1, s2}
  Registers = {reg1}
  Facts = {sale, refund}
  Ops = {"suspend", "resume", "beginClose", "abortClose", "close", "cancelOpen",
         "archive", "interimCount", "initiateHandover", "rejectHandover",
         "movement", "finalCount", "closeWithFinalCount", "attribution",
         "acceptHandover"}
  Movements <- MCMovements
  Cash <- MCCash
  Amounts <- MCAmounts
SPECIFICATION LedgerSpec
CONSTRAINT BoundedVersions
SYMMETRY MCSymmetry
INVARIANTS
  LedgerTypeOK
  EndIsAccounted
PROPERTIES
  CustodyOnlyGrows
  ClosedIsFrozen
  VersionTellsChange
  PayoutIsCovered

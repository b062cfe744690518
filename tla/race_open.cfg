CONSTANTS
  s1 = s1
  s2 = s2
  reg1 = reg1
  sale = sale
  r1 = r1
  r2 = r2
  NoShift = NoShift
  NoRegister = NoRegister
  NoCommand = NoCommand
  MaxVersion = 3
  MaxRegisterVersion = 6
  Shifts = {s1, s2}
  Registers = {reg1}
  Requests = {r1, r2}
  Facts = {}
  Ops = {"openShift"}
  Movements <- MCNoMovements
  Cash <- MCCash
  Amounts <- OneAmount
  StartRegister <- MCOnDuty
SPECIFICATION Spec
CONSTRAINT BoundedVersions
SYMMETRY RequestSymmetry
INVARIANTS
  OneActiveShift

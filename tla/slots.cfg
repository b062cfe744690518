SPECIFICATION Spec
CONSTANTS
  r1 = r1  r2 = r2  r3 = r3
  Requests = {r1, r2, r3}
  Ops = {"register", "activate", "deactivate", "replace"}
  Codes = {1, 2, 3}
  Cap = 1
  Start <- MCStart
  NoCode = 0
  MaxLate = 2
SYMMETRY RequestSymmetry
INVARIANTS TypeOK WithinCap CountedSlotIsFree
CONSTRAINT FewLate

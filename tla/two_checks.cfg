CONSTANTS
  c1 = c1
  c2 = c2
  Callers = {c1, c2}
  Ops <- MCOps
  Sweepers = {w1}
  MaxChecks = 5
  MaxFaults = 1
SPECIFICATION Spec
CHECK_DEADLOCK FALSE
INVARIANT OneCheckPerOrder

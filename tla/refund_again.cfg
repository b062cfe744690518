CONSTANTS
  c1 = c1
  c2 = c2
  c3 = c3
  small = small
  other = other
  large = large
  NoIntent = NoIntent
  NoView = NoView
  Calls = {c1, c2, c3}
  Intents = {small, other, large}
  AmountOf <- MCAmountOf
  Collected = 3
  MaxTries = 2
  MaxFaults = 1
  Isolations = {"repeatable read", "read committed"}
SPECIFICATION Spec
CHECK_DEADLOCK FALSE
INVARIANTS
  RefundOncePerIntent

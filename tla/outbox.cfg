SPECIFICATION Spec
CONSTANTS
  r1 = r1
  r2 = r2
  Orders = {o1}
  MaxChanges = 2
  Poison <- MCPoison
  Relays = {r1, r2}
  BatchSize = 2
  MaxAttempts = 2
  MaxFaults = 3
  NoEvent = NoEvent
  NoRow = NoRow
INVARIANTS TypeOK EffectAtMostOnce PublishedWasShown
PROPERTIES DeliverySpec EventuallyPublished PoisonStaysAside
CHECK_DEADLOCK FALSE

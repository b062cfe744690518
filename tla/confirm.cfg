SPECIFICATION Spec
CONSTANTS
  a1 = a1  a2 = a2  a3 = a3
  o1 = o1  d1 = d1  d2 = d2  d3 = d3
  k1 = k1  k2 = k2  i1 = i1  i2 = i2  i3 = i3
  cash = cash  card = card
  Attempts = {a1, a2, a3}
  IncomingOrders = {o1}
  DirectOrders = {d1, d2, d3}
  Keys = {k1, k2}
  Intents = {i1, i2, i3}
  Money = {cash, card}
  Commands <- MCCommands
  SnapshotPoints <- AnySnapshot
  NoOrder = NoOrder
  NoCommand = NoCommand
  NoView = NoView
  NoFact = NoFact
  NoMoney = NoMoney
CHECK_DEADLOCK FALSE
INVARIANTS TypeOK CollectedOnce GaplessInvoices PaidAnswerIsBacked
PROPERTY EveryAttemptEnds

CONSTANTS
  Agents = {a1}
  Reasons = {"insight"}
  Coalesce = 1
  Delays = {1}
  Retry = 2
  Interval = 2
  MaxTurn = 1
  MaxLives = 2
  MaxRequests = 1
  MaxChanges = 1
SPECIFICATION FairSpec
INVARIANTS
  TypeOK
  NoWakeLost
  BatchesDoNotPile
PROPERTIES
  TicksGoOn

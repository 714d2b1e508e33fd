CONSTANTS
  Agents = {a1}
  Reasons = {"insight", "action"}
  Coalesce = 1
  Delays = {1}
  Retry = 2
  Interval = 2
  MaxTurn = 1
  MaxLives = 1
  MaxRequests = 0
  MaxChanges = 2
SPECIFICATION FairSpec
PROPERTIES
  HeartbeatsComeBack

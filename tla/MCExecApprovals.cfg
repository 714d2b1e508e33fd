CONSTANTS
  Decisions = {"allow-once", "allow-always", "deny"}
  Hosts = {"gateway", "node"}
  Fallbacks = {"full", "deny"}
  Timeout = 3
  Grace = 1
  MaxTime = 6
  MaxInvokes = 3
SPECIFICATION FairSpec
INVARIANTS
  TypeOK
  AnswersAgree
  ExecutedAsApproved
PROPERTIES
  RequestsEnd
CHECK_DEADLOCK FALSE

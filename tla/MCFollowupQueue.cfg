CONSTANTS
  m1 = m1
  m2 = m2
  m3 = m3
  Messages <- MCMessages
  RouteOf <- MCRouteOf
  Unkeyed = "unkeyed"
  Unroutable = "unroutable"
  Modes = {"collect", "followup"}
  DropPolicies = {"summarize", "new"}
  Cap = 2
  MaxQueues = 2
  MaxFailures = 1
  MaxClears = 1
SPECIFICATION FairSpec
INVARIANTS
  TypeOK
  NothingLostBelowCap
  RunOnceUnlessFailed
PROPERTIES
  WaitingRunsBelowCap

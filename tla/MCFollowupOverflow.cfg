CONSTANTS
  m1 = m1
  m2 = m2
  m3 = m3
  Messages <- MCMessages
  RouteOf <- MCOneRoute
  Unkeyed = "unkeyed"
  Unroutable = "unroutable"
  Modes = {"collect"}
  DropPolicies = {"summarize"}
  Cap = 2
  MaxQueues = 2
  MaxFailures = 0
  MaxClears = 0
SPECIFICATION Spec
INVARIANTS
  AllAccountedFor

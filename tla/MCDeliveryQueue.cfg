CONSTANTS
  first = first
  second = second
  drain = drain
  N = 2
  Leftover <- MCFirst
  BestEffort <- MCNone
  Watched <- MCNone
  Recoveries <- MCTwoStarts
  Drains <- MCOneDrain
  OnAccount <- MCOnFirst
  MAX_RETRIES = 1
  MaxCrashes = 1

SPECIFICATION Spec

INVARIANTS
  TypeOK
  NothingLost
  ReplaysExclusive
  ClaimsAreHeld
  AckSurvivesCrash

PROPERTY LeftoversAreTried

CHECK_DEADLOCK FALSE

CONSTANTS
  Jobs = {1, 2}
  ScheduleOf <- MCScheduleOf
  Results = {"ok", "error"}
  Patches = {"enable", "disable", "other"}
  Modes = {"due", "force"}
  MaxImmediate = 1
  MaxConcurrent = 1
  MaxAttempts = 1
  Backoff = 1
  Stagger = 1
  MaxTime = 3
  MaxServices = 1
  MaxCrashes = 1
  MaxRequests = 2
SPECIFICATION Spec
INVARIANTS
  TypeOK
  OneRunAtATime
  MarkersAreHeld
PROPERTIES
  SlotsAreKept

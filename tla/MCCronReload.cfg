CONSTANTS
  Jobs = {1}
  ScheduleOf <- MCScheduleOf
  Results = {"ok"}
  Patches = {"disable"}
  Modes = {"due"}
  MaxImmediate = 1
  MaxConcurrent = 1
  MaxAttempts = 1
  Backoff = 1
  Stagger = 1
  MaxTime = 2
  MaxServices = 2
  MaxCrashes = 1
  MaxRequests = 2
SPECIFICATION FairSpec
PROPERTIES
  OnlyStaleMemoryRevives
  DueJobsAreServed

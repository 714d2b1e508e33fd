CONSTANTS
  Runs <- MCRuns
  Sessions <- MCSessions
  CronRuns <- MCCronRuns
  SessionOf <- MCSessionOf
  MainCap = 1
  MaxRestarts = 1
SPECIFICATION FairSpec
INVARIANTS
  TypeOK
  OneRunPerSessionInALife
PROPERTIES
  DrainedMeansQuiet
  EveryRunEnds
CHECK_DEADLOCK FALSE

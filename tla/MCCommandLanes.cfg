CONSTANTS
  Commands = {c1, c2, c3}
  Lanes = {main, session}
  Main = main
  Blank = blank
  Waiters = {w1}
  MaxCap <- MCMaxCap
  MaxGeneration <- MCMaxGeneration
SPECIFICATION Spec
SYMMETRY CommandSymmetry
INVARIANTS
  TypeOK
  QueuesHoldTheWaiting
  SlotsHeldByLiveTasks
  WorkConserving
  WaitersWaitForATask
PROPERTIES
  StartsWithinCap
  DrainedMeansEnded
  ServiceSpec

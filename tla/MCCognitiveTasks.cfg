CONSTANTS
  Agents = {main}
  N = 3
  MaxSteps <- MCMaxSteps
  MaxLives = 2

SPECIFICATION FairSpec

INVARIANTS
  TypeOK
  OneStepLost

PROPERTIES
  TerminalIsFinal
  TasksEnd

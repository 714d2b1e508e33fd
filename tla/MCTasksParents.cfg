CONSTANTS
  Agents = {main, aux}
  N = 2
  MaxSteps <- MCMaxSteps
  MaxLives = 2

SPECIFICATION EachFairSpec

PROPERTY ParentsAreReleased

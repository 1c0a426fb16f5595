CONSTANTS
  Items = 2
  Iterations = 1
  N = 1
SPECIFICATION FairSpec
PROPERTY Termination

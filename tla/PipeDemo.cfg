CONSTANTS
  LsLines = 4
  PipeCap = 2
  Unflushed = 1
SPECIFICATION DemoSpec
INVARIANTS CountsLsLines CleanReturn NoCircularWait HeardRight CompleteWhenNothingFails
PROPERTY MainEnds

CONSTANTS
  Increments = 3
  Instances = {i1, i2}
SPECIFICATION DemoSpec
INVARIANTS FinalCounter SegmentsRemoved ChildReadsInitial
PROPERTIES ParentReadsModified AllEnd

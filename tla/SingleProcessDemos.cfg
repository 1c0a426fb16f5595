CONSTANTS
  Length = 58
  Infinity = 3
  MaxCpu = 3
  Instances = {i1, i2}
  TextLength = 6
SPECIFICATION DemosSpec
INVARIANTS
  LinesKept DescriptorsRestored
  ReportsTrue
  AllReleased KilledOnlyIfTruncated ChangesReachFile

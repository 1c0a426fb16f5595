CONSTANTS
  Infinity = 3
  MaxCpu = 3
SPECIFICATION LimitsSpec
INVARIANT CpuLimitReset

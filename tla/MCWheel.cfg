SPECIFICATION FairSpec
CONSTANTS
  W = 16
  Period = 4
  Gap = 2
  MaxLate = 3
  MaxTicks = 2
INVARIANTS CompareExact OverdueRaises
PROPERTIES WdogRuns

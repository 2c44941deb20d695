CONSTANTS
  MaxSleep = 15
  Wrap = 32
  Clock = 5
  PerTick = 4
  MinCount = 3
  OnceTime = 3
  Intervals <- SomeIntervals
  Durations <- AllDurations
SPECIFICATION Spec
INVARIANT SleepsAsLongAsItCan

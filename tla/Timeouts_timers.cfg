SPECIFICATION AllSpec

CONSTANTS
  CheckOver = CheckOver
  Handles = {CheckOver}
  Counts = {0, 2}
  MaxTimers = 2
  TIME_NEAR_SHIFT = 1
  TIME_LEVEL_SHIFT = 1
  Intervals = {0, 2, 5}

INVARIANTS
  OneClosurePerTimer
  RunsAsAsked
  ClosuresInOnePlace

PROPERTIES
  StoppedTimersRest
  ImplementsAlarms

\* Without a timer the time goes on all the same; nothing stops it.

SPECIFICATION FairSpec
CONSTANTS
  Ids = {a, b}
  Intervals = {2, 3}
  MaxTime = 5
  MaxFaults = 1
  MaxStarts = 2
INVARIANTS TypeOK SlotsAreSpaced DeletedRunsOnce
PROPERTY DueIsServed

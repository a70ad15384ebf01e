SPECIFICATION FairSpec
CONSTANTS
  Tasks = {t1, t2}
  Phases = 2
  RacePhases = {2}
  Width = 2
  Attempts = 2
  RaceAttempts = 1
  MaxConcurrency = 1
  MaxTotal = 1
  MaxPerSecond = 2
  Window = 2
  MaxStops = 1
INVARIANTS TypeOK OverrunIsBounded
PROPERTY RunEnds

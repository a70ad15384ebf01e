SPECIFICATION StoresSpec
CONSTANTS
  Runs = {r1, r2}
  Cves = {c1, c2}
  Relevant = {c1}
  Code = code
  NoRun = none
  Ticks = {t1, t2}
  MayTickAgain = FALSE
  MaxCrashes = 1
INVARIANTS StoresTypeOK MemoryIsHonest
PROPERTIES LossNeedsStaleView CountsForwardUnlessOvertaken
SYMMETRY Interchangeable
CHECK_DEADLOCK FALSE

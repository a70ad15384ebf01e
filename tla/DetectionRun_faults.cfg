SPECIFICATION FairSpec
CONSTANTS
  Sizes = {1, 2}
  MaxFaults = 2
  MayCrash = TRUE
INVARIANTS TypeOK ReleaseIsVerified EventsExplainRow
PROPERTY RunSettles

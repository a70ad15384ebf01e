SPECIFICATION FairSpec
CONSTANTS
  Modes = {"quick", "continuous"}
  Entries = {"background"}
  PoolSize = 2
  MaxMishaps = 2
  MaxFaults = 0
  JoinMayExpire = TRUE
  MayCrash = FALSE
  Plan <- MCPlan
  Gated <- MCGated
  TimeoutSpendsBudget <- MCTimeoutSpendsBudget
INVARIANT UndecidedIsExplained
PROPERTIES AnnouncedIsFinal RunIsAnnounced

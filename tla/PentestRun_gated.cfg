SPECIFICATION Spec
CONSTANTS
  Modes = {"targeted", "pre_release"}
  Entries = {"background", "sync"}
  PoolSize = 2
  MaxMishaps = 2
  MaxFaults = 1
  JoinMayExpire = FALSE
  MayCrash = TRUE
  Plan <- MCPlan
  Gated <- MCGated
  TimeoutSpendsBudget <- MCTimeoutSpendsBudget
INVARIANTS TypeOK SafeNeedsGreenRun SafeIsClean VerdictIsBacked
PROPERTY RunImplementsGate

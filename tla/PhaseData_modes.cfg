SPECIFICATION Spec
CONSTANTS
  Requests <- SmallRequests
  Route = {"items", "search"}
  MaxFaults = 2
INVARIANTS TypeOK LostIsCounted ApprovalMatchesVerdict LateSuccessIsFailed ReportIsBacked MissedIsExplained BlockIsExplained
CHECK_DEADLOCK FALSE

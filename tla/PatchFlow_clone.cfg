SPECIFICATION Spec
CONSTANTS
  Finding = {"orders_get", "orders_list", "users_get"}
  Branch = {"main", "fix_orders", "fix_other"}
  File = {"orders.py", "users.py"}
  main = "main"
  BranchOf <- Branches
  FileOf <- Files
  Request = {1, 2, 3, 4, 5}
  FindingOf <- Asked
  Receipts = {5}
  MaxActive = 2
  MaxFaults = 1
INVARIANTS TypeOK CreatedHoldsPatch DirtyNeedsFailure
CHECK_DEADLOCK FALSE

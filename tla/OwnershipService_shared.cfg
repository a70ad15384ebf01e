SPECIFICATION Spec
CONSTANTS
  c1 = c1
  c2 = c2
  Target = {"shop"}
  Client <- Threads
  Method = {"file", "dns"}
  MaxActive = 1
  Ttl = 1
  MaxTime = 2
  MaxRequests = 4
  MaxRevocations = 2
SYMMETRY SameThreads
INVARIANTS TypeOK ActiveIsBounded RevocationHolds VerifiedHasRecord
CHECK_DEADLOCK FALSE

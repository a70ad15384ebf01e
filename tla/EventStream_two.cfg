SPECIFICATION FairSpec
CONSTANTS
  Driver = driver
  Workers = {worker}
  Latecomers = {}
  Streams = {s1, s2}
  Quota <- MCQuota
INVARIANTS TypeOK NothingElseIsLost
PROPERTY StreamsEnd

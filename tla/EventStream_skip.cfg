SPECIFICATION Spec
CONSTANTS
  Driver = driver
  Workers = {worker}
  Latecomers = {}
  Streams = {s1, s2}
  Quota <- MCQuota
INVARIANT EveryEventDelivered

SPECIFICATION FairSpec
CONSTANTS
  s1 = s1
  s2 = s2
  Session = {s1, s2}
  Jobs <- MCBlockedJobs
  Prefetch <- MCPrefetch
  Capacity = 2
  Faulty = {}
  Stalled = {s2}
PROPERTY
  Independent
CHECK_DEADLOCK FALSE

SPECIFICATION FairSpec
CONSTANTS
  g1 = g1
  g2 = g2
  p1 = p1
  p2 = p2
  Gets <- TwoGets
  Proxies <- OneProxy
  Kinds <- AllKinds
  Attempts = 2
  FailThreshold = 2
  CloudflareThreshold = 1
  OpenTimeout = 1
  RetryAfter = 1
  Cooldown = 1
  MaxHops = 0
  CapBytes = 1
  MaxBytes = 0
PROPERTY GetReturns
PROPERTY CircuitRecovers

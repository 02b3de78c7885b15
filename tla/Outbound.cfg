SPECIFICATION Spec
CONSTANTS
  g1 = g1
  g2 = g2
  p1 = p1
  p2 = p2
  Gets <- TwoGets
  Proxies <- TwoProxies
  Kinds <- AllKinds
  Attempts = 1
  FailThreshold = 2
  CloudflareThreshold = 1
  OpenTimeout = 1
  RetryAfter = 2
  Cooldown = 1
  MaxHops = 1
  CapBytes = 1
  MaxBytes = 1
INVARIANT TypeOK
INVARIANT CircuitMatchesCount
INVARIANT OvershootIsBounded
INVARIANT RestartKeepsTotal
SYMMETRY Alike

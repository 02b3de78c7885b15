SPECIFICATION Spec
CONSTANTS
  w1 = w1
  w2 = w2
  h1 = h1
  h2 = h2
  h3 = h3
  site = site
  firm = firm
  NoDoc = NoDoc
  NoHash = NoHash
  NoEntity = NoEntity
  NoLead = NoLead
  Workers = {w1, w2}
  Hashes = {h1, h2, h3}
  Keys = {site, firm}
  KeysOf <- SharedKeys
  Rank <- CompanyFirst
  Posted <- InOrder
  MaxAttempts = 2
  MaxSightings = 2
  Budgets <- RecordsAndSplit
SYMMETRY WorkerSymmetry
INVARIANT TypeOK
INVARIANT LeadIsLinked
INVARIANT DocumentsAreCoherent
INVARIANT AttemptsNeedConflicts
INVARIANT RollbackRestores
INVARIANT StaleClassIsForced
CHECK_DEADLOCK FALSE

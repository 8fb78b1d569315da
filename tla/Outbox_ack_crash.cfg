SPECIFICATION FairSpec
CONSTANTS
  w1 = w1
  w2 = w2
  w3 = w3
  SupportsIdempotency = TRUE
  ReceiptLookup = TRUE
  ReconciliationTimeout = 1
  ReceiptsMayExpire = FALSE
  MaxTime = 2
  MaxCrashes = 1
  MaxEffects = 1
  Workers = {w1}
  Proposals = {p1}
  Nonces = {n1, n2}
  Name <- OwnName
  Drifted = {}
  LeaseSeconds = 1
  HandleSeconds = 1
  NoProposal = NoProposal
  NoOutcome = NoOutcome
  NoHandle = NoHandle
CHECK_DEADLOCK FALSE
PROPERTY SentRowSettles

SPECIFICATION FairSpec
CONSTANTS
  w1 = w1
  w2 = w2
  w3 = w3
  SupportsIdempotency = FALSE
  ReceiptLookup = TRUE
  ReconciliationTimeout = 1
  ReceiptsMayExpire = FALSE
  MaxTime = 2
  MaxCrashes = 1
  MaxEffects = 2
  Workers = {w1, w2, w3}
  Proposals = {p1}
  Nonces = {n1, n2, n3, n4}
  Name <- SharedName
  Drifted = {w3}
  LeaseSeconds = 1
  HandleSeconds = 1
  NoProposal = NoProposal
  NoOutcome = NoOutcome
  NoHandle = NoHandle
CHECK_DEADLOCK FALSE
INVARIANTS NeverResentBlindly SettledRowAgrees
PROPERTY EpisodeCloses

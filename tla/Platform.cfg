SPECIFICATION PlatformSpec
CONSTANTS
  c1 = c1
  c2 = c2
  s1 = s1
  s2 = s2
  m1 = m1
  m2 = m2
  m3 = m3
  n1 = n1
  n2 = n2
  p1 = p1
  p2 = p2
  Callers = {c1, c2}
  Scopes = {s1, s2}
  Caller = c1
  FirstScope = s1
  Control = Control
  Legacy = Legacy
  Nowhere = Nowhere
  MaxVersion = 3
  MaxPassword = 6
  Memories = {m1, m2, m3}
  ScopeOf <- Scoped
  Story = m1
  Requests = {q1}
  TTL = 2
  MaxTime = 3
  MaxSearches = 3
  HandleTTL = 2
  Overlap = 3
  Backdate = 3
  MaxNow = 4
  Batches = 2
  Episodes = 2
  Separation = 2
  Wait = 3
  MaxInstant = 5
  Notes = {n1, n2}
  Patches = {p1, p2}
  MaxTurns = 5
  Window = 1
  RestartGap = 2
  MaxSecond = 4
  Reconciles = 2
CHECK_DEADLOCK FALSE
INVARIANTS AuditIsTheHistory PublishedSecretWorks ServedAsBound StoryIsBacked
INVARIANTS SignedRunIsScrubbed RotationStrandsNoHandle BlindUntilDone
INVARIANTS SuccessIsTheTransition ResidualIsTold ProposalIsEvidenced
INVARIANTS ReceiptsAreOwn PassRestsOnReceipts ReportIsItsOwn

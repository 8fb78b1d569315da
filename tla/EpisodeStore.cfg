SPECIFICATION MCSpec
CONSTANTS
  i1 = i1
  i2 = i2
  t1 = t1
  t2 = t2
  w1 = w1
  w2 = w2
  r1 = r1
  r2 = r2
  r3 = r3
  Incidents = {i1, i2}
  TenantOf <- OwnTenant
  IncidentOf <- SameIncident
  Runs = {r1, r2, r3}
  Stateless = {r2, r3}
  Destructive = {r1, r2}
  Receipts = {x1, x2}
  Handles = {h1, h2}
  MaxTime = 2
  MaxJournal = 3
  Drafted = {c1, c2, c3}
  Candidates <- WithOutcomes
  Drafts <- SampleDrafts
  HandleSeconds = 1
  Genesis = Genesis
  NoReceipt = NoReceipt
  NoHandle = NoHandle
  Never = Never
  ActionKeys = {k1}
  Claimants <- TwoClaimants
SYMMETRY Symmetry
CHECK_DEADLOCK FALSE
INVARIANTS LineageIsAChain AcceptedExactlyOnce ReplayTellsTheSame OneOwner
INVARIANTS JournalIsFaithful SuccessIsPromoted AuthorityIsSpentOnce
PROPERTIES LineageOnlyGrows OutcomeStands

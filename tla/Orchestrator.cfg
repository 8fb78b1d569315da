SPECIFICATION LiveAgentSpec
CONSTANTS
  i1 = i1
  c1 = c1
  c2 = c2
  t1 = t1
  r1 = r1
  r2 = r2
  x1 = x1
  Incidents = {i1}
  TenantOf <- AllTenant
  IncidentOf <- SameIncident
  Runs = {r1, r2}
  Stateless = {r2}
  Destructive = {}
  Receipts = {x1}
  Handles = {}
  MaxTime = 0
  MaxJournal = 1
  Drafted = {c1, c2}
  Candidates <- WithOutcomes
  Drafts <- SampleDrafts
  HandleSeconds = 1
  Genesis = Genesis
  NoReceipt = NoReceipt
  NoHandle = NoHandle
  Never = Never
  ActionKeys = {}
  Claimants = {}
  MaxTurns = 2
  MaxCalls = 3
  SearchLimit = 2
  NoChoice = NoChoice
CHECK_DEADLOCK FALSE
INVARIANTS GroundedProposal AnswerMatchesStore
PROPERTY RunIsSettled

SPECIFICATION Spec
CONSTANTS
  Calls = {m1, m2, m3}
  Nobody = Nobody
  N = 3
  Drops <- DropsFirst
  Adopting = {m1}
  Schemas <- SomeSchemas
  LeaseSeconds = 1
  MaxTime = 2
  MaxCrashes = 1
CHECK_DEADLOCK FALSE
SYMMETRY Symmetry
INVARIANTS HistoryIsAPrefix CrashGapCovered HolderSeesNoDrift OneAtATime SchemaIsCurrent

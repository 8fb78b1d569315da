SPECIFICATION LineageSpec
CONSTANT Reconciles = 2
CHECK_DEADLOCK FALSE
INVARIANT ReconcileResumes

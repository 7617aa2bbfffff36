SPECIFICATION Spec
CONSTANTS
  Tree = {t1, t2}
  MaxPlans = 2
  MaxRuns = 4
SYMMETRY TreeSymmetry
INVARIANTS StartupReconciles
CHECK_DEADLOCK FALSE

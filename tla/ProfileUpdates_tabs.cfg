SPECIFICATION Spec
CONSTANTS
  Tab = {c1, c2, c3}
  Edit = {e1, e2, e3}
  MaxRestarts = 1
INVARIANTS NothingIsLostInOneRun EngineRunsFile
SYMMETRY MCSymmetry
CHECK_DEADLOCK FALSE

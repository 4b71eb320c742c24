SPECIFICATION Spec
CONSTANTS
  Tab = {c1, c2}
  Edit = {e1, e2, e3}
  MaxRestarts = 1
INVARIANTS NothingIsLost
SYMMETRY MCSymmetry
CHECK_DEADLOCK FALSE

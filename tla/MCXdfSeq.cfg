CONSTANTS
  Keys = {k1, k2}
  Lens = {4}
  Levels = {3}
  HeaderLen = 4
  Width = 4
  MaxAddr = 22
  MaxItems = 3
  Cap = 8
  Factor = 2
  Modes = {"RWMODE"}
  LateMarks = FALSE
  Crashes = TRUE
SYMMETRY Symmetry
SPECIFICATION Spec
INVARIANTS TypeOK HandlesResolve OnBoundary
PROPERTY Refines

CONSTANTS
  Keys = {k1}
  Values = {v1}
  Lens = {2}
  EntriesPerPage = 2
  MaxDirPages = 2
  HeaderLen = 1
  PageLen = 1
  Modes = {3}
  Calls = {"create", "append"}
  MaxAddr = 11
  MaxRewrites = 1
  ScanAcrossWrites = TRUE
SPECIFICATION SearchSpec

PROPERTIES NothingSkipped

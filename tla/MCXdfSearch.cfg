CONSTANTS
  Keys = {k1, k2}
  Values = {v1}
  Lens = {2}
  EntriesPerPage = 2
  MaxDirPages = 2
  HeaderLen = 1
  PageLen = 1
  Modes = {3}
  Calls = {"create", "append", "rewrite", "delete", "edit"}
  MaxAddr = 9
  MaxRewrites = 1
  ScanAcrossWrites = FALSE
SPECIFICATION SearchSpec
INVARIANTS SearchTypeOK FoundMatches
PROPERTIES ProbeIsExact ScanIsComplete ScanDoesNotRepeat ScanEnds

CONSTANTS
  Keys = {k1}
  Values = {v1, v2}
  Lens = {2, 3}
  EntriesPerPage = 2
  MaxDirPages = 2
  HeaderLen = 1
  PageLen = 1
  Modes = {0, 3}
  Calls = {"create", "open", "append", "rewrite", "delete", "edit", "checkpoint", "close", "closeRefused", "crash"}
  MaxAddr = 10
  MaxRewrites = 1
SPECIFICATION Spec


PROPERTIES LockHolds

\* Two keys, one entry per directory page: every rewrite to the end crosses a page.
CONSTANTS
  Keys = {k1, k2}
  Values = {v1, v2}
  Lens = {2, 3}
  EntriesPerPage = 1
  MaxDirPages = 2
  HeaderLen = 1
  PageLen = 1
  Modes = {0, 3}
  Calls = {"create", "open", "append", "rewrite", "delete", "edit", "checkpoint", "close", "crash"}
  MaxAddr = 8
  MaxRewrites = 1
SPECIFICATION Spec
SYMMETRY Symmetry
PROPERTIES Refines

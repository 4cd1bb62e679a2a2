SPECIFICATION Spec
CONSTANTS
  Files = {1, 2}
  MaxWords <- MCMaxWords
  Lengths = {2, 4}
  Values = {1, 2}
  Junk = 9
  Settings <- MCSettings
  MaxPages = 1
  MaxWaFiles = 2
  AgeRead = 1
  AgeWrite = 1
  BlkSize = 2
  Blocks = {2}
  MaxPending = 1
  WaHole = 3
INVARIANTS TypeOK NeverExits BuffersAreKept
PROPERTY Refines
VIEW MCView

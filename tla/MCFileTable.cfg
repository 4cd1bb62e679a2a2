SPECIFICATION Spec
CONSTANTS
  NoMember = NoMember
  NoSub = NoMember
  Names <- MCNames
  Files <- MCFiles
  Members <- MCMembers
  Types <- MCTypes
  Units = {11, 12, 13}
  Bottom = 11
  FtnTop = 11
  Top = 13
  MaxFiles = 2
  MaxWaFiles = 2
  MaxXdfFiles = 6
  SeqFiles = 3
  Fds = {3, 4}
  Addresses = {1}
  Disks <- MCDisks
  BadNames <- MCBadNames
  SeqTyped = TRUE
  LowIndices = TRUE
  OwnHeaders = TRUE
VIEW MCView
INVARIANTS TypeOK UnitsReachTheirFiles XdfFilesAreConnected HandlesNameTheirFiles
PROPERTY UnitsAreIndependent

SPECIFICATION Spec
CONSTANTS
  WordSize = 16
  ShortSize = 8
  CharSize = 4
  MinSide = 4
  FewBits = 2
  ExponentBits = 4
  Sequence = 4
  CountBits = 3
  Arrays <- MCArrays
  Sizes <- MCSizes
  Starts <- MCStarts
  PackedWords = 20
  MaxCalls = 2
  Fields <- MCFields
  RealFields <- MCReals
  FloatFields <- MCFloats
  Junk <- MCJunk
INVARIANTS TypeOK ArraysComeBack AutodetectionKeepsAll StreamsFit RealsComeBack
PROPERTY OtherBitsAreKept

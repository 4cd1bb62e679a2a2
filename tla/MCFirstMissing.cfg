\* A missing first element comes back as a number.
CONSTANTS
    Byte = 3
    Noise = 77
    MinSide = 2
    NotSet = NotSet
    Defaults <- MCDefaults
    Environment <- MCEnvironment
    Settable <- MCSettable
    Mappings <- MCMappings
    CompressedWords = {1}
    Units = {10, 11}
    Status <- MCStatus
    Writes <- MCWrites
    Searches <- MCSearches
    Remaps <- MCRemaps
    MaxIpvals = 1
    MaxRecords = 2
    MaxSettings = 1
SPECIFICATION Spec
INVARIANT MissingComeBack

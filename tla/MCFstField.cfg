\* What c_fstecr writes, c_fstluk reads.  MaxIpvals = 1: the second value of c_ipN_all is
\* 0 or one that no record has, so that a longer table selects the same records.
CONSTANTS
    Byte = 3
    Noise = 77
    MinSide = 2
    NotSet = NotSet
    Defaults <- MCDefaults
    Environment <- MCEnvironment
    Settable <- MCSettable
    Mappings <- MCMappings
    CompressedWords = {1}
    Units = {10, 11}
    Status <- MCStatus
    Writes <- MCWrites
    Searches <- MCSearches
    Remaps <- MCRemaps
    MaxIpvals = 1
    MaxRecords = 2
    MaxSettings = 1
SPECIFICATION Spec
INVARIANTS
    TypeOK
    FieldsComeBack
    SearchesAgree
PROPERTY
    RewriteKeepsOthers

CONSTANTS
    PRIMARY = "amd64"
    ALL = "all"
    Path <- MCPath
    PathOf <- MCPathOf
    Canonical <- MCCanonical
    Filters <- MCFilters
    Debs <- MCDebs
    Broken <- MCBroken
    Dotted <- MCDotted
    DebRank <- MCDebRank
    Databases <- MCDatabases
    QuerySets <- MCQuerySets
    MaxChanges = 1
    EMPTY = "empty"
    TmpfilesConfigs <- MCTmpfilesConfigs
    Resolved <- MCResolved
    Globs <- MCGlobs
    Decoded <- MCDecoded
    Devices <- MCDevices
    HostIds <- MCHostIds
    FactoryOf <- MCFactoryOf
    SourceTrees <- MCSourceTrees
    Below <- MCBelow
    None = None

SPECIFICATION Spec

INVARIANTS
    TypeOK
    ParsedAsWritten
    MergeAgrees
    ExpectedIsInstalled
    OriginalsAreInstalled
    LastLineWins

CHECK_DEADLOCK FALSE

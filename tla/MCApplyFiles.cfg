CONSTANTS
    Path <- MCPath
    Ancestors <- MCAncestors
    PathRank <- MCPathRank
    ArgRank <- MCArgRank
    WithoutSetid <- MCWithoutSetid
    Run <- MCRun
    Contents = {"empty", "c1", "c2"}
    EMPTY = "empty"
    Targets = {"/g", "/x"}
    DevNos = {"dev"}
    Mode = {"0", "0644", "0755", "0777", "4755"}
    DEFAULT_FILE_MODE = "0644"
    DEFAULT_DIR_MODE = "0755"
    LINK_MODE = "0777"
    ZERO_MODE = "0"
    Name = {"root", "user"}
    ROOT = "root"
    None = "None"
    NoNode = NoNode

SPECIFICATION ApplySpec

INVARIANTS
    ApplyTypeOK
    InOrder
    OnlyAsApproved
    UntouchedElsewhere
    RemovalBlockedByOthers
    SuccessMeansAchieved

PROPERTIES
    Ends

CHECK_DEADLOCK FALSE

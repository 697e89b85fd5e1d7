CONSTANTS
    Path <- MCPath
    Ancestors <- MCAncestors
    PathRank <- MCPathRank
    ArgRank <- MCArgRank
    Stream <- MCStream
    Contents = {"c1", "c2"}
    Targets = {"t1"}
    DevNos = {"dev"}
    Mode = {"0600", "0644", "0755"}
    DEFAULT_FILE_MODE = "0644"
    DEFAULT_DIR_MODE = "0755"
    Name = {"root", "user"}
    ROOT = "root"
    None = "None"
    NoNode = NoNode

SPECIFICATION Spec

INVARIANTS
    TypeOK
    EntriesFollowStream
    RemovalsRemembered
    MetadataFollowsStream
    FoldAgrees

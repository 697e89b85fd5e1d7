CONSTANTS
    Path <- MCPath
    Ancestors <- MCAncestors
    PathRank <- MCPathRank
    ArgRank <- MCArgRank
    WithoutSetid <- MCWithoutSetid
    Packages <- MCPackages
    Scripts <- MCScripts
    Disks <- MCDisks
    Settings <- MCSettings
    MaxBreakdowns = 1
    Contents = {"empty", "c1", "c2"}
    EMPTY = "empty"
    Run = {}
    Targets = {"/g", "/x"}
    DevNos = {"dev"}
    Mode = {"0", "0600", "0644", "0755", "0777", "4755"}
    DEFAULT_FILE_MODE = "0644"
    DEFAULT_DIR_MODE = "0755"
    LINK_MODE = "0777"
    ZERO_MODE = "0"
    Name = {"root", "user"}
    ROOT = "root"
    None = None
    NoNode = NoNode

SPECIFICATION Spec

INVARIANT RemovedIsRecreated

CONSTANTS
    Word = {"a", "b", "x"}
    ProgramId = {1, 2}
    Libraries <- MCLibraries
    Inputs <- MCInputs
    UserName = {"root", "me", "svc"}
    GroupName = {"root", "me", "svc", "wheel"}
    GroupRank <- MCGroupRank
    MaxId = 3
    Password = {"!*", "x"}
    NewUsers <- MCNewUsers
    NewGroups <- MCNewGroups
    Memberships <- MCMemberships
    UserUpdates <- MCUserUpdates
    GroupUpdates <- MCGroupUpdates
    SysusersFiles <- MCSysusersFiles
    Mappings <- MCMappings
    Hosts <- MCHosts
    MaxCalls = 4
    None = None
    Path <- MCPath
    Ancestors <- MCAncestors
    PathRank <- MCPathRank
    ArgRank <- MCArgRank
    WithoutSetid <- MCWithoutSetid
    FileBackend = {"pacman"}
    PkgBackend = {"pacman", "flatpak"}
    Hosted <- MCHosted
    Configs <- MCConfigs
    Filters = {None, "/d"}
    MaxSaves = 3
    Backend = {"pacman", "flatpak", "systemd-tmpfiles"}
    PkgIdent <- MCPkgIdent
    UnitLinks <- MCUnitLinks
    UnitFiles <- MCUnitFiles
    UsrTwin <- MCUsrTwin
    DEV_NULL = "/dev/null"
    Contents = {"empty", "c1", "unit"}
    Targets = {"/g", "/x", "/dev/null", "/d/f"}
    DevNos = {"dev"}
    Mode = {"0", "0600", "0644", "0755", "0777", "4755"}
    DEFAULT_FILE_MODE = "0644"
    DEFAULT_DIR_MODE = "0755"
    LINK_MODE = "0777"
    ZERO_MODE = "0"
    Name = {"root", "user"}
    ROOT = "root"
    NoNode = NoNode

SPECIFICATION ScriptSpec

INVARIANTS
    TypeOK
    AgreesWithReference
    LinesKept
    WrittenIdsUnique
    DeclaredHaveGroups
    MembersAreKept
    AlignedKeepTheirIds
    MergedIsUpToDate
    MergedIsKept

PROPERTIES
    EditingEnds
    SysusersOnlyAdd

CHECK_DEADLOCK FALSE

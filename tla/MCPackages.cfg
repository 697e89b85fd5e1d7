CONSTANTS
    NativePkg = {"tool", "lib"}
    Flatpak = {"app"}
    Requires <- MCRequires
    Systems <- MCSystems
    Scripts <- MCScripts
    Natives = {"pacman", "apt"}
    Paranoia = {"yolo", "ask", "dry-run"}
    MaxBreakdowns = 1

SPECIFICATION Spec

INVARIANTS
    TypeOK
    NothingLostEarly
    SuccessMeansWanted
    BlockedOnlyWhere
    FilesFollowUnlessChanged

PROPERTY
    Converges

CONSTANTS
    NativePkg = {"tool", "lib"}
    Flatpak = {"app"}
    Requires <- MCRequires
    Systems <- MCSystems
    Scripts <- MCDependencyScripts
    Natives = {"pacman", "apt"}
    Paranoia = {"yolo"}
    MaxBreakdowns = 0

SPECIFICATION Spec

INVARIANT FilesFollowPackages

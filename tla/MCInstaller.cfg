\* Two commands of any kind, an install and an uninstall at once or one after the other.
SPECIFICATION Spec
CONSTANTS
    Runs = {r1, r2}
    Overlapping <- InstallWithUninstall
    None = None
INVARIANTS
    TypeOK
    InstallComplete
    UninstallComplete
    NeverStrandedSilently
    FreshPodsTrusted
CHECK_DEADLOCK FALSE

\* Two profiles, two codes, two mishaps to one of them.
CONSTANTS
    NULL = NULL
    p1 = p1
    p2 = p2
    Profile = {p1, p2}
    Code = {t1, t2}
    Settings <- MCSettings
    UserEntry <- MCEntries
    MaxMishaps <- MCMishaps
SYMMETRY MCCodes
SPECIFICATION Spec
INVARIANTS TypeOK TokenAccountedFor Undoable InstallIsHealthy
PROPERTIES UninstallRestores UserKeysKept
CHECK_DEADLOCK FALSE

\* One profile with any settings, one code, nobody else at work.
CONSTANTS
    NULL = NULL
    p1 = p1
    p2 = p2
    Profile = {p1}
    Code = {t1}
    Settings <- AllSettings
    UserEntry <- MCEntries
    MaxMishaps <- NoMishaps
SPECIFICATION Spec
INVARIANT EarlyRefusal
CHECK_DEADLOCK FALSE

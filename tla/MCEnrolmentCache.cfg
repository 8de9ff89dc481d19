\* One server, one commit that fails.
CONSTANTS
    NULL = NULL
    c1 = c1
    c2 = c2
    t1 = t1
    t2 = t2
    t3 = t3
    t4 = t4
    Server = {p1}
    Code = {c1, c2}
    Member = {m1, m2}
    Attempt = {t1, t2, t3, t4}
    CodeOf <- MCCodeOf
    Ttl = 1
    MaxCached = 1
    MaxClock = 2
    MaxFaults = 1
SPECIFICATION Spec
INVARIANTS CacheIsFinal
CHECK_DEADLOCK FALSE

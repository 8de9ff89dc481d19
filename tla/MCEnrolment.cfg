\* Two servers, two codes, four attempts; a cache that holds one code.
CONSTANTS
    NULL = NULL
    c1 = c1
    c2 = c2
    t1 = t1
    t2 = t2
    t3 = t3
    t4 = t4
    Server = {p1, p2}
    Code = {c1, c2}
    Member = {m1, m2}
    Attempt = {t1, t2, t3, t4}
    CodeOf <- MCCodeOf
    Ttl = 1
    MaxCached = 1
    MaxClock = 2
    MaxFaults = 2
SPECIFICATION Spec
INVARIANTS TypeOK TokensAreBacked MembersAreInvited CacheAgrees
PROPERTIES RefusalsAreTrue RedeemedOnce
CHECK_DEADLOCK FALSE

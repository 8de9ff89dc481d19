\* One process, one rule that an admin may change and delete, two days.
CONSTANTS
    NULL = NULL
    alice = alice
    bob = bob
    a1 = a1
    a2 = a2
    b1 = b1
    Server = {p1}
    Member = {alice, bob}
    Batch = {a1, a2, b1}
    Sender <- MCSender
    TokensIn <- MCTokensIn
    DateOf <- MCDateOf
    Rule = {1}
    Content <- MCOne
    Week = 2
    Retries = 1
    MinSharers = 2
    MaxDay = 1
    MaxFaults = 1
SPECIFICATION FairSpec
PROPERTIES PendingResolves
CHECK_DEADLOCK FALSE

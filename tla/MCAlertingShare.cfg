\* One process, one day, no faults.
CONSTANTS
    NULL = NULL
    alice = alice
    bob = bob
    a1 = a1
    a2 = a2
    b1 = b1
    Server = {p1}
    Member = {alice, bob}
    Batch = {a1, b1}
    Sender <- MCSender
    TokensIn <- MCTokensIn
    DateOf <- MCDateOf
    Rule = {1}
    Content <- MCContent
    Week = 2
    Retries = 1
    MinSharers = 2
    MaxDay = 0
    MaxFaults = 0
SPECIFICATION Spec
PROPERTIES OnlySenderCrosses
CHECK_DEADLOCK FALSE

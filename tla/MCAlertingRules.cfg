\* One process, two rules that an admin may switch off and delete, two days, one fault.
CONSTANTS
    NULL = NULL
    alice = alice
    bob = bob
    a1 = a1
    a2 = a2
    b1 = b1
    Server = {p1}
    Member = {alice, bob}
    Batch = {a1, a2}
    Sender <- MCSender
    TokensIn <- MCTokensIn
    DateOf <- MCDateOf
    Rule = {1, 2}
    Content <- MCTwo
    Week = 2
    Retries = 1
    MinSharers = 2
    MaxDay = 1
    MaxFaults = 1
SPECIFICATION FairSpec
PROPERTIES DeliverySettles
CHECK_DEADLOCK FALSE

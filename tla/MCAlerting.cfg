\* Two processes, two rules that an admin may change and delete, two days.
CONSTANTS
    NULL = NULL
    alice = alice
    bob = bob
    a1 = a1
    a2 = a2
    b1 = b1
    Server = {p1, p2}
    Member = {alice, bob}
    Batch = {a1, a2}
    Sender <- MCSender
    TokensIn <- MCTokensIn
    DateOf <- MCAhead
    Rule = {1, 2}
    Content <- MCHooks
    Week = 2
    Retries = 1
    MinSharers = 2
    MaxDay = 1
    MaxFaults = 1
SYMMETRY MCServers
SPECIFICATION Spec
INVARIANTS TypeOK NotifiedOnce OutcomeIsTrue PendingIsOwned ShareIsAShare CrossingIsAlerted
CHECK_DEADLOCK FALSE

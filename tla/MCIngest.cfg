\* Two members, two batches and a malformed one, up to two copies of each in flight, one fault.
CONSTANTS
    alice = alice
    bob = bob
    x1 = x1
    u1 = u1
    u2 = u2
    s1 = s1
    mac = mac
    lnx = lnx
    api_request = api_request
    plugin = plugin
    garbled = garbled
    iso1 = iso1
    empty = empty
    json = json
    decimal = decimal
    NULL = NULL
    Member = {alice, bob}
    Install = {x1}
    Os = {mac, lnx}
    Slot = {k1, k2}
    Event <- MCEvent
    b1 = b1
    b2 = b2
    b3 = b3
    b4 = b4
    Batch = {b1, b2, b3}
    Sender <- MCSender
    Events <- MCEvents
    Body <- MCBody
    MaxClock = 2
    MaxTokens = 2
    MaxFaults = 1
SPECIFICATION FairSpec
INVARIANTS TypeOK AckedIsStored SeenWindowCovers BatchIsTheLoop PayloadsAreRead
PROPERTIES EventuallyCounted KnowledgeKept CountsOnce
CHECK_DEADLOCK FALSE

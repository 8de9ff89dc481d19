\* Two tokens, three instants, two events, one lost request.
CONSTANTS
    NULL = NULL
    legacy = legacy
    ann = ann
    ben = ben
    side = side
    repl = repl
    opus = opus
    haiku = haiku
    s1 = s1
    s2 = s2
    home = home
    h1 = h1
    Overhead = {side}
    SourceNone = SourceNone
    Placeholder = legacy
    Before <- MCBefore
    SessionsLimit = 1
    Hour = 1
    DayLong = 4
    HourlyUnder = 8
    DefaultRange = 4
    Others = Others
    MaxBands = 2
    MaxBars = 2
    MaxGrid = 20
    Scale = 10
    SlotCount = 2
    Hash <- MCHash
    AlertRule <- MCRules
    ServerOffset <- MCServerOffset
    WeekLong = 2
    MidnightGap = 2
    MinSharers = 2
    FireKeys <- MCFireKeys
    MaxToken = 2
    Row <- MCRow
    Early <- MCEarly
    Joined <- MCJoined
    OffsetHere <- MCOffsetHere
    PresetDays <- MCPresetDays
    DefaultPreset = "week"
    CustomDays = 1
    Dates <- MCDates
    Selection <- MCSelection
    Reads = {"summary", "timeseries"}
    Horizon = {9, 12, 14}
    MaxEvents = 3
    MaxFaults = 1
SPECIFICATION Spec
INVARIANTS TypeOK TabIsTrue
PROPERTIES GateIsDue  LoadSettles
CHECK_DEADLOCK FALSE

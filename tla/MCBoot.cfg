\* Two servers, two boots, one crash, two alerts in the days around a transition.
CONSTANTS
    NULL = NULL
    new = new
    old = old
    host1 = host1
    host2 = host2
    team = team
    url = url
    mdns_ = mdns_
    lan = lan
    Server = {new, old}
    Build <- MCBuild
    SystemZone <- MCZone
    Hostname <- MCHost
    Offset <- MCOffset
    Option <- MCOption
    Url <- MCUrl
    Token = {t1, t2, t3}
    t1 = t1
    t2 = t2
    t3 = t3
    Day = 6
    Week = 2
    Gap = 2
    Horizon = {8, 9, 14}
    MaxFires = 2
    MaxBoots = 2
    MaxCrashes = 1
SPECIFICATION Spec
INVARIANTS TypeOK SchemaIsSound TokenIsKnown FiresAreKeyed NameIsWithdrawn
PROPERTIES ChoiceStands AdminStands BootSettles
CHECK_DEADLOCK FALSE

SPECIFICATION Spec
CONSTANTS
    s1 = s1
    s2 = s2
    tcp12 = tcp12
    udp21 = udp21
    lldp = lldp
    Switches = {s1, s2}
    Watched = s1
    Hosts = {"h1", "h2"}
    Flows = {tcp12, udp21, lldp}
    Src <- MCSrc
    Dst <- MCDst
    Lldp = {lldp}
    Class = {"TCP", "UDP", "video"}
    Members <- MCMembers
    Content <- MCContent
    Configs <- MixedConfigs
    Nowhere = Nowhere
    Faulty = {s2}
    WithDaemon = TRUE
    MaxEdits = 1
    MaxPackets = 2
INVARIANTS
    ResetSwitchFollows
    QueuesExist
    MissInstalled
    SavedConfigSeen
CONSTRAINT
    Scenario
CHECK_DEADLOCK FALSE

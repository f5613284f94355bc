SPECIFICATION Spec
CONSTANTS
    s1 = s1
    s2 = s2
    tcp12 = tcp12
    udp21 = udp21
    lldp = lldp
    Switches = {s1}
    Watched = s1
    Hosts = {"h1", "h2"}
    Flows = {tcp12, udp21}
    Src <- MCSrc
    Dst <- MCDst
    Lldp = {}
    Class = {"TCP", "UDP", "video"}
    Members <- MCMembers
    Content <- MCContent
    Configs <- LayerConfigs
    Nowhere = Nowhere
    Faulty = {}
    WithDaemon = FALSE
    MaxEdits = 0
    MaxPackets = 2
INVARIANT
    LearnedNotFlooded
CHECK_DEADLOCK FALSE

SPECIFICATION ShellSpec
CONSTANTS
    t1 = t1
    t2 = t2
    Threads = {t1, t2}
    Ips = {1, 2}
    Keys = {11, 12, 21}
    IpOf <- MCIpOf
    None = None
    Null = Null
    MaxPkts = 4
SYMMETRY Symmetric
INVARIANTS
    RightContext
    FlowsUnderTheirUser
    ListsFlows
    CountsFlows
    RatesHold
PROPERTIES
    ImplementsRegistry

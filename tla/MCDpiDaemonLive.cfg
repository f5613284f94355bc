SPECIFICATION FairSpec
CONSTANTS
    c1 = c1
    c2 = c2
    f1 = f1
    f2 = f2
    Conns = {c1, c2}
    Flows = {f1}
    NoFlow = NoFlow
    Nobody = Nobody
    Cf <- MCCf
    Pid <- MCPid
    Table <- MCTable
    CfOf <- MCCfOf
    UnIdentify = 9999
    Port <- MCPort
    Payloads <- LivePayloads
    DPI_NUM = 1
    MaxReq = 1
    Mortal = {c1}
PROPERTIES
    Answered
    EventuallyDecided
    ThreadEnds

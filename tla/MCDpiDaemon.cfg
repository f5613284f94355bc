SPECIFICATION Spec
CONSTANTS
    c1 = c1
    c2 = c2
    f1 = f1
    f2 = f2
    Conns = {c1, c2}
    Flows = {f1, f2}
    NoFlow = NoFlow
    Nobody = Nobody
    Cf <- MCCf
    Pid <- MCPid
    Table <- MCTable
    CfOf <- MCCfOf
    UnIdentify = 9999
    Port <- MCPort
    Payloads <- MixedPayloads
    DPI_NUM = 2
    MaxReq = 2
    Mortal = {}
SYMMETRY Symmetric
INVARIANTS
    TypeOK
    PopFindsPacket
    PacketsAccounted
    VerdictJustified
    BudgetDecides
PROPERTIES
    VerdictOnce
    LateOnce
    ImplementsFlowVerdict

SPECIFICATION Spec
CONSTANTS
    web = web
    tls = tls
    Conns = {c1}
    Flows = {web, tls}
    NoFlow = NoFlow
    Nobody = Nobody
    Cf <- ConfigCf
    Pid <- ConfigPid
    Table <- ConfigTable
    CfOf <- ConfigCfOf
    UnIdentify <- CF_UN_IDENTIFY
    Port <- TablePort
    Payloads <- SinglePayloads
    DPI_NUM = 15
    MaxReq = 2
    Mortal = {}
INVARIANTS
    EveryPatternCounts
    OneNoteNeedsTwo

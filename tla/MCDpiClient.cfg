SPECIFICATION ClientSpec
CONSTANTS
    Buf = 2
    Sizes = {1, 2, 3, 5}
    MaxAsk = 5
    IpSet = {3, 200}
    Files <- MCFiles
    Live = {1, 2, 3, 4, 6}
    UIps = {0, 200, 50}
    MAX_PKT_NUM = 2
    PKT_LEN = 2
    ETH_HEADER_LEN = 1
    MinCap = 2
    MaxRound = 5
INVARIANTS
    AnswerMatches
    NeverStuck
    RoundsMakeFlows
    RoundsAreWhole
    StoredFits
PROPERTIES
    Returns

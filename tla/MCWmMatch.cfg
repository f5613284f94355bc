SPECIFICATION FairSpec
CONSTANTS
    a = a
    b = b
    MaxLen = 8
    MaxMixed = 5
    Wrapped = 65532
    Pids = {1, 2, 3}
    Size <- MCSize
    Ptn <- MCPtn
    m_Min = 5
    Byte = {a, b}
    Pad = Pad
    Payloads <- MCPayloads
    Orders <- BenignOrders
INVARIANTS
    Sound
    HitsAreCovered
    StaysInBuffer
    Complete
PROPERTIES
    Terminates

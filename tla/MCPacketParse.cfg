SPECIFICATION Spec
CONSTANTS
    Ips = {1, 2, 3}
    Users = {1, 2}
    Port <- MCPort
    Lens = {19, 28, 41, 48}
    Ihls = {4, 5, 7, 11}
    Thls = {4, 5, 7}
    Versions = {4, 6, 8}
    Stale = {7, 96}
    Width = 65536
    Unset = Unset
INVARIANTS
    TypeOK
    OneConversation
    SearchesPayload

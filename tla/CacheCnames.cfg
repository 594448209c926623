\* A cache of four records, and CNAMEs only.
CONSTANTS
    a = a
    b = b
    c = c
    x = x
    y = y
    Name = {a, b, c}
    NoName = NoName
    LongName = {b}
    Addr = {x, y}
    NoAddr = NoAddr
    NoRec = NoRec
    CacheSize = 4
    MaxHosts = 3
    MaxDhcp = 2
    Bignames = 2
    RehashAt = 1
    MaxTtl = 1
    MaxItems = 3
    Hash <- MCHash
    Replies <- MCCnameReplies
    HostsFiles <- NoHosts
    LeaseLists <- NoHosts
SPECIFICATION CacheSpec
INVARIANTS
    CnameTarget
    AnswersEnd

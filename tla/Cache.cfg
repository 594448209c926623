\* A cache of three records, with upstream replies, hosts files and leases.
CONSTANTS
    a = a
    b = b
    c = c
    x = x
    y = y
    Name = {a, b, c}
    NoName = NoName
    LongName = {b}
    Addr = {x, y}
    NoAddr = NoAddr
    NoRec = NoRec
    CacheSize = 3
    MaxHosts = 3
    MaxDhcp = 2
    Bignames = 1
    RehashAt = 1
    MaxTtl = 1
    MaxItems = 2
    Hash <- MCHash
    Replies <- MCReplies
    HostsFiles <- MCHostsFiles
    LeaseLists <- MCLeaseLists
SPECIFICATION CacheSpec
INVARIANTS
    CacheTypeOK
    Structure
    ChainOrder
    FindsEach
    LocalTrumps
PROPERTY
    ImplementsContents

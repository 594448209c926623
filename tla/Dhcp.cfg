CONSTANTS
    g = g  h = h  c1 = c1  n = n  p = p
    Addr = {11, 12}
    Hw = {g, h}
    Clid = {c1}
    Name = {n, p}
    NoHw = NoHw  NoClid = NoClid  NoName = NoName  Never = Never  NoAlarm = NoAlarm
    MaxLeft = 1
    DhcpMax = 2
    Slop = 1
    Retry = 1
    NetOf <- MCNetOf
    CommandLine <- MCCommandLine
    Clients <- MCClients
    Contexts <- MCContexts
    Router <- MCRouter
    Hash <- MCHash
    Sends = {"bootp", "discover", "request", "inform", "release", "decline"}
    MaxOld = 1
    Requested = {0}
    EthersFiles <- MCEthers
    BankFiles <- MCBanks
    HostsFiles <- MCHosts
    Strangers = {{11}}
    Ignore <- MCIgnore
    IgnoreNames = {}
    Authoritative = FALSE
    BootpDynamic = TRUE
    NoPing = FALSE
    MinTime = 1
    PingCacheTime = 0
    MaxPings = 2
    Backoff = 1
    HasScript = FALSE
    Stops = {"crash"}
    MayFail = FALSE
    QuietHangUp = TRUE
SPECIFICATION Spec
INVARIANTS TypeOK OneLeaseEach NoConflict OffersStand FreedNamesExpired FileAndAlarm
CHECK_DEADLOCK FALSE

CONSTANTS
    g = g  h = h  c1 = c1  n = n  p = p
    Addr = {11, 12}
    Hw = {g, h}
    Clid = {}
    Name = {n, p}
    NoHw = NoHw  NoClid = NoClid  NoName = NoName  Never = Never  NoAlarm = NoAlarm
    MaxLeft = 1
    DhcpMax = 2
    Slop = 1
    Retry = 1
    NetOf <- MCNetOf
    CommandLine <- NoOptions
    Clients <- LeaseClients
    Contexts <- ForEver
    Router <- MCRouter
    Hash <- MCHash
    Sends = {"request", "release"}
    MaxOld = 1
    Requested = {0}
    EthersFiles <- NoFiles
    BankFiles <- MCBanks
    HostsFiles <- MCHosts
    Strangers = {{}}
    Ignore <- MCIgnore
    IgnoreNames = {}
    Authoritative = FALSE
    BootpDynamic = FALSE
    NoPing = TRUE
    MinTime = 1
    PingCacheTime = 0
    MaxPings = 2
    Backoff = 1
    HasScript = TRUE
    Stops = {"term"}
    MayFail = TRUE
    QuietHangUp = TRUE
SPECIFICATION Spec
INVARIANTS ScriptSynced FileAndAlarm
CHECK_DEADLOCK FALSE

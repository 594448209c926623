SPECIFICATION Spec
CONSTANTS
    Server = {"isp", "r1"}
    ServerAttr <- MCServerAttr
    Family = {"v4"}
    Addr = {"isp53", "isp653", "res53", "corp53"}
    Label = {"example", "org", "corp"}
    LocalName <- NoName
    NoServer = "null"
    Unread = Unread
    Client = {"c1"}
    MsgId = {1}
    Crc = {"org", "unknown"}
    AskedFor <- MCAskedFor
    Many = Many
    UnknownCrc = "unknown"
    Request <- OneRequest
    OptionSets = {{}}
    ServerLists <- TwoServers
    ResolvFiles <- ResolvFile
    Interfaces = {"isp53"}
    Slot = {1}
    NoSlot = 0
    MaxRef = 2
    SocketsMayFail = FALSE
    FtabSize = 1
    TIMEOUT = 1
    Listeners = 1
INVARIANTS
    NoDangling

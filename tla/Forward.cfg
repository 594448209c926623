SPECIFICATION Spec
CONSTANTS
    Server = {"isp", "isp6"}
    ServerAttr <- MCServerAttr
    Family = {"v4", "v6"}
    Addr = {"isp53", "isp653", "res53", "corp53"}
    Label = {"example", "org", "corp"}
    LocalName <- NoName
    NoServer = "null"
    Unread = Unread
    Client = {"c1", "c2"}
    MsgId = {1, 2}
    Crc = {"org", "unknown"}
    AskedFor <- MCAskedFor
    Many = Many
    UnknownCrc = "unknown"
    Request <- TableRequest
    OptionSets <- TableOptions
    ServerLists <- TableServers
    ResolvFiles = {}
    Interfaces = {}
    Slot = {1}
    NoSlot = 0
    MaxRef = 2
    SocketsMayFail = FALSE
    FtabSize = 1
    TIMEOUT = 1
    Listeners = 2
INVARIANTS
    TypeOK
    RefcountExact
    UniqueIds
    UniqueSender
    InUseAwaited
    SocketsHeld
    ForwardallWaits
PROPERTIES
    YoungRecordsKept

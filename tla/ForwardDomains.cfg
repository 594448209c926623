SPECIFICATION FairSpec
CONSTANTS
    Server = {"lcorp", "corp", "r1"}
    ServerAttr <- MCServerAttr
    Family = {"v4"}
    Addr = {"isp53", "isp653", "res53", "corp53"}
    Label = {"example", "org", "corp"}
    LocalName <- NoName
    NoServer = "null"
    Unread = Unread
    Client = {"c1"}
    MsgId = {1}
    Crc = {"org", "corp", "unknown"}
    AskedFor <- MCAskedFor
    Many = Many
    UnknownCrc = "unknown"
    Request <- DomainRequest
    OptionSets <- DomainOptions
    ServerLists <- DomainServers
    ResolvFiles <- DomainFiles
    Interfaces = {"res53"}
    Slot = {1}
    NoSlot = 0
    MaxRef = 1
    SocketsMayFail = FALSE
    FtabSize = 1
    TIMEOUT = 1
    Listeners = 1
INVARIANTS
    NoDangling
    NeverAsksLocal
    PreferredIsGeneral
PROPERTIES
    ListensAgain

CONSTANTS
    Peer = {"a", "b"}
    Listener = {"l1"}
    Port = {1, 2}
    TftpMax = 2
    Inode = {"old", "new"}
    Content <- MCContent
    Disks <- MCDisks
    Requests <- MCRequests
    MaxBackoff = 2
    NoBlock = FALSE
    DefaultBlock = 1
    MaxBlock = 2
    BlockNumbers = 3
    MaxRequests <- MCMaxRequests
    QueueSize = 1
    None = None
SPECIFICATION FairSpec
INVARIANTS FilesCounted Delivered
PROPERTIES TransferEnds
CHECK_DEADLOCK FALSE

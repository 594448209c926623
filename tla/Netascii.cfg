CONSTANTS
    Peer = {"a"}
    Listener = {"l1"}
    Port = {1, 2}
    TftpMax = 1
    Inode = {"old", "new"}
    Content <- NetasciiContent
    Disks <- MCDisks
    Requests <- NetasciiRequests
    NoBlock = FALSE
    DefaultBlock = 1
    MaxBlock = 4
    MaxBackoff = 2
    BlockNumbers = 3
    MaxRequests <- MCMaxRequests
    QueueSize = 1
    None = None
SPECIFICATION Spec
INVARIANTS NetasciiDelivered
CHECK_DEADLOCK FALSE

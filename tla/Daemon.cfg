CONSTANTS
    Pid = {1, 2, 3}
    NoPid = 0
    MaxProcs = 2
    Listener = {"l1", "l2"}
    PipeSize = 2
    HelperPipeSize = 1
    MaxChanges = 3
    Signals = {"reload", "term"}
    MaxLogs = 2
    MaxMessages = 4
    MaxChild = 1
SPECIFICATION BothSpec
INVARIANTS ChildrenTracked ScriptsInOrder LogAccounted LogInOrder
PROPERTIES TermEnds
CHECK_DEADLOCK FALSE

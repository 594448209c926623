SPECIFICATION Spec
CONSTANTS
    Server = {"all", "lan", "lans", "corp", "corp6", "single", "r1"}
    ServerAttr <- MCServerAttr
    Family = {"v4", "v6"}
    Addr = {"isp53", "corp53"}
    Label = {"lan", "corp", "org", "host"}
    LocalName <- MCLocalName
    NoServer = "null"
    Unread = Unread
    Questions <- MCQuestions
    Options = {"nodots_local"}
    ResolvFiles <- MCResolvFiles
INVARIANTS
    LongestMatchRoute
    LocalNeverForwarded
    ClosestLiteralAnswers
    CommandLineKept

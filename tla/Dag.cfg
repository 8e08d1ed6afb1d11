SPECIFICATION ServersSpec
CONSTANTS
    MaxNodes = 4
    MaxTopics = 5
    LongNames <- NamesLong
    Shown = 4
    Dbg <- NameDbg
    Uploads <- Posted
    MaxDeploys = 3
    MaxRun = 3
    MaxDebugs = 2
INVARIANTS
    FirmwareFollowsSim
    ServersAgree
CHECK_DEADLOCK FALSE

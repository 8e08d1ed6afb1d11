SPECIFICATION FairSpec
CONSTANTS
    MaxSubs = 2
    Clients = {c1, c2}
    Topics = {temp, rpm}
    Addresses = {here, there, everyone}
    Local = here
    Broadcast = everyone
    Reuses = TRUE
    Breakable = {"b"}
    MaxInputs = 1
    MaxSubscribes = 3
INVARIANTS
    TableIsLive
PROPERTIES
    DispatchIsExact
    PollDrainsBoth
    BothPolled
CHECK_DEADLOCK FALSE

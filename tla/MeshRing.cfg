SPECIFICATION FairSpec
CONSTANTS
    s1 = s1
    s2 = s2
    s3 = s3
    s4 = s4
    s5 = s5
    temp = temp
    everyone = everyone
    Broadcast = everyone
    Topics = {temp}
    Sites = {s1, s2, s3}
    Links <- TriangleLinks
    Clients <- AllClients
    Dests = {everyone}
    Publishers = {s1}
    MaxRoutes = 2
    MaxOps = 3
    Leavers = {}
    MaxData = 0
    Lossy = TRUE
INVARIANTS
    NoBlackHole
PROPERTIES
    AnnouncementsDieOut
CHECK_DEADLOCK FALSE

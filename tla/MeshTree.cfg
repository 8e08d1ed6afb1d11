SPECIFICATION FairSpec
CONSTANTS
    s1 = s1
    s2 = s2
    s3 = s3
    s4 = s4
    s5 = s5
    temp = temp
    everyone = everyone
    Broadcast = everyone
    Topics = {temp}
    Sites = {s1, s2, s3, s4, s5}
    Links <- ForkLinks
    Clients <- EndClients
    Dests = {everyone}
    Publishers = {s1}
    MaxRoutes = 5
    MaxOps = 4
    Leavers = {s1, s4}
    MaxData = 1
    Lossy = FALSE
INVARIANTS
    SomeSubscriberReached
    SettledMatchesDemand
    HeardAtMostOnce
PROPERTIES
    StayersStayReached
    SettledDelivery
CHECK_DEADLOCK FALSE

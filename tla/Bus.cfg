SPECIFICATION TransportSpec
CONSTANTS
    big = big
    mid = mid
    small = small
    s1 = s1
    s2 = s2
    Messages = {big, mid, small}
    SenderOf <- TwoSenders
    WireSize <- Sizes
    ChunkBytes = 7
    Padded = FALSE
    KeepsBadFrame = TRUE
    Depth = 2
    Lossy = TRUE
INVARIANTS
    NoOverflow
PROPERTIES
    RunDelivers
    LinkWhileAlone
CHECK_DEADLOCK FALSE

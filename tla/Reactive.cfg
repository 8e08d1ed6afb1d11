SPECIFICATION FairSpec
CONSTANTS
    Programs <- Small
    B = 6
    S = 7
    MaxSubs = 4
    Times = {1, 2}
    Values = {0, 2}
INVARIANTS
    QueueExact
PROPERTIES
    PropagationEnds
    SyncGraphSpec

SPECIFICATION Spec
CONSTANTS
    Absent = Absent
    Library <- AllBlocks
    Channels = {0}
    Voltages = {2}
    MaxBlockId = 3
    MaxChannels = 3
    MaxTicks = 2
    MaxEdits = 1
    Nodes = {m1, m2}
CONSTRAINT OneKit
INVARIANTS
    WiringSound
    OutputsHonest
    
    LoweringFollows
    DeploymentRejoins
PROPERTIES
    TickIsSynchronous
CHECK_DEADLOCK FALSE

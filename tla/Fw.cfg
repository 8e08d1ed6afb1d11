SPECIFICATION FairSpec
CONSTANTS
    f = f
    a = a
    huge = huge
    NoImage = NoImage
    Factory = f
    Images = {f, a, huge}
    ImageSize <- Sizes
    Damaged = Damaged
    Partition = 4
    SectorSize = 2
    MaxSelects = 1
    MaxFaults = 1
    MaxBreaks = 1
    MaxOthers = 1
INVARIANTS
    FlashKeepsLast
    CompleteMeansMarked
PROPERTIES
    DeviceSpec
    UploadCompletes
CHECK_DEADLOCK FALSE

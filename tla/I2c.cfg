SPECIFICATION Spec
CONSTANTS
    Registers = 2
    MaxBuses = 2
    MaxDevices = 2
    RealBuses = 1
    Addresses = {9, 72, 73}
    Interfaces <- TwoInterfaces
    Images <- OneImage
    Payloads <- OnePayload
    Lengths = {1}
CONSTRAINT OneUsed
INVARIANTS
    HostLearnsOutcome
PROPERTIES
    BusMapSpec

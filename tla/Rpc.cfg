SPECIFICATION Spec
CONSTANTS
    p = p
    q = q
    read = read
    ack = ack
    Nodes = {p, q}
    Types = {read, ack}
    ReplyType <- Acks
    Serves <- ReadServed
    Asks <- PAsksQ
    Publishes <- QAcks
    SeqModulus = 2
    MaxSent = 3
    MaxRepeats = 1
    MaxRestarts = 1
    MaxNoise = 1
INVARIANTS AnswerMatches PatientCallsAnswered
CHECK_DEADLOCK FALSE

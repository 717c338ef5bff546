SPECIFICATION FairSpec
CONSTANTS
    Sessions = {s1}
    EventCap = 2
    MessageCap = 2
    MaxEvents = 3
INVARIANTS
    InOrder
    NoSilentLoss
    OneLate
    Protocol
PROPERTIES
    Delivered
    TasksJoin
CHECK_DEADLOCK FALSE

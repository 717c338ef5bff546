SPECIFICATION CaseSpec
CONSTANTS
    Half = 256
    Exact = 64
    Steps = {1, 2, 4}
    Addrs = {"a", "b", "c"}
    MaxList = 3
    Ups = {u1, u2}
    DescNames = {n1, n2}
    Capacity = 2
INVARIANTS
    ReadBack
    SentInRange
    RoutesAgree
    RequestTokens
    EventsReplay
    Precedence
    EnvReachesUpsd
    ClientsMirrored
    ClientsReplay
    AccountedFor
PROPERTY
    EventuallyDescribed
CHECK_DEADLOCK FALSE

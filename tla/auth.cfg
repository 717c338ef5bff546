SPECIFICATION Spec
CONSTANTS
    Users = {u1}
    Perms = {p1}
    Browsers = {b1}
    Programs = {a1}
    SessionLen = 4
    RenewLen = 1
    KeyLen = 2
    MaxTime = 7
INVARIANTS
    RevokedInTime
    KeyInTime
    StaysLoggedIn
CHECK_DEADLOCK FALSE

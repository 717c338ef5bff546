SPECIFICATION Spec
CONSTANTS
    Callers = {c1, c2}
    Conns = {k1, k2, k3}
    Limit = 1
    NoConn = NoConn
INVARIANT
    SocketBound

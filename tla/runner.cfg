SPECIFICATION Spec
CONSTANT N = 2
INVARIANTS
    ClosedAfterUsers
PROPERTY
    ShutdownEnds

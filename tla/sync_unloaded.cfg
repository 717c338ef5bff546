SPECIFICATION Spec
CONSTANTS
    Devices = {u1, u2}
    Status = {"OL", "OB"}
    Descs = {"a"}
    NoDesc = ""
INVARIANT
    UnloadedIsNoComm

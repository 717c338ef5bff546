SPECIFICATION MirrorSpec
CONSTANTS
    Devices = {u1, u2}
    Status = {"OL"}
    Descs = {"a"}
    NoDesc = ""
INVARIANTS
    OnlineIffDevices
    PresenceReplay
    StatusReplay
PROPERTY
    TableConverges

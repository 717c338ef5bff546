SPECIFICATION MirrorSpec
CONSTANTS
    Devices = {u1}
    Status = {"OL", "OB"}
    Descs = {"a", "b"}
    NoDesc = ""
PROPERTY
    TableConverges

SPECIFICATION Spec
CONSTANTS
    Ups = {"u1", "u2"}
    Ops = {"GetCmdDesc", "GetVarDesc", "GetVarType", "GetUpsDesc", "GetVar", "InstCmd", "ListClient", "ListCmd", "ListVar", "ListEnum", "ListRange", "ListRw", "ListUps", "Password", "Username", "AttachCommand", "DetachCommand", "FsdCommand", "SetVariable", "GetDaemonVer", "GetProtVer", "StartTls"}
    MaxRows = 2
    Tls = TRUE
INVARIANTS
    Clean
PROPERTIES
    Understood
    AnsweredEnds
    OwnWholeAnswer

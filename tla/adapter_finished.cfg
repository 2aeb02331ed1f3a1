CONSTANTS
    c1 = c1
    web = web
    shell = shell
    NotGiven = NotGiven
    Clients <- OneClient
    Names <- OneName
    TtyNames <- NoNames
    Kinds <- OneAlone
    MaxIds = 1
    MaxFaults = 0
    MaxLines = 1
    MaxTime = 1
    Second = 1
    MaxTail = 1
    WideChars = FALSE
SPECIFICATION AdapterSpec
INVARIANT FinishedOnlyExited

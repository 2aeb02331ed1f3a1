CONSTANTS
    c1 = c1
    web = web
    shell = shell
    NotGiven = NotGiven
    Clients <- OneClient
    Names <- TwoNames
    TtyNames <- WithTty
    Kinds <- AllCalls
    MaxIds = 2
    MaxFaults = 0
    MaxLines = 3
    MaxTime = 3
    Second = 2
    MaxTail = 2
    WideChars = TRUE
SPECIFICATION AdapterSpec
INVARIANT LogsFaithful

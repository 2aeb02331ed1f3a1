CONSTANTS
    c1 = c1
    web = web
    shell = shell
    NotGiven = NotGiven
    Clients <- OneClient
    Names <- TwoNames
    TtyNames <- WithTty
    Kinds <- AllCalls
    MaxIds = 2
    MaxFaults = 1
    MaxLines = 3
    MaxTime = 3
    Second = 2
    MaxTail = 2
    WideChars = FALSE
SPECIFICATION AdapterSpec
INVARIANTS AdapterTypeOK RightError ListSandwich RacesAreNoErrors OkMeansDone LogsFaithful

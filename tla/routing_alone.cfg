CONSTANTS
    p1 = p1
    p2 = p2
    web = web
    api = api
    Procs <- OneProc
    AppNames <- TwoApps
    Hosted <- WithHost
    NoApp = NoApp
    MaxDeployments = 3
    Faults <- DeployFaults
SPECIFICATION RoutingSpec
INVARIANT RoutingTypeOK
PROPERTY NoDowntime LoadsOnlyLive StaysReached

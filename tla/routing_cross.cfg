CONSTANTS
    p1 = p1
    p2 = p2
    web = web
    api = api
    Procs <- TwoProcs
    AppNames <- TwoApps
    Hosted <- WithHost
    NoApp = NoApp
    MaxDeployments = 3
    Faults <- NoFaults
SPECIFICATION RoutingSpec
PROPERTY StaysReached

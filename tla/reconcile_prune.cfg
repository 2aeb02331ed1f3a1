CONSTANTS
    p1 = p1
    p2 = p2
    a1 = a1
    a2 = a2
    Procs <- TwoProcs
    Janitors <- Janitor
    AppNames <- OneApp
    NoApp = NoApp
    MaxDeployments = 1
    Faults <- NoFaults
    Options <- PruneOptions
SPECIFICATION ReconcileSpec
PROPERTY PrunesNoLiveDeployment
